SPECIFICATION Spec
CONSTANTS
    Programs <- MCPrograms
    Expressions <- MCExpressions
    Library <- MCLibrary
    MaxDepth = 4
    Said <- EqualPart
    Means <- MCMeans
    Valued <- MCValued
    Ran <- MCRan
    Replied <- MCReplied
INVARIANTS
    ValuesAreFinal
    CallsNest
    AnswersAsMeant
PROPERTIES
    ProgramEnds
CHECK_DEADLOCK FALSE
