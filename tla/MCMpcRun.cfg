SPECIFICATION FairSpec
CONSTANTS
    a = a
    nl = nl
    NL = nl
    Nul = nul
    Chars <- MCChars
    Texts <- MCTexts
    Literals <- MCLiterals
    Kinds <- MCKinds
    Parsers <- MCParsers
    Roots <- Nested
    Answers <- MCAnswers
    Reaches <- MCReaches
    MarksMin = 2
    MaxOpen = 5
    StackMin = 2
    MaxResults = 4
INVARIANTS TypeOK EveryValueOwned EveryErrorOwned FurthestErrorKept ResultsFit AnswersAsMeant
PROPERTIES ParseEnds KeepsInputProtocol
CHECK_DEADLOCK FALSE

