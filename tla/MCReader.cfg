SPECIFICATION Spec
CONSTANTS
    Texts <- MCTexts
    Read <- MCRead
    ReadAll <- MCReadAll
    Says <- MCSays
INVARIANTS ReadsAsWritten MatchesIfPaired AtomsStayWhole OptimisedAsWritten
CHECK_DEADLOCK FALSE
