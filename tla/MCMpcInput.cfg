SPECIFICATION Spec
CONSTANTS
    a = a
    nl = nl
    NL = nl
    Nul = nul
    Chars <- MCChars
    Texts <- MCTexts
    Literals <- MCLiterals
    Kinds = {"string", "file", "pipe"}
    MarksMin = 2
    MaxOpen = 5
INVARIANTS TypeOK MarksFit MarksPaired ReadsTheText
PROPERTIES PredictiveMovesOn PipeInOrderUnderMark
