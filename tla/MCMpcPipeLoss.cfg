SPECIFICATION Spec
CONSTANTS
    a = a
    nl = nl
    NL = nl
    Nul = nul
    Chars <- MCChars
    Texts <- MCTexts
    Literals <- MCLiterals
    Kinds = {"pipe"}
    MarksMin = 2
    MaxOpen = 3
INVARIANTS PipeReadsTheText
