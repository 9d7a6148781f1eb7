SPECIFICATION FairSpec
CONSTANTS
    a = a
    x = x
    y = y
    z = z
    Args <- MCArgs
    Chars = {a}
    Idents = {x, z}
    Numbers = {0, 1}
    Counts = {42}
    Compilers = {"regex"}
    Quantified = {"maybe"}
    MaxVals = 3
    MaxRules = 2
    MaxNode = 8
INVARIANTS PartsMeanAsWritten
CHECK_DEADLOCK FALSE
