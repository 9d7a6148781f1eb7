SPECIFICATION FairSpec
CONSTANTS
    a = a
    x = x
    y = y
    z = z
    Args <- MCArgs
    Chars = {a}
    Idents = {x, z}
    Numbers = {1, 2}
    Counts = {2}
    Compilers = {"regex", "grammar", "lang"}
    Quantified = {"maybe"}
    MaxVals = 3
    MaxRules = 2
    MaxNode = 9
INVARIANTS MeansAsWritten NodesOwned NothingLeftToMerge
PROPERTIES CompilationEnds
CHECK_DEADLOCK FALSE
