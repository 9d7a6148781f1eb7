SPECIFICATION Spec
CONSTANTS
    x = x
    amp = amp
    add = add
    num = num
    lst = lst
    Symbols <- XAmp
    BuiltinNames <- None
    Data <- LstOnly
    ListData = lst
    Amp = amp
    MaxDepth = 2
    MaxDefs = 2
    Formals <- UpToTwo
    MaxArgs = 2
INVARIANTS TypeOK SymbolsUnique
PROPERTIES OnlyDynamicChanges
