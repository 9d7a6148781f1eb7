SPECIFICATION Spec
CONSTANTS
    x = x
    amp = amp
    add = add
    num = num
    lst = lst
    Symbols <- XAmp
    BuiltinNames <- None
    Data <- NumLst
    ListData = lst
    Amp = amp
    MaxDepth = 2
    MaxDefs = 1
    Formals <- UpToTwo
    MaxArgs = 2
PROPERTIES DefinedAsNamed
