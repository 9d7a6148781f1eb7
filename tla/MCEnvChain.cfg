SPECIFICATION Spec
CONSTANTS
    x = x
    amp = amp
    add = add
    num = num
    lst = lst
    Symbols <- AmpOnly
    BuiltinNames <- Add
    Data <- LstOnly
    ListData = lst
    Amp = amp
    MaxDepth = 3
    MaxDefs = 1
    Formals <- ChainFormals
    MaxArgs = 1
PROPERTIES StoredIsSeen CallersUntouched ScopesSpec
