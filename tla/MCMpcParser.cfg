SPECIFICATION Spec
CONSTANTS
    Nodes = {n1, n2, n3, n4}
    MaxParts = 2
SYMMETRY Symmetry
INVARIANTS
    TypeOK
    OneOwner
    NothingDangles
    NothingLeaks
