SPECIFICATION PoolSpec
CONSTANTS
    h1 = h1
    h2 = h2
    h3 = h3
    x = x
    y = y
    CellNum = 2
    CellSize = 2
    Sizes <- MCSizes
    Handles <- MCHandles
    Data <- MCData
INVARIANTS PoolTypeOK CellsAccounted BlocksKeepData
CHECK_DEADLOCK FALSE
