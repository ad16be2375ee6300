CONSTANTS
    Workers = {w1}
    Main = main
    Clients = {}
    UseMain = TRUE
    Coroutines = {c1, c2}
    AnyThread = any
    NoTask = none
    SizeMod = 8
    MaxTickles = 1
SPECIFICATION Spec
SYMMETRY CoSymmetry
INVARIANT TypeOK
PROPERTY PoolSafe
CHECK_DEADLOCK FALSE
