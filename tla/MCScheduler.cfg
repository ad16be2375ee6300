CONSTANTS
    Workers = {w1}
    Main = main
    Clients = {k}
    UseMain = TRUE
    Coroutines = {c1, c2}
    AnyThread = any
    NoTask = none
    SizeMod = 8
    MaxTickles = 2
SPECIFICATION Spec
SYMMETRY CoSymmetry
INVARIANTS
    TypeOK OneWakeup NoTaskDropped RunsOnOneThread NoCoroutineForgotten
    IdleCntExact IdleCoResumable MainLeavesLast
PROPERTY ContinuedAtHome
CHECK_DEADLOCK FALSE
