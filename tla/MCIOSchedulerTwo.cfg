CONSTANTS
    Workers = {w1}
    Main = main
    Clients = {}
    UseMain = TRUE
    Coroutines = {c1}
    AnyThread = any
    NoTask = none
    SizeMod = 8
    MaxTickles = 1
SPECIFICATION FairSpec
PROPERTIES
    StopEndsEveryThread WaiterContinues
CHECK_DEADLOCK FALSE
