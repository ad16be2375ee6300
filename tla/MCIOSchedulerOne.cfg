CONSTANTS
    Workers = {}
    Main = main
    Clients = {k}
    UseMain = TRUE
    Coroutines = {c1, c2}
    AnyThread = any
    NoTask = none
    SizeMod = 8
    MaxTickles = 1
SPECIFICATION FairSpec
PROPERTIES
    StopEndsEveryThread TaskStarts WaiterContinues
CHECK_DEADLOCK FALSE
