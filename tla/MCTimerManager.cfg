CONSTANTS
    Timers = {1, 2}
    Callers = {a}
    Idlers = {i}
    Intervals = {1, 3}
    MaxWait = 2
    MaxNow = 3
SPECIFICATION Spec
INVARIANTS
    TypeOK Sorted NoTimerLost WokenInTime
PROPERTY ImplementsTimerService
CHECK_DEADLOCK FALSE
