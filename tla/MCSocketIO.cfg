SPECIFICATION Spec
CONSTANTS
    Fds = {f1}
    Cos = {c1, c2}
    Idlers = {i1}
    None = None
    MaxCalls = 3
    MaxCbs = 1
    MaxOpens = 2
SYMMETRY CoSymmetry
INVARIANTS TypeOK OneWakeupPerWait RegistrationExact ReadyWaiterWakes
CHECK_DEADLOCK FALSE
