SPECIFICATION Spec
CONSTANTS
    Fds = {f1}
    Cos = {c1, c2}
    Idlers = {i1}
    None = None
    MaxCalls = 2
    MaxCbs = 2
    MaxOpens = 1
INVARIANT EventWakesWaiter
CHECK_DEADLOCK FALSE
