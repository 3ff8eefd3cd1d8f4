\* Two goroutines, an artifact over the budget, one fault.
SPECIFICATION Spec
CONSTANTS
    NoProc = NoProc
    k1 = k1
    k2 = k2
    big = big
    p1 = p1
    p2 = p2
    Keys = {k1, big}
    Size <- MCSize
    MaxBytes = 1
    Procs = {p1, p2}
    Backends = {"s3"}
    MaxCalls = 4
    MaxDeletes = 1
    MaxFaults = 1
    MaxRestarts = 0
\* A cache that nobody calls is at rest, and the calls are bounded.
CHECK_DEADLOCK FALSE
PROPERTY
    CallsReturn
