\* One call at a time, with crashes anywhere and no failing file system.
SPECIFICATION Spec
CONSTANTS
    NoProc = NoProc
    k1 = k1
    k2 = k2
    big = big
    p1 = p1
    p2 = p2
    Keys = {k1, k2, big}
    Size <- MCSize
    MaxBytes = 2
    Procs = {p1}
    Backends = {"s3"}
    MaxCalls = 7
    MaxDeletes = 1
    MaxFaults = 0
    MaxRestarts = 2
SYMMETRY Symmetry
\* A cache that nobody calls is at rest, and the calls are bounded.
CHECK_DEADLOCK FALSE
INVARIANTS
    RestsInsideBudget
