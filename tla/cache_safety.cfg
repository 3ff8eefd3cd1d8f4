\* Two goroutines, three artifacts, one fault, a crash and a deletion.
SPECIFICATION Spec
CONSTANTS
    NoProc = NoProc
    k1 = k1
    k2 = k2
    big = big
    p1 = p1
    p2 = p2
    Keys = {k1, k2, big}
    Size <- MCSize
    MaxBytes = 2
    Procs = {p1, p2}
    Backends = {"s3", "local"}
    MaxCalls = 5
    MaxDeletes = 1
    MaxFaults = 1
    MaxRestarts = 1
SYMMETRY Symmetry
\* A cache that nobody calls is at rest, and the calls are bounded.
CHECK_DEADLOCK FALSE
INVARIANTS
    TypeOK
    NothingTorn
    NotFoundIsTrue
    OneFillPerKey
    Accounted
