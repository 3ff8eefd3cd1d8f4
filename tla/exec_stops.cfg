\* Two replicas and the default limits: why a process that is up stops.
SPECIFICATION Spec
CONSTANTS
    NULL = NULL
    a1 = a1
    b1 = b1
    b2 = b2
    p1 = p1
    p2 = p2
    Apps = {a1}
    Builds = {b1}
    AppOf <- MCAppOf
    Replicas = {p1, p2}
    MaxExecutions = 1
    MaxPrint = 3
    MaxLogBytes = 2
    LogLimit = 2
    MarkerLen = 1
    Deletable = {a1}
    Faults = {"crash", "stop", "early"}
    MaxFaults = 2
SYMMETRY Symmetry
CHECK_DEADLOCK FALSE
PROPERTIES
    StopsForCause
    LogsOnlyGrow
