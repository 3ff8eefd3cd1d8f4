\* Two replicas, every fault, early clocks, fair workers; nothing is printed.
SPECIFICATION FairSpec
CONSTANTS
    NULL = NULL
    a1 = a1
    b1 = b1
    b2 = b2
    p1 = p1
    p2 = p2
    Apps = {a1}
    Builds = {b1}
    AppOf <- MCAppOf
    Replicas = {p1, p2}
    MaxExecutions = 2
    MaxPrint = 0
    MaxLogBytes = 0
    LogLimit = 0
    MarkerLen = 1
    Deletable = {a1}
    Faults = {"crash", "stop", "dberror", "early"}
    MaxFaults = 2
CHECK_DEADLOCK FALSE
PROPERTY
    EverySettles
