\* One replica, one crash, fair deployers.
SPECIFICATION FairSpec
CONSTANTS
    NULL = NULL
    a1 = a1
    c1 = c1
    c2 = c2
    p1 = p1
    p2 = p2
    Apps = {a1}
    Commits = {c1}
    Replicas = {p1}
    MaxDeployments = 1
    MaxPrint = 0
    Layers = 1
    Deletable = {}
    Faults = {"crash"}
    MaxFaults = 1
CHECK_DEADLOCK FALSE
PROPERTY
    EverySettles
