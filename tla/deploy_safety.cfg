\* Two replicas, two deployments, one fault of any kind.
SPECIFICATION Spec
CONSTANTS
    NULL = NULL
    a1 = a1
    c1 = c1
    c2 = c2
    p1 = p1
    p2 = p2
    Apps = {a1}
    Commits = {c1, c2}
    Replicas = {p1, p2}
    MaxDeployments = 2
    MaxPrint = 1
    Layers = 2
    Deletable = {a1}
    Faults = {"crash", "stop", "dberror", "early"}
    MaxFaults = 1
CHECK_DEADLOCK FALSE
SYMMETRY Symmetry
INVARIANTS
    TypeOK
    NeverRebuilt
    PublishedWhole
PROPERTY
    ImplementsLifecycle
