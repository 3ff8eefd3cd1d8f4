\* Two replicas, two executions, one fault of any kind.
SPECIFICATION Spec
CONSTANTS
    NULL = NULL
    a1 = a1
    b1 = b1
    b2 = b2
    p1 = p1
    p2 = p2
    Apps = {a1}
    Builds = {b1, b2}
    AppOf <- MCAppOf
    Replicas = {p1, p2}
    MaxExecutions = 2
    MaxPrint = 1
    MaxLogBytes = 2
    LogLimit = 0
    MarkerLen = 2
    Deletable = {a1}
    Faults = {"crash", "stop", "dberror"}
    MaxFaults = 1
SYMMETRY Symmetry
\* The system stops once every request is answered and no fault is left.
CHECK_DEADLOCK FALSE
INVARIANTS
    TypeOK
    NeverRerun
    
    FinalLogsWin
    PinKept
    TokenSpent
PROPERTY
    ImplementsLifecycle
