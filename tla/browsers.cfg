\* Two hosts, two organizations, a handler and operators, two requests at a time.
SPECIFICATION Spec
CONSTANTS
    NULL = NULL
    DELETED = DELETED
    r1 = r1
    r2 = r2
    o1 = o1
    o2 = o2
    x1 = x1
    s1 = s1
    s2 = s2
    p1 = p1
    p2 = p2
    c1 = c1
    c2 = c2
    Replicas = {r1, r2}
    Orgs = {o1, o2}
    Runs = {x1}
    RunOrg <- MCRunOrg
    RunHost <- MCRunHost
    Sessions = {s1}
    Profiles = {p1}
    Known = p1
    KnownOrg = o1
    Desks <- MCDesks
    Clients = {c1, c2}
    MaxCalls = 3
    MaxEvents = 1
\* Requests are optional and bounded.
CHECK_DEADLOCK FALSE
INVARIANTS
    TypeOK
    TenantsApart
    OpensWhole
PROPERTIES
    CloseNeverErases
    RecordsEnd
    CallsReturn
