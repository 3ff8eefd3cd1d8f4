\* Two requests at a time, five in all, one failing call or expiry.
SPECIFICATION Spec
CONSTANTS
    NULL = NULL
    u1 = u1
    u2 = u2
    e1 = e1
    e2 = e2
    o1 = o1
    o2 = o2
    o3 = o3
    t1 = t1
    t2 = t2
    c1 = c1
    c2 = c2
    i1 = i1
    i2 = i2
    k1 = k1
    k2 = k2
    Users = {u1, u2}
    Emails = {e1, e2}
    Orgs = {o1, o2, o3}
    Invites = {i1}
    Tokens = {t1, t2}
    Keys = {k1, k2}
    Clients = {c1, c2}
    Offered = {"viewer"}
    KeyScopes <- MCKeyScopes
    Founder = u1
    FounderEmail = e1
    FounderOrg = o1
    FounderToken = t1
    MaxRequests = 5
    MaxEvents = 1
SYMMETRY Symmetry
\* Requests are optional and bounded.
CHECK_DEADLOCK FALSE
INVARIANTS
    TypeOK
    OwnersKept
    ActsAsGranted
PROPERTIES
    InviteSpentOnce
    SessionsEndForCause
