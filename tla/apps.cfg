\* Two organizations, two requests at a time and a deployer.
SPECIFICATION Spec
CONSTANTS
    NULL = NULL
    DELETED = DELETED
    o1 = o1
    o2 = o2
    i1 = i1
    p1 = p1
    p2 = p2
    p3 = p3
    a1 = a1
    a2 = a2
    a3 = a3
    a4 = a4
    n1 = n1
    n2 = n2
    n3 = n3
    r1 = r1
    R1 = R1
    main = main
    dev = dev
    k1 = k1
    k2 = k2
    c1 = c1
    c2 = c2
    w1 = w1
    Orgs = {o1, o2}
    Installs = {i1}
    Projects = {p1, p2, p3}
    AppIds = {a1, a2, a3, a4}
    Names = {n1, n2, n3}
    Given = {n3}
    Repos = {r1, R1}
    Lower <- MCLower
    Branches = {main, dev}
    Default = main
    Commits = {k1, k2}
    Tarball <- MCTarball
    MaxArchiveEntries = 3
    MaxArchiveBytes = 3
    MaxArchiveExpandedBytes = 3
    FirstCommit = k1
    Targets <- MCTargets
    Callers = {o1}
    Clients = {c1, c2}
    Deployers = {w1}
    Projects0 <- MCProjects0
    Apps0 <- MCApps0
    Installed0 <- MCInstalled0
    Built0 = a1
    Readable0 <- MCReadable0
    MaxCalls = 2
    MaxDeployments = 4
    MaxEvents = 2
\* Requests are optional and bounded.
CHECK_DEADLOCK FALSE
INVARIANTS
    TypeOK
    AlwaysRunnable
    ChangesHold
    OwnInstallation
    BuildsWhatWasAsked
PROPERTIES
    PushReachesFollowers
    RequestsEnd
