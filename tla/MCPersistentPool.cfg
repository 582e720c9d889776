SPECIFICATION Spec
CONSTANTS
    p1 = p1
    p2 = p2
    c1 = c1
    c2 = c2
    NoClient = NoClient
    Callers = {p1, p2}
    clientId <- MCClientId
    Instances = {i1}
    Timeout = 2
    OptimisticLockMaxRetries = 1
    StaleReads = TRUE
    MaxTime = 4
    MaxVersion = 3
INVARIANTS TypeOK MutualExclusion HeldLeasesStand WritesAreValidated
CHECK_DEADLOCK FALSE
