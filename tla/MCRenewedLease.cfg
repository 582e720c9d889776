SPECIFICATION Spec
CONSTANTS
    Clients = {c1, c2}
    Instances = {i1}
    NoClient = NoClient
    NoInstance = NoInstance
    Timeout = 5
    RenewMargin = 3
    MaxDelay = 1
    OptimisticLockMaxRetries = 1
    MaxTime = 8
    MaxVersion = 5
SYMMETRY ClientSymmetry
INVARIANTS RenewedLeaseIsHeld AccountsAreNotShared ReturnedIsReturned
CHECK_DEADLOCK FALSE
