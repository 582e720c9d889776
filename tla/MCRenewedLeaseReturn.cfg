SPECIFICATION Spec
CONSTANTS
    Clients = {c1}
    Instances = {i1}
    NoClient = NoClient
    NoInstance = NoInstance
    Timeout = 5
    RenewMargin = 3
    MaxDelay = 1
    OptimisticLockMaxRetries = 1
    MaxTime = 9
    MaxVersion = 6
PROPERTIES NoRenewalAfterReturn
CHECK_DEADLOCK FALSE
