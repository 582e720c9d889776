SPECIFICATION Spec
CONSTANTS
    Calls = {c1, c2, c3}
    MaxConcurrent = {2}
    DelayMS = 1
    RetryDelays = {0, 2}
    MaxRetries = 1
    PauseTimes = {1}
    UserOps = {"pause", "resume", "clear"}
    NoTimer = NoTimer
    MaxPauses = 1
INVARIANTS TypeOK CountersAddUp InvocationsAreSpaced
PROPERTIES CallsEnd
CHECK_DEADLOCK FALSE
