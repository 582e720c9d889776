SPECIFICATION Spec
CONSTANTS
    visible = visible
    secret = secret
    other = other
    A = A
    B = B
    Elements <- MCElements
    Hidden = {secret}
    Values = {1}
    Accounts = {A, B}
    AccountOf <- MCAccountOf
    MaxSessions = 3
    MaxChanges = 4
INVARIANTS
    TypeOK
    NextLoadIsOfTheFiles
    MergedIsCurrent
    SavedMergeIsOfItsHash
PROPERTIES
    FlushSavesTheWorkspace
CHECK_DEADLOCK FALSE
