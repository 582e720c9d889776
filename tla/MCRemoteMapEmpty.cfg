SPECIFICATION Spec
CONSTANTS
    Keys <- TwoKeys
    Values = {v1}
    None = None
    NotCached = NotCached
    Readers = {r1}
    Exclusive = {"set", "setAll", "delete", "clear", "flush"}
    Careful = FALSE
INVARIANTS
    KnownEmptyIsEmpty
CHECK_DEADLOCK FALSE
