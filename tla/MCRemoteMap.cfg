SPECIFICATION Spec
CONSTANTS
    Keys <- OneKey
    Values = {v1, v2}
    None = None
    NotCached = NotCached
    Readers = {r1, r2}
    Exclusive = {"clear", "flush"}
    Careful = TRUE
INVARIANTS
    TypeOK
    CacheIsCoherent
    ReadsAreCurrent
PROPERTIES
    SavesItsContents
SYMMETRY ReaderSymmetry
CHECK_DEADLOCK FALSE
