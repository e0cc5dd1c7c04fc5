CONSTANTS
    Arenas = {a1, a2, a3}
    Chunks = {c1, c2, c3}
    NULL = NULL
    Default = 4
    CacheMax = 2
    Sizes = {0, 3}
    Requests = {1, 4, 5}
    MaxObjects = 3
SYMMETRY AnyAddress
SPECIFICATION Spec
INVARIANTS ObjectsDisjoint ScanExact
CHECK_DEADLOCK FALSE
