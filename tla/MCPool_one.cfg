CONSTANTS
    Pools = {p}
    Values = {a, b}
    Empty = Empty
    Null = Null
    Void = Void
    Panic = Panic
    Sizes = {0, 1, 2}
    GenModulus = 16
    MaxGeneration = 2
    MaxBlocks = 2
    Strays = FALSE
SYMMETRY AnyValue
SPECIFICATION Spec
INVARIANTS FreeListExact FailsOnlyWhenFull
PROPERTIES OnlyOwnHandleReleases ImplementsPoolStore
CHECK_DEADLOCK FALSE
