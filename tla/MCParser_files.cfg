CONSTANT Files <- All
SPECIFICATION Spec
INVARIANTS NothingElseSilent RestrictionScoped Balanced
PROPERTY Terminates
CHECK_DEADLOCK FALSE
