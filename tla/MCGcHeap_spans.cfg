SPECIFICATION Spec
CONSTANTS
  NSpans = 3
  SpanWords = 1
  Elem <- OneClass
  Requests <- UpToThree
  PtrVars = {p}
  IntVars = {n}
  IntVals <- LooksLikeAddress
  MinTriggers = {3}
  StressLevels = {0}
  Null = Null
INVARIANTS TypeOK RunsWellFormed FreeStackComplete
PROPERTIES NewObjectsAreZero ImplementsObjectStore
