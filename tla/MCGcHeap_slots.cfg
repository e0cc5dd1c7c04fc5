SPECIFICATION Spec
CONSTANTS
  NSpans = 2
  SpanWords = 2
  Elem <- TwoClasses
  Requests <- SmallObjs
  PtrVars = {p, q}
  IntVars = {}
  IntVals <- LooksLikeAddress
  MinTriggers = {2}
  StressLevels = {0}
  Null = Null
SYMMETRY VarSymmetry
INVARIANTS NoDangling NoSlotLost ClassListsSound TriColour
PROPERTIES CollectExact
