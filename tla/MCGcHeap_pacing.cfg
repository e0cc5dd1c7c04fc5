SPECIFICATION FairSpec
CONSTANTS
  NSpans = 3
  SpanWords = 1
  Elem <- OneClass
  Requests <- WithHuge
  PtrVars = {p}
  IntVars = {}
  IntVals = {}
  MinTriggers = {1, 3}
  StressLevels = {0, 1, 2}
  Null = Null
INVARIANTS PacingExact
PROPERTIES Returns
