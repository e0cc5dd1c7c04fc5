SPECIFICATION Spec
CONSTANTS
  Top = 3
  MaxRounds = 12
  MaxCalls = 4
  Answers = {0, 1}
  Programs <- MCPrograms
INVARIANTS
  Faithful
  MemorySound
PROPERTIES
  ArenasNest
  Ends
CHECK_DEADLOCK FALSE
