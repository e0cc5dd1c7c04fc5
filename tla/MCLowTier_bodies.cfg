SPECIFICATION LSpec
CONSTANTS
  Start = Start
  NoSearch = NoSearch
  Params <- NParam
  MaxRounds = 2
  Bodies <- SmallBodies
INVARIANTS Safe NoSecondUse Lexical
PROPERTIES FollowsGraph
