CONSTANTS
  Enums <- MCEnums
  Structs <- MCStructs
  Aliases <- MCAliases
  Fits <- MCFits
  MaxList = 2
  Matches <- MCMatches
  Lets <- MCLets
SPECIFICATION Spec
INVARIANTS ReadAsChecked SomeArm NamesBound
CHECK_DEADLOCK FALSE
