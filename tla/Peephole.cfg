SPECIFICATION Spec
CONSTANTS
  Ints = 4
  Constants <- MCConstants
  MaxAdds = 3
  MaxUsers = 2
INVARIANTS
  UsedValuesStay
  CountsCoverUses
  NothingLeftToFold
PROPERTIES
  FoldingEnds
CHECK_DEADLOCK FALSE
