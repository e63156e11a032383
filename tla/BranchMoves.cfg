SPECIFICATION Spec
CONSTANTS
  NumRegs = 2
  NumVars = 4
  NumSlots = 1
INVARIANTS
  PlacesAreDistinct
  OnlySecondTargetOverruns
  ArgumentsArrive
CHECK_DEADLOCK FALSE
