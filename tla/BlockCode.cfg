SPECIFICATION Spec
CONSTANTS
  Ints = 4096
  Carries = 16
  Tags = 8
  Shapes <- MCShapes
INVARIANTS
  RegistersHeldOnce
  BlockComputes
CHECK_DEADLOCK FALSE
