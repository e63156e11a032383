SPECIFICATION Spec
CONSTANTS
  Ints = 4096
  Carries = 16
  Tags = 8
  Slots = {0, 1, 15, 16, 31, 32}
  Constants = {0, 5, 127, 128, 255, 256, 3000, 4096, 65541}
  Samples = {7, 3000, 65541, 69632}
INVARIANTS
  BytesDoTheOperation
CHECK_DEADLOCK FALSE
