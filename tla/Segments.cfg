SPECIFICATION Spec
CONSTANTS
  NumBlocks = 2
  CodeCapacity = 512
  ArenaSize = 1024
  Sizes = {1, 125, 500}
  PrologueSize = 11
  ReturnSize = 5
  ErrReturnSize = 30
  AssertSize = 14
  MaxEmits = 2
INVARIANTS
  ListHoldsEverySegment
  EmitsInFront
  OffsetsAreContiguous
  JumpsLandWithinReach
PROPERTIES
  CompilationEnds
CHECK_DEADLOCK FALSE
