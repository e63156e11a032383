SPECIFICATION Spec
CONSTANTS
  Files <- MCFiles
  Names <- MCNames
  Values = {"int", "object"}
  Ints = {"int"}
  MaxStack = 32
INVARIANT HostFrameKept
PROPERTY ImplementsCalls
PROPERTY CallsReturn
CHECK_DEADLOCK FALSE
