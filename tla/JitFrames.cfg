SPECIFICATION Spec
CONSTANTS
  Files <- MCFiles
  Names <- MCNames
  Values = {"int", "object"}
  Ints = {"int"}
  MaxStack = 32
INVARIANT RBPKept
CHECK_DEADLOCK FALSE
