SPECIFICATION Spec
CONSTANTS
  BlockSize = 11
  ItemSizes = {2, 3, 4, 8}
  MaxItems = 6
INVARIANTS TypeOK BackwardReverses
PROPERTIES ForwardVisitsAll
