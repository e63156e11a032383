SPECIFICATION OptSpec
CONSTANTS
  x = x
  y = y
  Null = Null
  Sources <- MCSources
INVARIANTS
  ValuesAreLocal
  EdgesPassEveryParameter
  BlockOrder
  OnlyOpenBlocksLackTerminator
  OnlyDeadCodeDropsParameters
  IntsAreInts
  UsesAreCounted
  ForwardChainsAreReleased
CHECK_DEADLOCK FALSE
