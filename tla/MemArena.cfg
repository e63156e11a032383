SPECIFICATION Spec
CONSTANTS
  c1 = c1
  c2 = c2
  a1 = a1
  a2 = a2
  a3 = a3
  Ctxs = {c1, c2}
  Arenas = {a1, a2, a3}
  ArenaSize = 4
  Sizes = {1, 2, 4, 5}
  Null = Null
SYMMETRY Symmetry
INVARIANTS TypeOK GrantsDisjoint GrantsBacked DestroyStaysInside
CHECK_DEADLOCK FALSE
