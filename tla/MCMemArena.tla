---------------------------- MODULE MCMemArena ----------------------------
EXTENDS MemArena, TLC

CONSTANTS c1, c2, a1, a2, a3

Symmetry == Permutations({c1, c2}) \cup Permutations({a1, a2, a3})
=============================================================================
