---------------------------- MODULE MCHashTable ----------------------------
EXTENDS HashTable, TLC

CONSTANTS k1, k2, k3, k4

\* Three keys collide in slot 0, one is alone in slot 1.
MCSlotOf == (k1 :> 0) @@ (k2 :> 0) @@ (k3 :> 0) @@ (k4 :> 1)
=============================================================================
