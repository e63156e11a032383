----------------------------- MODULE OrderedMap -----------------------------
(***************************************************************************)
(* What the hash table of hash_table.c promises to the parts that use it:  *)
(* a finite map that remembers the order in which its keys arrived.  The   *)
(* IR builder reads the values (a block's variables), and it also walks    *)
(* the entries from the newest to the oldest to create the parameters of   *)
(* a successor block, so the order is part of the contract.                *)
(***************************************************************************)
EXTENDS Sequences

CONSTANTS
  Keys,     \* the comparison objects of a HashKey (interned strings)
  Values,   \* the 64-bit words stored under a key
  NoValue,  \* the zero word, which hash_table_get_ptr stores for a new key
  Absent    \* the value of a key that is not in the map

VARIABLES
  map,      \* [Keys -> Values \cup {Absent}]
  order,    \* the keys present, oldest first
  ret       \* what the last call returned to its caller

vars == <<map, order, ret>>

Result(ok, value) == [ok |-> ok, value |-> value]

Present(k) == map[k] # Absent

Init ==
  /\ map = [k \in Keys |-> Absent]
  /\ order = << >>
  /\ ret = Result(FALSE, Absent)

\* Only a new key is stored; an existing one keeps its value.
Insert(k, v) ==
  \/ /\ Present(k)
     /\ ret' = Result(FALSE, Absent)
     /\ UNCHANGED <<map, order>>
  \/ /\ ~Present(k)
     /\ map' = [map EXCEPT ![k] = v]
     /\ order' = Append(order, k)
     /\ ret' = Result(TRUE, Absent)

\* Only an existing key is overwritten, and it keeps its place in the order.
Set(k, v) ==
  /\ map' = IF Present(k) THEN [map EXCEPT ![k] = v] ELSE map
  /\ ret' = Result(Present(k), Absent)
  /\ UNCHANGED order

\* The word stored under the key, created as zero when the key is new.
GetPtr(k) ==
  \/ /\ Present(k)
     /\ ret' = Result(TRUE, map[k])
     /\ UNCHANGED <<map, order>>
  \/ /\ ~Present(k)
     /\ map' = [map EXCEPT ![k] = NoValue]
     /\ order' = Append(order, k)
     /\ ret' = Result(TRUE, NoValue)

Get(k) ==
  /\ ret' = Result(Present(k), map[k])
  /\ UNCHANGED <<map, order>>

Has(k) ==
  /\ ret' = Result(Present(k), Absent)
  /\ UNCHANGED <<map, order>>

Next ==
  \E k \in Keys :
    \/ \E v \in Values : Insert(k, v) \/ Set(k, v)
    \/ GetPtr(k)
    \/ Get(k)
    \/ Has(k)

Spec == Init /\ [][Next]_vars

=============================================================================
