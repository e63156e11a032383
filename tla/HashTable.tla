------------------------------ MODULE HashTable ------------------------------
(***************************************************************************)
(* The chained hash table of hash_table.c.  A table is a linked list of    *)
(* blocks; every block is an array of NumSlots entries.  A key has one     *)
(* slot number, and its entry is in that slot of the first block where the *)
(* slot was free.  Entries are also threaded, newest first, through their  *)
(* prev field, starting at last_entry: the IR builder walks that thread.   *)
(***************************************************************************)
EXTENDS Integers, Sequences

CONSTANTS
  Keys,     \* the possible HashKey.cmp_obj pointers, none of them NULL
  Values,   \* the possible 64-bit values
  Slots,    \* 0 .. LALIST_BLOCK_SIZE / sizeof(TableEntry) - 1
  SlotOf,   \* key.hash % (LALIST_BLOCK_SIZE / sizeof(TableEntry)), per key
  Null,     \* the NULL pointer
  NoValue,  \* the zero word
  Absent    \* "*value_ptr was not written"

ASSUME TableAssumption ==
  /\ SlotOf \in [Keys -> Slots]
  /\ NoValue \in Values
  /\ Absent \notin Values
  /\ Null \notin Keys
  /\ Null \notin Nat \X Slots

VARIABLES
  blocks,      \* the list from first_block: a sequence of arrays of entries
  last_entry,  \* position of the newest entry, or Null
  len,         \* table->len
  inserted,    \* history: the positions in the order they were filled
  ret          \* what the last call returned

vars == <<blocks, last_entry, len, inserted, ret>>

Positions == (1 .. Len(blocks)) \X Slots

\* An entry of a fresh block: ojit_alloc hands out zeroed memory.
ZeroEntry == [key |-> Null, value |-> NoValue, prev |-> Null]
ZeroBlock == [s \in Slots |-> ZeroEntry]

Entry(p) == blocks[p[1]][p[2]]
Occupied(p) == Entry(p).key # Null

Result(ok, value) == [ok |-> ok, value |-> value]

(***************************************************************************)
(* The probe every operation starts with: block after block at the key's   *)
(* slot, past the entries of other keys.  It stops at the key's entry, at  *)
(* a free entry, or one block past the end of the list.                    *)
(***************************************************************************)
\* Mutant: the probe does not look at the keys of the entries it passes.
StopsAtAnyFree(k, b) == b = Len(blocks) + 1 \/ blocks[b][SlotOf[k]].key = Null

StopsAt(k, b) ==
  b = Len(blocks) + 1 \/ blocks[b][SlotOf[k]].key \in {Null, k}

Probe(k) ==
  CHOOSE b \in 1 .. Len(blocks) + 1 :
    /\ StopsAt(k, b)
    /\ \A c \in 1 .. (b - 1) : ~StopsAt(k, c)

Found(k) ==
  /\ Probe(k) <= Len(blocks)
  /\ blocks[Probe(k)][SlotOf[k]].key = k

Lookup(k) == IF Found(k) THEN blocks[Probe(k)][SlotOf[k]].value ELSE Absent

\* The operations that may write append a block when the probe runs off the end.
Grown(k) == IF Probe(k) > Len(blocks) THEN Append(blocks, ZeroBlock) ELSE blocks

With(bs, b, s, entry) == [bs EXCEPT ![b] = [@ EXCEPT ![s] = entry]]

\* Mutants: a block that is appended is not linked into the list; the thread is
\* cut off at the new entry.
FillUnlinked(k, v) ==
  /\ blocks' = IF Probe(k) > Len(blocks) THEN blocks
               ELSE With(blocks, Probe(k), SlotOf[k],
                         [key |-> k, value |-> v, prev |-> last_entry])
  /\ last_entry' = <<Probe(k), SlotOf[k]>>
  /\ len' = len + 1
  /\ inserted' = Append(inserted, <<Probe(k), SlotOf[k]>>)

FillUnthreaded(k, v) ==
  /\ blocks' = With(Grown(k), Probe(k), SlotOf[k],
                    [key |-> k, value |-> v, prev |-> Null])
  /\ last_entry' = <<Probe(k), SlotOf[k]>>
  /\ len' = len + 1
  /\ inserted' = Append(inserted, <<Probe(k), SlotOf[k]>>)

\* Fill the free entry the probe stopped at and thread it in front of last_entry.
Fill(k, v) ==
  /\ blocks' = With(Grown(k), Probe(k), SlotOf[k],
                    [key |-> k, value |-> v, prev |-> last_entry])
  /\ last_entry' = <<Probe(k), SlotOf[k]>>
  /\ len' = len + 1
  /\ inserted' = Append(inserted, <<Probe(k), SlotOf[k]>>)

-----------------------------------------------------------------------------
Init ==
  /\ blocks = <<ZeroBlock>>
  /\ last_entry = Null
  /\ len = 0
  /\ inserted = << >>
  /\ ret = Result(FALSE, Absent)

\* Mutant: a second insert overwrites the value.
InsertOverwriting(k, v) ==
  \/ /\ Found(k)
     /\ blocks' = With(blocks, Probe(k), SlotOf[k],
                       [blocks[Probe(k)][SlotOf[k]] EXCEPT !.value = v])
     /\ ret' = Result(FALSE, Absent)
     /\ UNCHANGED <<last_entry, len, inserted>>
  \/ /\ ~Found(k)
     /\ Fill(k, v)
     /\ ret' = Result(TRUE, Absent)

Insert(k, v) ==
  \/ /\ Found(k)
     /\ ret' = Result(FALSE, Absent)
     /\ UNCHANGED <<blocks, last_entry, len, inserted>>
  \/ /\ ~Found(k)
     /\ Fill(k, v)
     /\ ret' = Result(TRUE, Absent)

\* Mutant: hash_table_set threads the entry again.
SetRethreading(k, v) ==
  /\ blocks' = IF Found(k)
               THEN With(blocks, Probe(k), SlotOf[k],
                         [key |-> k, value |-> v, prev |-> last_entry])
               ELSE Grown(k)
  /\ ret' = Result(Found(k), Absent)
  /\ UNCHANGED <<last_entry, len, inserted>>

\* hash_table_set appends the block before it finds out that the key is missing.
Set(k, v) ==
  /\ blocks' = IF Found(k)
               THEN With(blocks, Probe(k), SlotOf[k],
                         [blocks[Probe(k)][SlotOf[k]] EXCEPT !.value = v])
               ELSE Grown(k)
  /\ ret' = Result(Found(k), Absent)
  /\ UNCHANGED <<last_entry, len, inserted>>

GetPtr(k) ==
  \/ /\ Found(k)
     /\ ret' = Result(TRUE, Lookup(k))
     /\ UNCHANGED <<blocks, last_entry, len, inserted>>
  \/ /\ ~Found(k)
     /\ Fill(k, NoValue)
     /\ ret' = Result(TRUE, NoValue)

Get(k) ==
  /\ ret' = Result(Found(k), Lookup(k))
  /\ UNCHANGED <<blocks, last_entry, len, inserted>>

Has(k) ==
  /\ ret' = Result(Found(k), Absent)
  /\ UNCHANGED <<blocks, last_entry, len, inserted>>

Next ==
  \E k \in Keys :
    \/ \E v \in Values : Insert(k, v) \/ Set(k, v)
    \/ GetPtr(k)
    \/ Get(k)
    \/ Has(k)

Spec == Init /\ [][Next]_vars

-----------------------------------------------------------------------------
EntryType ==
  [key : Keys \cup {Null}, value : Values, prev : (Nat \X Slots) \cup {Null}]

\* Type invariant: the shapes of table->first_block and len; last_entry is NULL or
\* points into a block of the list.
TypeOK ==
  /\ blocks \in Seq([Slots -> EntryType])
  /\ last_entry \in Positions \cup {Null}
  /\ len \in Nat
  /\ inserted \in Seq(Nat \X Slots)
  /\ ret \in [ok : BOOLEAN, value : Values \cup {Absent}]

\* A slot's entries fill the blocks from the first one on, without a hole: a
\* probe that stops at a free entry has passed every entry of its slot.
NoHole ==
  \A s \in Slots : \E depth \in 0 .. Len(blocks) :
    \A b \in 1 .. Len(blocks) : Occupied(<<b, s>>) <=> b <= depth

\* No key has two entries, and every entry is in the slot its key hashes to:
\* hash_table_set and hash_table_get cannot disagree about which one is the key's.
OneEntryPerKey ==
  \A p, q \in Positions :
    Occupied(p) => /\ p[2] = SlotOf[Entry(p).key]
                   /\ Entry(p).key = Entry(q).key => p = q

\* The thread that merge_blocks walks (last_entry, then prev until NULL) visits
\* exactly the occupied entries, once each and newest first, and len counts them.
ThreadVisitsEveryEntry ==
  /\ len = Len(inserted)
  /\ last_entry = IF len = 0 THEN Null ELSE inserted[len]
  /\ \A i \in 1 .. len :
       /\ inserted[i] \in Positions
       /\ Entry(inserted[i]).prev = IF i = 1 THEN Null ELSE inserted[i - 1]
  /\ \A p \in Positions :
       Occupied(p) <=> \E i \in 1 .. len : inserted[i] = p
  /\ \A i, j \in 1 .. len : inserted[i] = inserted[j] => i = j

\* An entry never moves, is never given to another key and never leaves the
\* thread: the pointer hash_table_get_ptr returns stays the address of that
\* key's value whatever is inserted later.
EntriesStay ==
  [][\A p \in Positions :
       Occupied(p) => /\ p \in Positions'
                      /\ Entry(p)'.key = Entry(p).key
                      /\ Entry(p)'.prev = Entry(p).prev]_vars

\* The table implements the ordered map: every call returns what the map would
\* return, whatever the collisions, and the thread is the map's order.
Map == INSTANCE OrderedMap
  WITH map <- [k \in Keys |-> Lookup(k)],
       order <- [i \in 1 .. len |-> Entry(inserted[i]).key]

ImplementsOrderedMap == Map!Spec

=============================================================================
