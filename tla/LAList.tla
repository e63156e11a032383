------------------------------- MODULE LAList -------------------------------
(***************************************************************************)
(* The linked array list of ojit_mem.c: blocks of BlockSize bytes filled   *)
(* with items of one size, walked forwards by lalist_iter_next (FOREACH,   *)
(* FOREACH_INSTR) and backwards by lalist_iter_prev (the compiler).  The   *)
(* walks interleave with lalist_grow_add, as when the parser adds          *)
(* instructions between two calls.  Offsets are in bytes, as in the code.  *)
(***************************************************************************)
EXTENDS Integers, Sequences, SequencesExt

CONSTANTS
  BlockSize,  \* LALIST_BLOCK_SIZE
  ItemSizes,  \* sizeof the types kept in lists
  MaxItems    \* bound on the items added

\* 500 is a multiple of none of 8 (IRValue), 40 (Instruction), 120 (BlockIR).
\* The forward walk would skip the last item of a block if it were.
ASSUME ListAssumption ==
  /\ BlockSize \in Nat
  /\ \A size \in ItemSizes : size \in 1 .. BlockSize /\ BlockSize % size # 0

VARIABLES
  item_size,  \* the size of this list's items
  blocks,     \* the items of each block, in the order they were added
  fwd,        \* a forward iterator: [list, index], list 0 is NULL
  seen_fwd,   \* history: the items it returned
  bwd,        \* a backward iterator
  seen_bwd,   \* history: the items it returned
  start_bwd   \* history: the items in the list when it was initialised

vars == <<item_size, blocks, fwd, seen_fwd, bwd, seen_bwd, start_bwd>>

LenOf(b) == item_size * Len(blocks[b])              \* lalist->len
At(b, index) == blocks[b][index \div item_size + 1]  \* &lalist->mem[index]
Items == FlattenSeq(blocks)

Init ==
  /\ item_size \in ItemSizes
  /\ blocks = << << >> >>
  /\ fwd = [list |-> 1, index |-> 0]
  /\ seen_fwd = << >>
  /\ bwd = [list |-> 1, index |-> 0]
  /\ seen_bwd = << >>
  /\ start_bwd = << >>

\* Mutant: the room for the item itself is not asked for.
GrowAddWhenFull(x) ==
  /\ blocks' = IF LenOf(Len(blocks)) >= BlockSize
               THEN Append(blocks, <<x>>)
               ELSE [blocks EXCEPT ![Len(blocks)] = Append(@, x)]
  /\ UNCHANGED <<item_size, fwd, seen_fwd, bwd, seen_bwd, start_bwd>>

\* lalist_grow_add, through the handle to the last block, which it moves on.
GrowAdd(x) ==
  /\ blocks' = IF LenOf(Len(blocks)) + item_size > BlockSize
               THEN Append(blocks, <<x>>)
               ELSE [blocks EXCEPT ![Len(blocks)] = Append(@, x)]
  /\ UNCHANGED <<item_size, fwd, seen_fwd, bwd, seen_bwd, start_bwd>>

InitFwd ==
  /\ fwd' = [list |-> 1, index |-> 0]
  /\ seen_fwd' = << >>
  /\ UNCHANGED <<item_size, blocks, bwd, seen_bwd, start_bwd>>

\* Mutant: the last item counts as the end of the block.
LeavesBlockEarly ==
  \/ fwd.index >= BlockSize - item_size
  \/ fwd.index + item_size >= LenOf(fwd.list)

\* The block is left when its end is near, or when it has no item at index.
LeavesBlock ==
  \/ fwd.index >= BlockSize - item_size
  \/ fwd.index + item_size > LenOf(fwd.list)

NextBlock == IF fwd.list = Len(blocks) THEN 0 ELSE fwd.list + 1

IterNext ==
  /\ fwd.list # 0
  /\ LET at == IF LeavesBlock THEN [list |-> NextBlock, index |-> 0] ELSE fwd
     IN  IF at.list = 0
         THEN fwd' = at /\ UNCHANGED seen_fwd
         ELSE /\ fwd' = [at EXCEPT !.index = @ + item_size]
              /\ seen_fwd' = Append(seen_fwd, At(at.list, at.index))
  /\ UNCHANGED <<item_size, blocks, bwd, seen_bwd, start_bwd>>

\* The compiler starts at the last block, with index = its len.
InitBwd ==
  /\ bwd' = [list |-> Len(blocks), index |-> LenOf(Len(blocks))]
  /\ seen_bwd' = << >>
  /\ start_bwd' = Items
  /\ UNCHANGED <<item_size, blocks, fwd, seen_fwd>>

\* Mutant: the first item of a block is skipped.
IterPrevSkippingFirst ==
  /\ bwd.list # 0
  /\ LET at == IF bwd.index > item_size THEN bwd
               ELSE [list |-> bwd.list - 1,
                     index |-> IF bwd.list = 1 THEN bwd.index ELSE LenOf(bwd.list - 1)]
     IN  IF at.list = 0
         THEN bwd' = at /\ UNCHANGED seen_bwd
         ELSE /\ bwd' = [at EXCEPT !.index = @ - item_size]
              /\ seen_bwd' = Append(seen_bwd, At(at.list, at.index - item_size))
  /\ UNCHANGED <<item_size, blocks, fwd, seen_fwd, start_bwd>>

IterPrev ==
  /\ bwd.list # 0
  /\ LET at == IF bwd.index >= item_size THEN bwd
               ELSE [list |-> bwd.list - 1,
                     index |-> IF bwd.list = 1 THEN bwd.index ELSE LenOf(bwd.list - 1)]
     IN  IF at.list = 0
         THEN bwd' = at /\ UNCHANGED seen_bwd
         ELSE /\ bwd' = [at EXCEPT !.index = @ - item_size]
              /\ seen_bwd' = Append(seen_bwd, At(at.list, at.index - item_size))
  /\ UNCHANGED <<item_size, blocks, fwd, seen_fwd, start_bwd>>

Next ==
  \/ Len(Items) < MaxItems /\ GrowAdd(Len(Items) + 1)
  \/ InitFwd
  \/ IterNext
  \/ InitBwd
  \/ IterPrev

Spec == Init /\ [][Next]_vars

-----------------------------------------------------------------------------
IteratorType == [list : 0 .. Len(blocks), index : 0 .. BlockSize]

\* Type invariant: no block holds more bytes than it has room for.
TypeOK ==
  /\ item_size \in ItemSizes
  /\ blocks \in Seq(Seq(1 .. MaxItems))
  /\ \A b \in 1 .. Len(blocks) : LenOf(b) \in 0 .. BlockSize
  /\ fwd \in IteratorType
  /\ bwd \in IteratorType
  /\ seen_fwd \in Seq(1 .. MaxItems)
  /\ seen_bwd \in Seq(1 .. MaxItems)
  /\ start_bwd \in Seq(1 .. MaxItems)

\* A forward walk meets the items in the order they were added, across blocks
\* and whatever is added while it runs, skips none and repeats none; and it
\* ends (lalist_iter_next returns NULL) only behind the last item.
ForwardVisitsAll ==
  /\ []IsPrefix(seen_fwd, Items)
  /\ [][IterNext /\ fwd'.list = 0 => seen_fwd = Items]_vars

\* A backward walk from the end meets, in reverse, exactly the items that were
\* there when it started, and ends at the first one: the compiler emits each
\* instruction of a block once.
BackwardReverses ==
  /\ IsPrefix(seen_bwd, Reverse(start_bwd))
  /\ bwd.list = 0 => seen_bwd = Reverse(start_bwd)

=============================================================================
