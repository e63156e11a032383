----------------------------- MODULE StringTable -----------------------------
(***************************************************************************)
(* The interning table of ojit_string.c.  Identifiers, attributes and      *)
(* function names are compared as pointers everywhere (string_equal,       *)
(* STRING_KEY), so the whole program rests on string_table_add returning   *)
(* one record per content.  The table is a list of blocks with NumSlots    *)
(* records each; the content's hash picks the slot.  A content is a        *)
(* sequence of characters.                                                 *)
(***************************************************************************)
EXTENDS Integers, Sequences

CONSTANTS
  NumSlots,   \* LALIST_BLOCK_SIZE / sizeof(struct s_StringRecord)
  HashOf(_),  \* hash_bytes, a number for every content
  NullString  \* the address of table->null_string

Slots == 0 .. NumSlots - 1

\* An address is a block and a slot; null_string is in no block.
ASSUME TableAssumption == NumSlots \in Nat \ {0} /\ NullString \notin Nat \X Slots

VARIABLES
  blocks,    \* the list from first_block: a sequence of arrays of records
  interned,  \* history: the contents added, with the address first returned
  last       \* the content of the last call and the String it returned

tableVars == <<blocks, interned, last>>

\* length 0 marks a free record: the memory of a new block is zero.
ZeroRecord == [text |-> << >>, length |-> 0, hash |-> 0]
ZeroBlock == [s \in Slots |-> ZeroRecord]

SlotFor(c) == HashOf(c) % NumSlots
Record(p) == blocks[p[1]][p[2]]
Used(record) == record.length # 0

\* Mutant: the text is not compared.
MatchesByHash(record, c) == record.hash = HashOf(c) /\ record.length = Len(c)

Matches(record, c) ==
  /\ record.hash = HashOf(c)
  /\ record.length = Len(c)
  /\ record.text = c        \* strncmp over record.length bytes

\* The block the search ends at: a free record or a match, or a new block.
Stop(c) ==
  CHOOSE b \in 1 .. Len(blocks) + 1 :
    /\ b <= Len(blocks) =>
         LET r == blocks[b][SlotFor(c)] IN ~Used(r) \/ Matches(r, c)
    /\ \A d \in 1 .. (b - 1) :
         LET r == blocks[d][SlotFor(c)] IN Used(r) /\ ~Matches(r, c)

Return(c, address) ==
  /\ last' = [text |-> c, address |-> address]
  /\ interned' = IF c \in DOMAIN interned THEN interned
                 ELSE [d \in DOMAIN interned \cup {c} |-> IF d = c THEN address ELSE interned[d]]

-----------------------------------------------------------------------------
TableInit ==
  /\ blocks = <<ZeroBlock>>
  /\ interned = << >>
  /\ last = [text |-> << >>, address |-> NullString]

AddEmpty(c) ==
  /\ Len(c) = 0
  /\ Return(c, NullString)
  /\ UNCHANGED blocks

AddKnown(c) ==
  /\ Len(c) # 0
  /\ Stop(c) <= Len(blocks)
  /\ Used(blocks[Stop(c)][SlotFor(c)])
  /\ Return(c, <<Stop(c), SlotFor(c)>>)
  /\ UNCHANGED blocks

AddNew(c) ==
  LET grown == IF Stop(c) > Len(blocks) THEN Append(blocks, ZeroBlock) ELSE blocks
      record == [text |-> c, length |-> Len(c), hash |-> HashOf(c)]
  IN  /\ Len(c) # 0
      /\ ~Used(grown[Stop(c)][SlotFor(c)])
      /\ blocks' = [grown EXCEPT ![Stop(c)] = [@ EXCEPT ![SlotFor(c)] = record]]
      /\ Return(c, <<Stop(c), SlotFor(c)>>)

\* string_table_add.
Add(c) == AddEmpty(c) \/ AddKnown(c) \/ AddNew(c)

-----------------------------------------------------------------------------
\* Every call for a content returns the String its first call returned, and
\* what that String refers to is still the content: although hashes and slots
\* collide, equal identifiers are always the same pointer, and different ones
\* never are.
OneStringPerContent ==
  /\ last.text \in DOMAIN interned => last.address = interned[last.text]
  /\ \A c \in DOMAIN interned : interned[c] # NullString => Record(interned[c]).text = c
  /\ \A c, d \in DOMAIN interned : interned[c] = interned[d] => c = d

=============================================================================
