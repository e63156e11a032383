------------------------------ MODULE Segments ------------------------------
(***************************************************************************)
(* How compiler.c lays a function out in memory.  The code of a function   *)
(* is a doubly linked list of segments: labels, jumps and pieces of code.  *)
(* compile_function builds the list with the labels of all blocks first    *)
(* and then emits each block backwards, so that a new segment always goes  *)
(* right behind the label of the block; type checks add an error exit at   *)
(* the end of the list.  stitch_segments then walks the list three times:  *)
(* offsets with every jump at its longest, shorter jumps, and the bytes.   *)
(***************************************************************************)
EXTENDS Integers, Sequences

CONSTANTS
  NumBlocks,     \* the blocks of the function
  CodeCapacity,  \* sizeof(SegmentCode.code)
  ArenaSize,     \* OJIT_ARENA_SIZE: what ojit_alloc can give for the code
  Sizes,         \* the sizes of the pieces of code emitted between jumps
  PrologueSize, ReturnSize, ErrReturnSize, AssertSize,  \* of the fixed pieces
  MaxEmits       \* bound on the pieces of code between the jumps

ASSUME SegmentsAssumption ==
  /\ NumBlocks \in Nat \ {0}
  /\ CodeCapacity \in Nat /\ ArenaSize \in Nat
  /\ Sizes \subseteq 1 .. CodeCapacity
  /\ {PrologueSize, ReturnSize, ErrReturnSize, AssertSize} \subseteq 0 .. CodeCapacity

VARIABLES
  segs,      \* the segments in the order of their creation; 0 is NULL
  writer,    \* state.writer: the label and the segment written to
  block,     \* the block compile_function is at
  ended,     \* whether its terminator was emitted
  errs,      \* state.errs_label
  phase,     \* emit, place, shrink, write, done, or exit
  segment,   \* the position of a walk of stitch_segments
  offset,    \* its offset
  saved,     \* its saved_space
  emits      \* the number of emissions so far

vars == <<segs, writer, block, ended, errs, phase, segment, offset, saved, emits>>

NearJump == 5  \* max_size of a jmp
CondJump == 6  \* max_size of a jcc

NewSegment(type, size, to, before, behind) ==
  [type |-> type, max_size |-> size, final_size |-> 0, offset |-> 0, jump_to |-> to,
   prev |-> before, next |-> behind]

\* Mutants: prev_segment of the one behind is not set; prev and next swapped.
InsertHalf(list, type, size, to, before, behind) ==
  Append([list EXCEPT ![before].next = Len(list) + 1],
         NewSegment(type, size, to, before, behind))
InsertSwapped(list, type, size, to, before, behind) ==
  LET new == Len(list) + 1
      Relink(s) == [list[s] EXCEPT !.prev = IF s = behind THEN new ELSE @,
                                   !.next = IF s = before THEN new ELSE @]
  IN  Append([s \in DOMAIN list |-> Relink(s)], NewSegment(type, size, to, behind, before))

\* create_segment_label, create_segment_code, create_mem_block_jump.
Insert(list, type, size, to, before, behind) ==
  LET new == Len(list) + 1
      Relink(s) == [list[s] EXCEPT !.prev = IF s = behind THEN new ELSE @,
                                   !.next = IF s = before THEN new ELSE @]
  IN  Append([s \in DOMAIN list |-> Relink(s)], NewSegment(type, size, to, before, behind))

\* The segments compile_function creates before it emits a block.
FirstLabel == 1
FirstCode == 2
BlockLabel(b) == 2 + b
FirstErrs == 3 + NumBlocks
ErrReturn == 4 + NumBlocks
ErrReturnCode == 5 + NumBlocks

Skeleton ==
  [s \in 1 .. ErrReturnCode |->
     NewSegment(IF s \in {FirstCode, ErrReturnCode} THEN "code" ELSE "label",
                IF s = ErrReturnCode THEN ErrReturnSize ELSE 0, 0, s - 1,
                IF s = ErrReturnCode THEN 0 ELSE s + 1)]

\* The loop over the blocks: a segment behind the label of block b.
BeginBlock(list, b) ==
  Insert(list, "code", 0, 0, BlockLabel(b),
         IF b = NumBlocks THEN FirstErrs ELSE BlockLabel(b + 1))

Emitting == phase = "emit"

\* asm_emit_byte, n times: what does not fit goes to a new segment in front.
EmitCode(list, w, n) ==
  LET room == CodeCapacity - list[w.curr].max_size
  IN  IF n <= room
      THEN [list EXCEPT ![w.curr].max_size = @ + n]
      ELSE Insert([list EXCEPT ![w.curr].max_size = CodeCapacity],
                  "code", n - room, 0, w.label, w.curr)
AfterCode(list, w, n) ==
  IF list[w.curr].max_size + n <= CodeCapacity THEN w
  ELSE [w EXCEPT !.curr = Len(list) + 1]

\* asm_emit_jmp and asm_emit_jcc: the jump in front, and a segment before it.
EmitJump(list, w, size, to) ==
  LET jump == Len(list) + 1
  IN  Insert(Insert(list, "jump", size, to, w.label, w.curr),
             "code", 0, 0, w.label, jump)

\* Mutant: what follows still goes to the segment behind the jump.
AfterJumpBehind(list, w) == w
AfterJump(list, w) == [w EXCEPT !.curr = Len(list) + 2]

-----------------------------------------------------------------------------
Init ==
  /\ segs = BeginBlock(Skeleton, 1)
  /\ writer = [label |-> BlockLabel(1), curr |-> ErrReturnCode + 1]
  /\ block = 1
  /\ ended = FALSE
  /\ errs = FirstErrs
  /\ phase = "emit"
  /\ segment = 0
  /\ offset = 0
  /\ saved = 0
  /\ emits = 0

\* emit_terminator comes first.  A block without a terminator ends the program.
Terminator(list, w) ==
  /\ Emitting
  /\ ~ended
  /\ ended' = TRUE
  /\ segs' = list
  /\ writer' = w
  /\ UNCHANGED <<block, errs, phase, segment, offset, saved, emits>>

Return == Terminator(EmitCode(segs, writer, ReturnSize), AfterCode(segs, writer, ReturnSize))

Branch(b) ==
  Terminator(EmitJump(segs, writer, NearJump, BlockLabel(b)), AfterJump(segs, writer))

\* The moves of n bytes for the true target come between the two jumps.
CBranch(t, f, n) ==
  LET first == EmitJump(segs, writer, CondJump, BlockLabel(t))
      w1 == AfterJump(segs, writer)
      moves == EmitCode(first, w1, n)
      w2 == AfterCode(first, w1, n)
  IN  Terminator(EmitJump(moves, w2, CondJump, BlockLabel(f)), AfterJump(moves, w2))

Missing ==
  /\ Emitting
  /\ ~ended
  /\ phase' = "exit"
  /\ UNCHANGED <<segs, writer, block, ended, errs, segment, offset, saved, emits>>

Terminate ==
  \/ Return
  \/ \E b \in 1 .. NumBlocks : Branch(b)
  \/ \E t, f \in 1 .. NumBlocks, n \in Sizes \cup {0} : t # f /\ CBranch(t, f, n)
  \/ Missing

Emission ==
  /\ Emitting
  /\ ended
  /\ emits < MaxEmits
  /\ emits' = emits + 1
  /\ UNCHANGED <<block, ended, phase, segment, offset, saved>>

\* The code of some instructions, or the moves of a branch.
Instructions(n) ==
  /\ Emission
  /\ segs' = EmitCode(segs, writer, n)
  /\ writer' = AfterCode(segs, writer, n)
  /\ UNCHANGED errs

\* emit_assert_loc_i32: the error exit, a jump to it, and the comparison.
Assert ==
  LET exit == [label |-> errs, curr |-> Len(segs) + 1]
      exited == EmitJump(Insert(segs, "code", 0, 0, errs, ErrReturn), exit, NearJump, ErrReturn)
      jumping == EmitJump(exited, writer, CondJump, errs)
      w == AfterJump(exited, writer)
      compared == EmitCode(jumping, w, AssertSize)
  IN  /\ Emission
      /\ segs' = Insert(compared, "label", 0, 0, exit.curr, ErrReturn)
      /\ writer' = AfterCode(jumping, w, AssertSize)
      /\ errs' = Len(segs')

NextBlock ==
  /\ Emitting
  /\ ended
  /\ block < NumBlocks
  /\ block' = block + 1
  /\ ended' = FALSE
  /\ segs' = BeginBlock(segs, block + 1)
  /\ writer' = [label |-> BlockLabel(block + 1), curr |-> Len(segs')]
  /\ UNCHANGED <<errs, phase, segment, offset, saved, emits>>

\* The prologue, and the beginning of stitch_segments.
Prologue ==
  /\ Emitting
  /\ ended
  /\ block = NumBlocks
  /\ segs' = [segs EXCEPT ![FirstCode].max_size = PrologueSize]
  /\ writer' = [label |-> FirstLabel, curr |-> FirstCode]
  /\ phase' = "place"
  /\ segment' = FirstLabel
  /\ UNCHANGED <<block, ended, errs, offset, saved, emits>>

-----------------------------------------------------------------------------
(***************************************************************************)
(* stitch_segments.                                                        *)
(***************************************************************************)
Walk(p, next) ==
  /\ phase = p
  /\ segment' = IF segs[segment].next = 0 /\ next = "shrink" THEN FirstLabel
                ELSE segs[segment].next
  /\ phase' = IF segs[segment].next = 0 THEN next ELSE p
  /\ UNCHANGED <<writer, block, ended, errs, emits>>

Place ==
  /\ Walk("place", "shrink")
  /\ segs' = [segs EXCEPT ![segment].offset = offset]
  /\ offset' = offset + segs[segment].max_size
  /\ UNCHANGED saved

\* Targets behind the jump have not been moved yet.
EstimatedDistance(s) ==
  LET end == segs[s].offset - saved + segs[s].max_size
      target == segs[segs[s].jump_to].offset
  IN  (IF target > end THEN target - saved ELSE target) - end

JumpSize(s) ==
  LET distance == EstimatedDistance(s)
  IN  IF distance = 0 THEN 0
      ELSE IF distance > -256 /\ distance < 255 THEN 2
      ELSE segs[s].max_size

\* Mutant: a jump stays where it was placed.
ShrinkJumpInPlace ==
  /\ Walk("shrink", "write")
  /\ segs[segment].type = "jump"
  /\ segs' = [segs EXCEPT ![segment].final_size = JumpSize(segment)]
  /\ saved' = saved + segs[segment].max_size - JumpSize(segment)
  /\ UNCHANGED offset

ShrinkJump ==
  /\ Walk("shrink", "write")
  /\ segs[segment].type = "jump"
  /\ segs' = [segs EXCEPT ![segment].offset = @ - saved,
                          ![segment].final_size = JumpSize(segment)]
  /\ saved' = saved + segs[segment].max_size - JumpSize(segment)
  /\ UNCHANGED offset

ShrinkOther ==
  /\ Walk("shrink", "write")
  /\ segs[segment].type # "jump"
  /\ segs' = [segs EXCEPT ![segment].offset = @ - saved]
  /\ UNCHANGED <<offset, saved>>

\* ojit_alloc refuses what is larger than an arena.
Allocate ==
  /\ phase = "write"
  /\ phase' = IF offset > ArenaSize THEN "exit" ELSE "done"
  /\ UNCHANGED <<segs, writer, block, ended, errs, segment, offset, saved, emits>>

\* Mutant: counted from the end of the long form.
WrittenFromLongForm(s) ==
  LET distance == segs[segs[s].jump_to].offset - (segs[s].offset + segs[s].max_size)
      byte == distance % 256
  IN  CASE segs[s].final_size = 0 -> 0
        [] segs[s].final_size = 2 -> IF byte < 128 THEN byte ELSE byte - 256
        [] OTHER -> distance

\* The displacement the third walk writes into a jump: one byte, signed when
\* the processor reads it, or four.
Written(s) ==
  LET distance == segs[segs[s].jump_to].offset - (segs[s].offset + segs[s].final_size)
      byte == distance % 256
  IN  CASE segs[s].final_size = 0 -> 0
        [] segs[s].final_size = 2 -> IF byte < 128 THEN byte ELSE byte - 256
        [] OTHER -> distance

Next ==
  \/ Terminate
  \/ \E n \in Sizes : Instructions(n)
  \/ Assert
  \/ NextBlock
  \/ Prologue
  \/ Place
  \/ ShrinkJump \/ ShrinkOther
  \/ Allocate

\* The compiler runs on by itself, and emits finitely much for a block.
Spec ==
  /\ Init /\ [][Next]_vars
  /\ WF_vars(Terminate) /\ WF_vars(NextBlock) /\ WF_vars(Prologue)
  /\ WF_vars(Place) /\ WF_vars(ShrinkJump \/ ShrinkOther) /\ WF_vars(Allocate)

-----------------------------------------------------------------------------
\* The segments next_segment leads to from the first.
Reached ==
  LET after[n \in DOMAIN segs] ==
        IF n = 1 THEN FirstLabel
        ELSE LET s == after[n - 1] IN IF s = 0 THEN 0 ELSE segs[s].next
  IN  {after[n] : n \in DOMAIN segs}

\* Whatever is emitted, and wherever the error exits are put in meanwhile, the
\* list leads from the first label through every segment, once, and back.
ListHoldsEverySegment ==
  /\ Reached = DOMAIN segs
  /\ \A s \in DOMAIN segs :
       /\ segs[s].next # 0 => segs[segs[s].next].prev = s
       /\ segs[s].prev # 0 => segs[segs[s].prev].next = s

\* Code is always put right behind the label of its block, in front of what the
\* block already has, also when a full segment or a type check intervenes, and
\* the next error exit right before the common one: emitting backwards gives
\* code that runs forwards.  No piece of code outgrows its array.
EmitsInFront ==
  /\ Emitting => segs[writer.label].next = writer.curr /\ segs[errs].next = ErrReturn
  /\ segs[writer.curr].type = "code"
  /\ \A s \in DOMAIN segs : segs[s].type = "code" => segs[s].max_size <= CodeCapacity

\* The bytes a segment has in the end.
Length(s) == IF segs[s].type = "jump" THEN segs[s].final_size ELSE segs[s].max_size

Stitched == phase \in {"write", "done"}

\* The offsets leave no gap and no overlap once the jumps are shrunk, and the
\* size that is returned is that of all the code.
OffsetsAreContiguous ==
  Stitched =>
    /\ segs[FirstLabel].offset = 0
    /\ \A s \in DOMAIN segs :
         LET end == segs[s].offset + Length(s)
         IN  end = IF segs[s].next = 0 THEN offset - saved ELSE segs[segs[s].next].offset

\* A jump goes to the first byte behind its label, also when it was shortened or
\* left out while its target had not been moved yet.  The short form is the one
\* exception: stitch_segments uses it up to twice as far as a signed byte reaches,
\* and there the jump misses.
Reaches(s) ==
  segs[s].final_size = 2 => segs[segs[s].jump_to].offset - (segs[s].offset + 2) \in -128 .. 127
JumpsLandWithinReach ==
  Stitched =>
    \A s \in DOMAIN segs :
      segs[s].type = "jump" =>
        (segs[s].offset + segs[s].final_size + Written(s) = segs[segs[s].jump_to].offset
           <=> Reaches(s))

\* Compiling ends: the walks over the list do.
CompilationEnds == <>(phase \in {"done", "exit"})

=============================================================================
