# A verification project for ojit

ojit is a small just-in-time compiler for x64, written in C: it reads a file of
functions, parses each straight into an intermediate representation (IR),
optimizes it, generates machine code the first time a function is called, and
calls back into itself when that code needs another function compiled.  This
directory holds TLA+ models of its core, the TLC runs that check them, and
proofs checked by TLAPS.

The program is sequential.  What is hard about it is not the interleaving of
threads but long sequences of legal calls on linked structures, state that is
read after somebody changed it (values of another block, counts, constants, jump
offsets), three directions of walking the same lists, and limits: arenas, slots,
registers, jump ranges.  The properties are aimed at those; PROJECT.json
(`hazards`) lists them with the line at which each bites.

## 1. Inventory

| component | source | state it keeps | operations |
|---|---|---|---|
| memory arenas | `ojit_mem.c` | contexts; arenas with `curr_ptr` and the links `next_arena`, `prev_arena` | `create_mem_ctx`, `ojit_alloc`, `destroy_mem_ctx` |
| LAList | `ojit_mem.c` | blocks of bytes with `len`, an item size; iterators | `lalist_new`, `lalist_grow`, `lalist_grow_add`, `lalist_init_iter`, `lalist_iter_next`, `lalist_iter_prev` |
| hash table | `hash_table.c` | blocks of entries, the thread `last_entry`/`prev`, `len` | insert, set, get, get_ptr, has, remove |
| string table | `ojit_string.c` | blocks of string records, `null_string` | `string_table_add`, `read_file` |
| lexer | `parser.c` 1-385 | position in the text, current token | `lexer_next`, the keyword trie |
| parser | `parser.c` | the lexer, the builder, `lvalue_state` | one function per grammar rule |
| IR and builders | `asm_ir.*`, `asm_ir_builders.*` | functions, blocks, instructions, variables, reference counts | `builder_*`, `merge_blocks` |
| peephole optimizer | `ir_opt.c` | none of its own | `ojit_peephole_optimizer` and its folds |
| parameter optimizer | `ir_opt.c` | none of its own | `ojit_optimize_params` |
| type inference | `ir_opt.c` | types of instructions | `ojit_assign_types` |
| code generation | `compiler/emit_instr.h`, `registers.h` | locations of values, used registers, `curr_num_vars` | one emitter per instruction |
| branches and register moves | `compiler/emit_terminator.h`, `emit_x64.h` | `entry_loc`, `swap_from`, `swap_to`, `target_locs` | `emit_return`, `emit_branch`, `emit_cbranch`, `resolve_branch`, `map_registers` |
| code layout | `compiler/compiler.c`, `compiler_records.h` | the list of segments, the writer | `create_segment_*`, `asm_emit_byte`, `ojit_compile_function`, `stitch_segments` |
| x64 encoders | `compiler/emit_x64.h` | none | one per instruction form |
| JIT interface | `jit_interpreter.c` | the function table, compiled code per function | `jit_add_file`, the callbacks, `jit_get_compiled_function`, `jit_dump_function` |
| error buffer, value tags | `ojit_def.c`, `obj.h` | the message being built | `ojit_new_error`, `ojit_build_error_*`, `ojit_error`, `ojit_exit`, tag macros |

How they interact.  All of them take memory from contexts and never free it
singly; strings, IR, parser and each compilation have contexts of their own, so
pointers cross contexts and the order of destruction matters.  The string table
makes a name a pointer, and the variables of a block and the function table are
hash tables on those pointers.  The parser drives the builders, whose
`merge_blocks` walks the hash table's thread (newest first) to make parameters
and to count arguments.  The optimizers change the IR in place and rely on the
builders' reference counts, and so does the code generator: a value with count
zero gets no register and no argument.  The code generator walks the blocks
forwards and the instructions of each backwards, and emits into the segment
list backwards; the first branch to a block it meets decides where that block's
parameters arrive, and later branches and the block itself follow.
`stitch_segments` lays the list out.  Generated code calls back for functions
by name, which starts the next compilation if there is no code yet.

What is correct, per component: allocations never overlap and outlive foreign
destructions (arenas); a walk meets each item once, in either direction, while
the list grows (LAList); the table is a map with an order, and its entries do
not move (hash table); one `String` per content (string table); every edge
passes every parameter, values stay in their block, counts cover uses, the
block list is complete and in an order the generator can use (parser and IR);
folding and parameter removal keep the values and the counts (optimizers);
types are never too narrow (type inference); the code of a block computes the
block (code generation); arguments arrive (branches); bytes have the effect that
the code generator counts on (encoders); code is contiguous, in order, and jumps land
(layout); a call runs the first definition of its name and returns to its caller
with what the caller still needs (JIT).

## 2. The modules

Every model has one action per operation of the code, with inputs from small
sets.  PROJECT.json (`map`) gives the source lines of each definition.  An
operator under a comment "Mutant:" is not part of the model: it is the form a
plausible bug would give the definition behind it, kept to show that the
properties notice.

**OrderedMap, HashTable, MCHashTable, HashTableProofs** (`hash_table.c`).
OrderedMap is what callers may assume: a finite map and the order in which its
keys arrived.  HashTable is the code: a sequence of blocks of slots, the probe
along one slot through the blocks, the block appended by every writing
operation whose probe runs off the end (also by `hash_table_set`, which then
finds the key missing), and the thread.  `inserted` and `ret` are history: the
positions in the order they were filled, and the answer of the last call.  The
refinement mapping reads the map through the probe and the order off the thread.

**MemArena, MCMemArena, MemArenaProofs** (`ojit_mem.c` 8-67).  `heap` is what
malloc has handed out; it may hand out any free address, so addresses are
reused after a destruction.  The loop of `destroy_mem_ctx` has an action per
iteration.  `granted` is the history of what callers were given.

**LAList** (`ojit_mem.c` 69-142).  The blocks, in bytes, and one iterator in each
direction, which interleave with `lalist_grow_add`.

**StringTable, Lexer, MCLexer, LexerProofs** (`ojit_string.c`, `parser.c` 56-351).
StringTable is interning; its hash is a parameter, so that hashes and slots
collide.  Lexer extends it: a text is read into a buffer with one byte behind it
that is whatever memory holds, the keywords are interned, and tokens are peeked
and taken.  The trie is the array of nodes that `construct_trie` makes, token by
token, and the type of a token is looked up by the index of a node, as in the code.

**IRBuilder, FunctionParser, FunctionProofs** (`asm_ir_builders.c`, `asm_ir.h`, `parser.c`).
IRBuilder has the builders as operators from an IR to an IR; FunctionParser is
the recursive descent as a stack of open statements (`frames`) and of operands
(`vals`), with one action for each point where the parser meets another piece of
the source.  Tokens are whatever the grammar allows next.  Variables of a block
are sequences in arrival order: the abstraction HashTable is proved to
implement.

**TypeInference, OptimizeParams, MCFunctions, FunctionProofs** (`ir_opt.c` 157-298).  They extend
FunctionParser in the order of `ojit_optimize_func`: a function is parsed, then
`ojit_assign_types` takes its blocks from the first to the last, one action per
block with the joins over its edges, then `ojit_optimize_params` from the last to
the first.  `passed` and `returned` are history.

**Peephole, MCPeephole, PeepholeProofs** (`ir_opt.c` 81-155).  A block is built from a parameter,
constants and additions, some of its values get other users, then the loop runs,
one action per iteration of it.  TypeInference takes the functions in which none of
its three patterns fits (`HasFold`): two numbers are added, or a number and a sum
that is used once and has a number in it.  Additions like `x + 1` stay.  So the
two meet in the IR only, and what a fold leaves is not followed into the passes.

**RegisterMoves** (`map_registers` in `emit_x64.h`).  The parallel move as a
function from rows to operations, used by both of the next two.

**BranchMoves, BranchMovesProofs** (`emit_terminator.h`, `registers.h`).  From any state the earlier
blocks can leave (places of the block's own parameters, places the target already
chose), it resolves the branch, makes the moves, and then runs them on an
abstract machine in which each location holds a value.  `Placed` is what
`vloc_list_contains` looks at, the first `num_params` entries of target_locs; for the
false target there may be more, and the history variable `unseen` notes the
parameters whose place is only among those.

**Machine** (`obj.h`, and what the emitters of `emit_x64.h` do on a `VLoc`).  Words
with a tag, registers and slots, and one operation for each function the code
generator calls.  A word is scaled down: `Ints` integers, `Carries` values of the
bits between number and tag, `Tags`.  Functions of the runtime and functions
called return a value that depends on their arguments and leave junk in the
registers a callee need not keep.

**BlockCode, MCBlockCode** (`emit_instr.h`, `registers.h`, `compiler.c` 295-331).
The code of one block, generated as the code does it: the terminator first, then
the instructions from the last to the first (one action per instruction and
emitter), then the moves from `entry_loc`.  When it is done, it is run on
every input and compared with what the block means.

**X64** (`emit_x64.h`).  One operation of Machine at a time is encoded into bytes
by the encoder functions, and a processor decodes and executes the bytes.  That
this ends in the state Machine gives is what lets BlockCode speak of operations.
Three forms are taken as the code makes them and not as a program would want
them: `Imm64` of Machine extends the sign of one-byte constants, its `CmpFlags` compares
a constant on the left as if it was on the right, and `Where` of X64 wraps the offsets
of slots from 16 on.  X64 shows that the bytes do just this.  That the first two are
wrong shows in BlockComputes, which leaves them out by name; its blocks have
fewer slots than 16.

**Segments, SegmentsProofs** (`compiler.c`, `compiler_records.h`, `asm_emit_*`).  The list of
segments from `ojit_compile_function` to `stitch_segments`.  Instructions are the
number of bytes they emit.

**Calls, Jit, MCJit** (`jit_interpreter.c`, the prologue, `emit_return`,
`emit_call`, `emit_global` and the error exit).  Calls is what calling promises:
a table from names to first definitions and a stack of activations, each with
its own values.  Jit is one stack of words with RSP and RBP, the registers, and
code that is made on demand; a body is a sequence of instructions with the
places live before each, as BlockCode would have them.  One action is what runs
up to the next call or return: there is one thread.  The refinement mapping
`Activations` finds the activations by walking the chain of saved RBPs from the
newest frame, and reads the values a caller still needs from where it pushed
them.

Composition: OptimizeParams over TypeInference over FunctionParser over IRBuilder;
Lexer over StringTable; BlockCode and X64 over Machine over RegisterMoves, which
BranchMoves uses too; HashTable under OrderedMap; Jit under Calls.  The others
meet at the interfaces named above: FunctionParser's `vars` are an OrderedMap,
BranchMoves starts from IR that EdgesPassEveryParameter describes, BlockCode from
blocks as ValuesAreLocal and types as IntsAreInts describe them, and Jit from
bodies with places as RegistersHeldOnce describes them.

All of it is the build with `OJIT_OPTIMIZATIONS`, as `CMakeLists.txt` has it, and
the calling convention of Windows, the only system the code runs on.

## 3. The runs

| run | instance | what it shows |
|---|---|---|
| hash_table | 4 keys, 2 slots, 2 values | the table implements OrderedMap; one entry per key; the thread is exact; entries never move |
| mem_arena | 2 contexts, 3 arenas of 4 bytes, requests of 1, 2, 4, 5 | no overlap, no early free, destroy stays inside its context |
| la_list | blocks of 11 bytes, items of 2, 3, 4 or 8 bytes, at most 6 items | both walks are exact while the list grows |
| lexer | all texts of 4 characters of 7 kinds, 5 of operators, each keyword with up to 2 characters behind it; 3 bytes behind the buffer | the tokens are the text, longest first; one String per content |
| functions | five families of functions, below | control flow, parameters, values, types and counts, through the parser and both passes |
| peephole | 2-bit numbers, 2 constants whose sum wraps, 3 additions, 2 other users | folding is right except through shared constants, and ends |
| branch_moves | 4 variables, 2 registers, 1 earlier slot | when two places are the same; which arguments arrive, exactly |
| block_code | four shapes of blocks, below | registers have one owner; the code computes the block |
| x64 | all registers, slots 0, 1, 15, 16, 31, 32, constants around 127, 255 and the size of an integer | bytes decode, and do what Machine says of the operation |
| segments | 2 blocks, pieces of 1, 125 and 500 bytes, code arrays of 512, arenas of 1024 | the list, the order of emission, offsets, jumps |
| jit | 2 files, 4 names, 5 definitions, 2 values, a stack of about 32 words | calls are implemented, come back, and leave the host's frame |
| jit_frames | the same | RBP is not kept (a violation, see section 6) |

Why the bounds are enough.

- hash_table: three keys in one slot make chains of three blocks, so an entry
  has others before and behind it; the fourth is alone, so blocks have free
  entries; `hash_table_set` of a missing key leaves an empty block at the end.
  The number of keys bounds the table, so no other bound is needed.
- mem_arena: three arenas for two contexts are as few as let one context have two
  and the other run out or take over a freed one.  The sizes include the one
  that fills an arena (and so goes to a new one) and one that is refused.
- la_list: 11 is a multiple of no item size, as 500 is of none of 8, 40 and 120
  (the assumption `ListAssumption`: otherwise the forward walk would skip the
  last item of each block).  Blocks hold one to five items, so walks cross
  several ends.
- lexer: the longest operator has two characters, so four meet every boundary
  between words, numbers, spaces, operators and bytes that begin no token; the
  keywords share beginnings with names.  The byte behind the buffer may end a
  token, go on with a word, or go on with an operator.
- functions: *Control* nests four statements over one variable: an if in a while in
  an if, with returns at each place.  *Expressions* has two operands pending and
  three instructions, enough for the addition of the results of two calls and an
  assignment whose right side assigns.  *Passing* has two variables and three
  statements: chains of three blocks, loops, and two-way branches that pass one
  value twice.  *Assigning* gives a variable integers and other values in loops
  and branches, where types meet.  *Counting* adds to a variable in loops and
  branches, as `x = x + 1` in a while does; a comparison would be treated like a
  sum by both passes.
- peephole: a fold needs two additions, and a third makes a fold change what
  another sees, before or behind it.  Two bits are the smallest width in which
  sums wrap but distinct numbers remain.
- branch_moves: with three variables, chains and cycles of length three, sharing,
  and more values than registers occur.  Only with a fourth do two parameters get one
  place, behind an overrun; and chains and cycles of four, and two swaps, tell
  whether `Untangled` is exact beyond three.  Two registers and four values bring two
  of them into slots beside the earlier one.
- block_code: *Ends* has one instruction of any kind and every terminator with its
  arguments, and disabled parameters; *Chains* two instructions with two
  registers, so that slots are used; *Constants* both operands constant and
  constants behind 127; *Calls* calls, globals and attributes in sequence, with
  arguments that come behind their call, in four registers, so that one lies
  across a call that does not save it.
  Integers are 0..4095, so that 200 is one byte with its high bit set and
  3000 has its sign set, and 16 carries keep a sum apart from its tag.
- x64: offsets of slots 15 and 16 lie on both sides of a signed byte, 31 and 32 on
  both sides of a byte; constants on both sides of each form's limit.
- segments: a block of two pieces overflows a code array (500 + 125 > 512) and
  three overflow an arena; 125 lies inside the reach of a short jump, two pieces
  of 125 lie in the gap in which a short jump is chosen and does not reach.
- jit: one function calls itself twice per activation and checks what it gets, one
  keeps two registers around a call of a name that only the second file defines,
  one keeps a slot, and one name is defined in both files.  `MaxStack` is where
  recursion has to turn back: five activations deep, with saved registers in
  each.

Deadlock is checked for the hash table and the list, which can always be called
again.  The other models stop where the program does: when a function is compiled or its
code has run, when the text is read, when every context is destroyed and nothing is
left to allocate from, when `ojit_exit` was called, when a pointer that was never set is
followed, when a bound on the source is reached.

Fairness is used three times.  The compiler is one sequential computation that
nothing outside it suspends, so once started its next step happens.  Segments has
weak fairness on the terminator, the next block, the prologue and the three walks,
and none on the emission of instructions, which is optional; `CompilationEnds`
then says that the walks end, i.e. that the list never has a cycle.  Peephole
has weak fairness on the fold loop only; `FoldingEnds` says that no pattern
leaves itself standing.  Jit has weak fairness on `Execute`, the instructions of
generated code, and none on what the host does: the processor goes on, the host
need not call.  `CallsReturn` says that a call of the host comes back; that
recursion turns back is the bound `MaxStack`, everything else (frames, saved
registers, return addresses under a failed check) is the code.

### Properties with named exceptions

Some properties hold only up to a case in which the code is wrong.  The case is
then a named part of the property, as narrow as TLC lets it be, and each was
checked to be reachable (the property fails without it):

- `UsedValuesStay` (Peephole): `fold_commutative_add` overwrites the outer
  constant, so whoever else uses that constant sees the sum.
- `ArgumentsArrive` (BranchMoves): arguments arrive exactly if the moves are
  `Untangled`.  A move writes to where a later one reads, which then is made by an
  exchange; what was there goes on to the end of the chain of such moves.  It is
  wrong when two later moves read what is overwritten, and when a move between reads
  the place at the end of the chain.  So swaps arrive, and so does a cycle of three in
  which each move overwrites what the next reads (A to B, B to C, C to A), but not
  one in the other direction (A to C, B to A, C to B).  For the true target of two, `Undisturbed` is
  asked for as well: the moves for the false target run first on both paths and may
  overwrite what it reads (that both are needed is not claimed there).  `Separate`
  leaves out `spoiled`, writes behind `target_locs`; two parameters with one place
  (below); and two values in one slot, as slots that parameters arrive in are
  not reserved.
- `PlacesAreDistinct` (BranchMoves): two parameters of the false target may be given one
  place if that of one was written behind `target_locs`, where the search for a free
  place does not look.  It takes four parameters.
- `OnlySecondTargetOverruns` says that `target_locs` is overrun for the second
  target of a two-way branch only.
- `JumpsLandWithinReach` (Segments): a jump lands exactly when its form reaches,
  and the short form is chosen from -255 to 254 while a signed byte reaches
  from -128 to 127.
- `OnlyDeadCodeDropsParameters` (FunctionParser): a parameter is taken back after
  uses of it were emitted only behind dead code.
- `IntsAreInts` (TypeInference): up to values that were passed to a parameter while
  their type was unknown, the case of the TODO in `ir_opt.c` 168.
- `BlockComputes` (BlockCode): nine parts of `CodeIsRight`, each with a comment;
  section 6 says what they stand for.
- `HostFrameKept` (Jit): RBP, when the function has a slot.

The last contradicts a comment of the repository and is a finding (section 6).  No
comment, doc or test states otherwise about the others, so they are listed here.

## 4. The proofs

All proofs are for every value of the constants that satisfies the assumption in
the module: any number of slots, keys and hashes, of arenas, sizes and contexts,
of blocks and sizes of emitted pieces, of instructions and the width of their
integers, of registers and variables, any text and any byte behind it, functions
with any names, statements nested as deep as one likes.  What the assumptions
ask is no more than the types of the code:

- `TableAssumption` (HashTable, StringTable) and `ArenaAssumption`: there is a slot;
  an arena has a size; `null_string` is in no block.
- `SegmentsAssumption`: the pieces emitted at once (prologue, return, error exit,
  type check, `Sizes`) fit a code array; in the code each has some dozens of bytes
  and the array 512.
- `PeepholeAssumption`: constants are integers of the width.
- `SourcesAssumption` (FunctionParser): a text is the record of its names and of how
  much of what it has, those are numbers, and no name is NULL (`null_string` is not
  the name of a variable).
- `LexerAssumption`: a text is a sequence of characters, the byte behind it is one.
- The theorems of LexerProofs have the hypothesis `HashesAreNumbers`: `hash_bytes`
  returns a number for every content (it is a hypothesis and not an assumption
  because TLC cannot enumerate all contents).

**HashTableProofs.**  The inductive invariant `IInv` is TypeOK, NoHole,
OneEntryPerKey and ThreadVisitsEveryEntry.  NoHole (the occupied entries of a
slot are those of its first blocks) is why the probe may stop at a free entry,
and OneEntryPerKey alone is not inductive without it: an entry behind a hole
would be inserted again.  `ProbeStops` and `FoundIffEntry` turn the CHOOSE in
Probe into "k has an entry"; `GrownShape`, `WriteShape` and `FillShape` say what
the three ways of writing leave alone; from them follow `FillIInv` and
`SetIInv`, one lemma per operation that writes, and `NextIInv`.

- `Inductive`, `TypeCorrect`, `UniqueEntries`, `ThreadComplete`: the invariants.
- `PointersStay`: the action property EntriesStay.
- `Refinement`: HashTable implements OrderedMap.  `LookupAfter` says what a write
  does to the map read through the probe; `FillRefines`, `SetRefines` and
  `AnswerRefines` map each operation to OrderedMap's.

**MemArenaProofs.**  The inductive invariant adds to TypeOK, GrantsDisjoint and
GrantsBacked three facts: `CurrOwned` (the current arena of a live context is
allocated and its own), `GrantsBelowCurr` (what was granted in an arena lies
below its `curr_ptr`), and `WalkAtNewest` (the loop of `destroy_mem_ctx` starts
at the newest arena, which has no `next_arena`, and so ends after one step).
Without `GrantsBelowCurr` disjointness is not inductive; without `CurrOwned`
nothing says that a context does not write to another's arena.

- `TypeCorrect`, `AllocationsDisjoint`, `AllocationsBacked`, `DestroyIsSafe`: the
  four invariants of the run.

**Induction.**  The library's induction theorems take a predicate as parameter,
which the provers cannot instantiate.  Instantiated once, with membership in a
set, they become first-order: `LeastNumber`, `NumbersByInduction`,
`IntervalByInduction` and `StrongInduction` take the set of the numbers for which
something holds.  `CausalFixpoint` and `Iterates` show that a recursive function
whose values depend on earlier ones satisfies its equation.  With them the proofs below reach what the recursive functions
of the models compute: `Reached` of Segments, `Values` and `Reads` of Peephole, the
trie of the lexer, the blocks that the walks of BlockOrder meet.

**SegmentsProofs.**  `next` and `prev` alone say nothing inductive about reaching
every segment, so the invariant has an order: `Good` says that the list is typed,
linked in both directions, and that some permutation p of the segments
(`IsOrder`) starts at the first label and follows `next`.  `Splice` puts a new
element into a permutation; from it follows `InsertGood`, and everything that is
emitted is a sequence of insertions.  `EmitShape` adds where the writer is: right
behind the label of the block, whose later siblings still follow each other
(`Labelled`), and where the next error exit goes (`ErrsAt`).  For the walks of
`stitch_segments`, `Placed` and `Shrunk` say, for the kth segment of the order,
what lies before it and behind it: a jump that the second walk measured while
its target had not been moved is right because everything between has moved by
the same number of bytes since.

- `LayoutInvariant`: the invariant above.
- `ListOrdered`, `CodeGoesInFront`, `CodeLeavesNoGap`, `JumpsLand`: the four
  invariants of the run.

**PeepholeProofs.**  A fold leaves behind instructions that nothing reads and whose
counts are wrong, so counts cannot be compared with the uses by all instructions.
`Live` says that there is a set of instructions, closed under operands and with
everything not yet visited in it, such that the counts cover the uses from
inside the set; a fold takes what it replaces out of the set (`LiveFolded` and
`LiveFoldedInt` say what that does to the cardinalities).  `SourceCovers` says that
an instruction reads no more than it did in the source, so that a constant
overwritten later is an exception that the source shows already.  That values
stay is an induction over the block for each fold.

- `FoldingInvariant`; `FoldingKeepsValues`, `CountsAreRight`, `OnePassIsEnough`: the
  three invariants of the run.

**BranchMovesProofs.**  What makes the places of a target distinct is when they are
chosen: `OpenEntries` says that the target either has all its places already, or
each that is set was put into `target_locs` since the target is resolved, so that
the lookup there excludes it, or is noted in `unseen` as written behind.  `PlacingBehind`
says that the second happens for a second target only.  `FirstTarget` counts: a first target puts at most
one place there for each parameter that it has handled (`Handled`), since its
first pass meets only locations that parameters of the block have.

- `ResolvingInvariant`; `ParametersArriveApart`, `FirstTargetFits`: two of the
  invariants of the run.

**LexerProofs.**  The table's invariant (`TableInv`) is like NoHole: each record in
use is the one the search for its text finds (`Known`), each content that was
added is found (`Found`), and all blocks before it have a record in that slot.
`AddInterns` says that an addition keeps this and never changes an earlier
address.  `TrieIsTheTokens` proves that construct_trie makes exactly one node per
token, with the token's index, since each prefix of a token stands before it in
BASIC_TOKENS; the lexer indexes BASIC_TOKEN_INDICIES with the node's.  `GoodText`
is what one token promises relative to where the one before it ends, and
`LeafIsGood`, `WordIsGood`, `NumberIsGood`, `EndIsGood` say that each way of making
a token keeps it; that nothing longer is a token rests on each prefix of an
operator being one.  `NamesGetTheirType` is the lookup of keywords by address: it
needs that addresses differ, so the two halves of the invariant go together.

- `LexingInvariant`; `StringsAreUnique`, `TokensFollowTheText`: the two invariants of
  the run.

**FunctionProofs.**  The parser, for functions of any length, and both passes over
those it built in which nothing folds.  None of the six invariants below is inductive.  That
an edge passes every parameter of its target is true only because no parameter
is made after the target was entered, or branched to from where variables are not
yet known; so the invariant has to say, for every block, how far it has come, and
for every open statement, which blocks it will still enter.  It has these parts:

- `Sound` is about the blocks: values are local and come before their use
  (`LocalBlock`), `num_params` counts the parameters that are enabled, a
  terminator has the operands and targets of its kind, every edge passes every
  parameter (`EdgeSound`), the blocks that are waited for have nothing but
  parameters (`Waiting`), and all others but the current one have a terminator.
- `Ranked` gives the list of blocks an order r, of which `prev` and `next` are the
  neighbours.  A block with parameters has an edge from a block further ahead: it
  is what `merge_blocks` needs at the end of a loop, and what the parameter
  optimizer, which goes backwards, rests on.
- `Stacked` relates the stack of statements to the list: what an open statement
  waits for lies behind the current block, that of inner statements first, so that
  the next block to be entered is the next one in the list.
- `LoopsBack`: the condition of an open loop has been branched to, has all its
  parameters, and ends in CBRANCH, which the body still has to branch back to.
- `Unique`: no two parameters of a block that are enabled have one name.  From it
  follows that an edge passes one value per parameter.
- `Covered`: `refs` of every value is at least the number of its uses as operand,
  as returned value and as argument.  Inside a builder it is true but for the
  targets for which `merge_blocks` has not been called yet, so it has these as a
  parameter.

A function that ended the program (`exit`, `crash`) keeps `Sound`, `Ranked` and
`Covered`, as it has stopped between two steps of a builder.  `PassInv` says where
the passes are.  `CountInv` is what becomes of `Covered` in the second one: that
pass, going back through the list, takes the arguments of unused parameters out of
the counts, but a parameter may only become unused after a branch to it was looked
at (around a loop).  So it says which blocks have been left behind (`Gone`, by their
position in r), and that there `refs` still covers the arguments for parameters
that are in use now (`ServedBlock`).  That the pass takes away exactly as many
counts as there are arguments it no longer counts is `ReleaseServes`.

`TypesInv` is about the types.  `ojit_assign_types` looks at every edge once, in the
order of the list, and a parameter takes its type from the first edge that has one
to give; so while the pass runs, the type of a parameter may come from one edge while
others have not been looked at.  `TypedSoFar` says what is true then.  In a visited
block, which is one in front of `at` in the order r, an integer has a reason
(`Founded`: a constant or an arithmetic result, the assignment of an integer, a
parameter in use, or it was noted in `passed`); in the others only parameters in use
have a type yet.  On every edge that leaves a visited block each argument for a
parameter in use is an integer or was noted in `passed` (`ArgumentsGood`).  What one
join, the joins of an edge and those of a block add is `JoinLearns`, `JoinAllLearns`
and `JoinTargetsLearns`: no value loses its type, and only parameters of the targets
and values passed on get one.  When every block has been visited `ArgumentsGood` holds
of every edge, and `Closed` keeps what follows from it whatever the next pass
does to the counts.  So the integers and the values passed on form a set each member
of which follows from the others, and it lies in the largest such set
(`IntValuesHold`).  The pass is written with recursive functions; that these
satisfy their equations is `CausalFixpoint` and `Iterates` of Induction.

- `OptInvariant`: the invariant, through the parser and both passes.
- `OptValuesAreLocal`, `OptEdgesPassEveryParameter`, `OptOnlyOpenBlocksLackTerminator`,
  `OptBlockOrder`, `OptUsesAreCounted`, `OptIntsAreInts`: six of the invariants of
  the run.

**Only model-checked.**  ArgumentsArrive of BranchMoves (what `map_registers` does
to a whole matrix: up to four rows, and which of them arrive); ForwardChainsAreReleased and
OnlyDeadCodeDropsParameters of the functions (they speak of the history of the
passes and of what can be reached); LAList, BlockCode, X64 and Jit with its refinement.
Liveness (`CompilationEnds`, `FoldingEnds`, `CallsReturn`) is out of the prover's
reach and stays with TLC, and so does what is computed by evaluating (`Run` and
`Meaning` of Machine and BlockCode, the decoder of X64): there the proof would be a
case analysis over all encodings.

## 5. What is not modelled, and why

- `copy_to_executable`, `dump_function`, the error buffer, `main`: wrappers of the
  system, and output.
- `hash_table_remove`, `optimize_add_ir`, FOREACH_REV, `lalist_can_add`,
  `jit_ir_callback`, the encoders of `and`, `sar`, `setcc`, `mov_ir64_r64`, the
  helpers `load_loc_into` and `prestore_loc`, `registers.c` (commented out as a
  whole): nothing that runs calls them.
- Line and column numbers in the lexer, and texts of error messages.
- Texts with bytes of 128 or more: the lexer's characters have seven bits.
- The passes over a function in which the peephole optimizer folds something, and what
  it does to such a function as a whole: Peephole is about one block.
- The value of a number token and its overflow: FunctionParser's constants are
  opaque, BlockCode's are any of a set.
- Memory behind attributes: GETLOC and SETLOC do not access it in the code either.
- The parts of one compilation are checked apart, each from every state the part
  before can leave in its small instance, and not as one run from a text to a
  value: the product of their instances is out of TLC's reach.

## 6. Observed while modelling

One finding contradicts a statement of the repository.  `compiler_records.h` 82 says
that the callee has to leave RBP as it was; slot k is addressed as
[RBP + 8k] (`emit_x64.h` 420), so slot 0 is the word in which the prologue saved the
caller's RBP and slot 1 the return address, and a function that runs out of registers
returns with RBP changed.  `jit_frames` shows it.  The room that the prologue makes
below RBP is never used.

The rest a maintainer may want to know.  The repository states the contrary of one
of them: `main.c` 32 reports "Function returned Error: " when the value is one of those
that `obj.h` 17-18 describes, which generated code never returns (under JIT below).
That is about the whole program, from a text to what main prints, which no run covers.

Instructions (`BlockComputes`, by the part of `CodeIsRight`):

- Constants from 128 to 255 are added, subtracted and compared as negative numbers:
  they are given one byte, whose sign is extended (`ConstsKeepTheirSign`); so
  is n * 8 for 16 slots or more in the prologue.
- SUB of two variables subtracts their tags too, and with the operands in some
  places subtracts the wrong one; a constant on the left of SUB or of a comparison
  is treated as if it stood on the right; constants are compared as signed
  numbers, variables as whole words and unchecked (`SubtractsSmallConsts`,
  `ComparesPlainly`).
- Slots begin at zero in each block and may be those of parameters, and some sums
  that are built in a slot lose an operand (`SlotsAreSeparate`).
- Arguments are moved to RCX, RDX, R8 one after the other, over values that are
  still needed, and arguments that are computed behind the call (an argument with
  instructions of its own) have not been computed yet (`ArgumentsAreInPlace`).
- R8 to R11 are not saved around calls (`OnlySavedAcrossCalls`), and R12 and R13,
  which `compiler_records.h` 82-84 lists as the caller's, are temporaries.
- GETATTR counts its object among the registers to save, and writes the name over
  an object in RDX (`ObjectsAreAside`).
- A parameter that is only called counts as unused and is not moved in; with a
  disabled one, the rows of others are left out (`AllRowsAreMade`).
- A value returned from a slot is read after RBP is the caller's
  (`ReturnedInRegister`).
- A call whose result is not used is not made.
- GETLOC and SETLOC move the location itself; memory is neither read nor written.
- A branch on a value that is no comparison tests the whole word, which is never
  zero for an integer with its tag.

Branches (`ArgumentsArrive`, `PlacesAreDistinct`):

- `map_registers` mixes up a cycle of three if it runs against the order of the
  parameters, loses a value that is read twice behind a move that
  overwrites it, and mixes up chains that end where a move between reads.
- The moves for the false target run on the way to the true one as well.
- For the false target `target_locs` is written past its end (both loops take an
  argument that is no parameter and has a place), and with four parameters two of
  them then arrive at one place.

Types, IR and parser:

- The type of a parameter around a loop is guessed from the first edge: in
  `while (x < 3) { x = x + 1 }` a parameter x becomes an integer unchecked (it is in
  `passed`, the exception of IntsAreInts).
- A used parameter that a later branch took back is looked up by its NULL name in
  `ojit_assign_types`; so is a `let` directly in a branch of an if in the parser.
- A return in braces or in a loop body is overwritten by the branch that the
  enclosing statement adds.
- The callee of a call is not counted as a use, so a value counted zero times may
  be one that is called.
- Counts are too high, never too low, for returns that were overwritten,
  parameters that were taken back, and branches backwards.
- A function with more than 1024 bytes of code, with more than four parameters, or
  with a block without terminator ends the program; so do a comparison kept as a
  value and a call with more than three arguments.
- The lexer looks for the end of the file only before a token: a token at the end
  goes on with what is behind the buffer, which has no NUL.
- A byte of 128 or more indexes outside `children_index`, which has 128 elements
  (`parser.c` 268).

JIT and memory:

- `jit_get_function` and the callback with an unknown name follow a pointer that
  was never set.
- After a failed check the function returns what `ojit_jit_error` left in RCX, so
  that the error values of `obj.h` 17-18 never reach `main`, which looks for them.
- The length of a dump is not set for a function that has code already.
- `destroy_mem_ctx` begins at the newest arena and goes to `next_arena`: only
  the newest is freed.  It is safe (proved), and it leaks.
- `hash_table_remove`, which nothing calls, skips a block and does not take the
  entry out of the thread.
- A list whose item size divides the size of its blocks would lose items in a
  forward walk; none does.

## 7. Plan

Done, in this order: the containers everything rests on (HashTable, MemArena,
LAList, StringTable), the IR and its parser, the layout, the two optimizers, the
branches; the proofs of HashTable and MemArena; then the lexer, type inference, the
code of a block on tagged words, the encoders, and calls with their refinement;
then the proofs of the layout, the peephole optimizer, the resolution of branches,
and the lexer with the string table; then those of the parser and the IR.

Next are proofs, most important first:

1. LAList: BackwardReverses.
2. Jit: that function_records and compiled follow Calls (`known` never changes the
   definition of a name, code is made for known definitions only).

To check: `tlc -config X.cfg M` for the runs in PROJECT.json, `tlapm M.tla` for the
proof modules.
