---------------------------- MODULE FunctionProofs ----------------------------
(***************************************************************************)
(* The IR that the parser builds and what the two passes of ir_opt.c do to *)
(* it: any names, any number of statements however they nest, any number   *)
(* of instructions.  The passes take the functions that have nothing that  *)
(* the peephole optimizer folds (HasFold).                                 *)
(***************************************************************************)
EXTENDS OptimizeParams, Induction, TLAPS, SequenceTheorems, FiniteSetTheorems

AllNames == UNION {t.names : t \in Sources}
Ids == {"PARAM", "INT", "GLOBAL", "NEW_OBJECT", "ADD", "SUB", "CMP",
        "GET_ATTR", "GET_LOC", "CALL", "SET_LOC"}
Value == Nat \X Nat

InstrType == [id : Ids, name : AllNames \cup {Null}, ops : Seq(Value), refs : Int]
TermType ==
  [id : {"NONE", "RETURN", "BRANCH", "CBRANCH"}, ops : Seq(Value), targets : Seq(Nat)]
VarType == [name : AllNames, val : Value]
BlockType ==
  [instrs : Seq(InstrType), num_params : Int, term : TermType, has_vars : BOOLEAN,
   vars : Seq(VarType), prev : Nat, next : Nat]
IRType == [blocks : Seq(BlockType), current : Nat, last : Nat]

-----------------------------------------------------------------------------
(***************************************************************************)
(* What is true of every block, whatever the counts of its instructions.   *)
(***************************************************************************)
\* The values a block works with are its own, and known where they are used.
LocalBlock(b, block) ==
  /\ \A i \in 1 .. Len(block.instrs) : \A j \in 1 .. Len(block.instrs[i].ops) :
       Defined(b, block.instrs[i].ops[j],
               IF block.instrs[i].id = "CALL" /\ j > 1 THEN Len(block.instrs) ELSE i - 1)
  /\ \A i \in 1 .. Len(block.vars) : Defined(b, block.vars[i].val, Len(block.instrs))
  /\ \A i \in 1 .. Len(block.term.ops) : Defined(b, block.term.ops[i], Len(block.instrs))

\* A variable is declared once.
Declared(block) ==
  \A i, j \in 1 .. Len(block.vars) : block.vars[i].name = block.vars[j].name => i = j

TermShape(block) ==
  /\ block.term.id \in {"NONE", "RETURN"} => Len(block.term.targets) = 0
  /\ block.term.id = "RETURN" => Len(block.term.ops) = 1
  /\ block.term.id = "BRANCH" => Len(block.term.targets) = 1
  /\ block.term.id = "CBRANCH" => /\ Len(block.term.targets) = 2
                                  /\ block.term.targets[1] # block.term.targets[2]
                                  /\ block.next = block.term.targets[1]

Assignments(block) ==
  \A i \in 1 .. Len(block.instrs) :
    /\ block.instrs[i].id = "SET_LOC" => Len(block.instrs[i].ops) = 2
    /\ block.instrs[i].id = "CALL" => Len(block.instrs[i].ops) >= 1

BlockSound(b, block) ==
  /\ LocalBlock(b, block)
  /\ block.num_params = Cardinality(Enabled(block))
  /\ Declared(block)
  /\ TermShape(block)
  /\ Assignments(block)

\* An edge goes to another block, which has its parameters, and passes them all.
EdgeSound(blocks, p, t) ==
  /\ t \in 1 .. Len(blocks)
  /\ t # p
  /\ blocks[t].has_vars
  /\ \A i \in Enabled(blocks[t]) : blocks[t].instrs[i].name \in NamesIn(blocks[p].vars)

\* O are the targets of block c which merge_blocks has not been called for.
EdgesSound(blocks, c, O) ==
  \A p \in 1 .. Len(blocks) : \A k \in 1 .. Len(blocks[p].term.targets) :
    \/ EdgeSound(blocks, p, blocks[p].term.targets[k])
    \/ p = c /\ blocks[p].term.targets[k] \in O

\* A block that is still to be entered has parameters and nothing else.
Waiting(block) ==
  /\ block.term.id = "NONE"
  /\ Len(block.vars) = 0
  /\ \A i \in 1 .. Len(block.instrs) : block.instrs[i].id = "PARAM"
  /\ ~block.has_vars => Len(block.instrs) = 0

\* W are the blocks to be entered.
Sound(g, W, O) ==
  /\ g \in IRType
  /\ g.current \in 1 .. Len(g.blocks)
  /\ \A b \in 1 .. Len(g.blocks) : BlockSound(b, g.blocks[b])
  /\ EdgesSound(g.blocks, g.current, O)
  /\ W \subseteq 1 .. Len(g.blocks)
  /\ \A b \in W : Waiting(g.blocks[b])
  /\ g.current \notin W
  /\ \A b \in 1 .. Len(g.blocks) : g.blocks[b].term.id = "NONE" => b = g.current \/ b \in W

\* No two parameters have the same name.
Unique(block) ==
  \A i, j \in Enabled(block) : block.instrs[i].name = block.instrs[j].name => i = j
AllUnique(g) == \A b \in 1 .. Len(g.blocks) : Unique(g.blocks[b])

-----------------------------------------------------------------------------
(***************************************************************************)
(* The order of the blocks: r[b] is the position of b in the list.         *)
(***************************************************************************)
Positions(r, len) ==
  /\ r \in [1 .. len -> 1 .. len]
  /\ \A b, c \in 1 .. len : r[b] = r[c] => b = c
  /\ \A n \in 1 .. len : \E b \in 1 .. len : r[b] = n

\* The block in front of b and the one behind it.
Neighbours(blocks, r, b) ==
  /\ IF r[b] = Len(blocks) THEN blocks[b].next = 0
     ELSE blocks[b].next \in 1 .. Len(blocks) /\ r[blocks[b].next] = r[b] + 1
  /\ IF r[b] = 1 THEN blocks[b].prev = 0
     ELSE blocks[b].prev \in 1 .. Len(blocks) /\ r[blocks[b].prev] = r[b] - 1

BranchesTo(blocks, p, t) ==
  \E k \in 1 .. Len(blocks[p].term.targets) : blocks[p].term.targets[k] = t

\* A block that has its parameters is branched to from further ahead.
FromAhead(blocks, r, t) ==
  blocks[t].has_vars =>
    \E q \in 1 .. Len(blocks) : BranchesTo(blocks, q, t) /\ r[q] < r[t]

Ranked(g, r) ==
  /\ Positions(r, Len(g.blocks))
  /\ r[1] = 1
  /\ g.last \in 1 .. Len(g.blocks)
  /\ r[g.last] = Len(g.blocks)
  /\ \A b \in 1 .. Len(g.blocks) : Neighbours(g.blocks, r, b) /\ FromAhead(g.blocks, r, b)

-----------------------------------------------------------------------------
(***************************************************************************)
(* The counts: refs is at least the number of uses.                        *)
(***************************************************************************)
\* How often v is among the values.
Times(values, v) == Cardinality({j \in DOMAIN values : values[j] = v})
TargetsOf(term) == {term.targets[k] : k \in 1 .. Len(term.targets)}

OperandsIn(block, v) ==
  {u \in UNION {{i} \X DOMAIN block.instrs[i].ops : i \in DOMAIN block.instrs} :
     /\ block.instrs[u[1]].ops[u[2]] = v
     /\ ~(block.instrs[u[1]].id = "CALL" /\ u[2] = 1)}
ArgumentsIn(blocks, T, vs, v) ==
  {u \in UNION {{t} \X Enabled(blocks[t]) : t \in T} :
     /\ blocks[u[1]].instrs[u[2]].name \in NamesIn(vs)
     /\ ValueIn(vs, blocks[u[1]].instrs[u[2]].name) = v}

\* How often the code generator will meet the value i of block b, with the
\* arguments for the blocks T.
OwnUses(block, v) == Cardinality(OperandsIn(block, v)) + Times(block.term.ops, v)
UsesOf(blocks, T, b, i) ==
  OwnUses(blocks[b], <<b, i>>)
    + Cardinality(ArgumentsIn(blocks, T, blocks[b].vars, <<b, i>>))
CoveredBlock(blocks, T, b) ==
  \A i \in 1 .. Len(blocks[b].instrs) :
    blocks[b].instrs[i].refs >= UsesOf(blocks, T, b, i)

\* The targets for which merge_blocks has been called.
Settled(g, O, b) ==
  TargetsOf(g.blocks[b].term) \ (IF b = g.current THEN O ELSE {})
Covered(g, O) ==
  \A b \in 1 .. Len(g.blocks) : CoveredBlock(g.blocks, Settled(g, O, b), b)

-----------------------------------------------------------------------------
(***************************************************************************)
(* The state of the parser.                                                *)
(***************************************************************************)
FrameType ==
  [kind : {"func", "block"}] \cup [kind : {"then"}, else : Nat, after : Nat]
    \cup [kind : {"else"}, after : Nat] \cup [kind : {"while"}, cond : Nat, after : Nat]

LValueType ==
  [kind : {"none"}] \cup [kind : {"var"}, name : AllNames] \cup [kind : {"attr"}, loc : Value]
OperandType == [val : Value, lvalue : LValueType, open : BOOLEAN]

\* The blocks a statement will still enter.
Awaits(f) ==
  IF f.kind = "then" THEN {f.else, f.after}
  ELSE IF f.kind \in {"else", "while"} THEN {f.after} ELSE {}

\* They lie behind block c, those of inner statements first.
Lined(c, len, fs, r) ==
  /\ \A i \in 1 .. Len(fs) :
       /\ \A b \in Awaits(fs[i]) : b \in 1 .. len /\ r[c] < r[b]
       /\ \A j \in 1 .. i - 1 : \A b \in Awaits(fs[i]), d \in Awaits(fs[j]) : r[b] < r[d]
       /\ fs[i].kind = "then" => r[fs[i].else] < r[fs[i].after]
Stacked(g, fs, r) == Lined(g.current, Len(g.blocks), fs, r)

\* The condition of a loop, to which its body goes back.
LoopsBack(g, fs) ==
  \A i \in 1 .. Len(fs) :
    fs[i].kind = "while" => /\ fs[i].cond \in 1 .. Len(g.blocks)
                            /\ g.blocks[fs[i].cond].has_vars
                            /\ g.blocks[fs[i].cond].term.id = "CBRANCH"

\* An operand, and what an assignment to it would change.
OperandSound(g, v) ==
  /\ Defined(g.current, v.val, Len(Block(g).instrs))
  /\ v.lvalue.kind = "attr" => Defined(g.current, v.lvalue.loc, Len(Block(g).instrs))
  /\ v.open => Block(g).instrs[v.val[2]].id = "CALL"

OnlyParameters(g) ==
  /\ g.current = 1
  /\ \A i \in 1 .. Len(Block(g).instrs) :
       /\ Block(g).instrs[i].id = "PARAM" /\ Block(g).instrs[i].name # Null
       /\ Block(g).instrs[i].name \in NamesIn(Block(g).vars)

TextOf(t, n) ==
  [names |-> t.names, operations |-> t.operations, statements |-> n,
   instrs |-> t.instrs, vals |-> t.vals]

Statements(fs) == fs \in Seq(FrameType) /\ Len(fs) > 0 /\ fs[1].kind = "func"
Operands(g) == {v \in OperandType : OperandSound(g, v)}

Shape ==
  /\ Statements(frames)
  /\ mode \in {"params", "statement", "expression", "ended"}
  /\ mode # "expression" => vals = << >>
  /\ \E t \in Sources, n \in Int : text = TextOf(t, n)
  /\ status \in {"parsing", "done", "exit", "crash"}

\* The function while the statements fs are being parsed.
Laid(g, W, fs, r) ==
  /\ Sound(g, W, {})
  /\ AllUnique(g)
  /\ LoopsBack(g, fs)
  /\ Ranked(g, r)
  /\ Stacked(g, fs, r)
Placed(g, W, fs, r) == Laid(g, W, fs, r) /\ Covered(g, {})

WaitingIn(fs) == UNION {Awaits(fs[i]) : i \in 1 .. Len(fs)}
Open(g) == Len(Block(g).term.targets) = 0
Standing(g, fs, r) == Placed(g, WaitingIn(fs), fs, r) /\ Open(g)
\* The same when the counts are no longer those of the parser.
Resting(g, fs, r) == Laid(g, WaitingIn(fs), fs, r) /\ Open(g)

ParserInv ==
  /\ Shape
  /\ status = "parsing" => \E r : Standing(ir, frames, r)
  /\ status = "done" => \E r : Resting(ir, frames, r)
  /\ status = "exit" =>
       /\ \E r : Sound(ir, WaitingIn(frames), {}) /\ Ranked(ir, r)
       /\ Covered(ir, {})
  /\ status = "crash" =>
       /\ \E W, r : Sound(ir, W, {}) /\ AllUnique(ir) /\ Ranked(ir, r)
       /\ Covered(ir, {})
  /\ mode = "params" => OnlyParameters(ir)
  /\ mode = "expression" /\ want = "while" /\ status = "parsing" => Block(ir).has_vars
  /\ vals \in Seq(Operands(ir))

-----------------------------------------------------------------------------
(***************************************************************************)
(* Counting.                                                               *)
(***************************************************************************)
FieldsTyped(block) ==
  /\ block.instrs \in Seq(InstrType) /\ Len(block.instrs) \in Nat
  /\ block.num_params \in Int
  /\ block.term \in TermType /\ block.term.ops \in Seq(Value) /\ Len(block.term.ops) \in Nat
  /\ block.term.targets \in Seq(Nat) /\ Len(block.term.targets) \in Nat
  /\ block.has_vars \in BOOLEAN
  /\ block.vars \in Seq(VarType) /\ Len(block.vars) \in Nat
  /\ block.prev \in Nat /\ block.next \in Nat

LEMMA BlockFields ==
  ASSUME NEW block \in BlockType
  PROVE  FieldsTyped(block)
<1>1. /\ block.instrs \in Seq(InstrType) /\ block.num_params \in Int /\ block.term \in TermType
      /\ block.has_vars \in BOOLEAN /\ block.vars \in Seq(VarType)
      /\ block.prev \in Nat /\ block.next \in Nat
  BY DEF BlockType
<1>2. block.term.ops \in Seq(Value) /\ block.term.targets \in Seq(Nat)
  BY <1>1 DEF TermType
<1>. DEFINE is == block.instrs
            os == block.term.ops
            ts == block.term.targets
            vs == block.vars
<1>. HIDE DEF is, os, ts, vs
<1>3. /\ is \in Seq(InstrType) /\ os \in Seq(Value) /\ ts \in Seq(Nat) /\ vs \in Seq(VarType)
  BY <1>1, <1>2 DEF is, os, ts, vs
<1>4. Len(is) \in Nat /\ Len(os) \in Nat /\ Len(ts) \in Nat /\ Len(vs) \in Nat
  BY <1>3
<1>5. QED
  BY <1>1, <1>2, <1>4 DEF FieldsTyped, is, os, ts, vs

\* Values in a sequence, or in a part of one.
Family(values) == \E n \in Nat : DOMAIN values \subseteq 1 .. n

LEMMA TimesCounts ==
  ASSUME NEW values, Family(values), NEW v
  PROVE  Times(values, v) \in Nat
<1>. DEFINE S == {j \in DOMAIN values : values[j] = v}
<1>1. PICK n \in Nat : DOMAIN values \subseteq 1 .. n
  BY DEF Family
<1>2. IsFiniteSet(1 .. n) /\ S \in SUBSET (1 .. n)
  BY <1>1, FS_Interval
<1>3. IsFiniteSet(S)
  BY <1>2, FS_Subset
<1>. HIDE DEF S
<1>4. Cardinality(S) \in Nat
  BY <1>3, FS_CardinalityType
<1>5. QED
  BY <1>4 DEF S, Times

LEMMA TimesOfNone ==
  ASSUME NEW v
  PROVE  Times(<< >>, v) = 0 /\ Family(<< >>)
<1>1. {j \in DOMAIN << >> : << >>[j] = v} = {}
  OBVIOUS
<1>2. Cardinality({}) = 0
  BY FS_EmptySet
<1>3. DOMAIN << >> \subseteq 1 .. 0
  OBVIOUS
<1>4. QED
  BY <1>1, <1>2, <1>3 DEF Times, Family

LEMMA TimesOfOne ==
  ASSUME NEW u \in Value, NEW v
  PROVE  Times(<<u>>, v) = (IF u = v THEN 1 ELSE 0) /\ Family(<<u>>)
<1>1. {j \in DOMAIN <<u>> : <<u>>[j] = v} = IF u = v THEN {1} ELSE {}
  OBVIOUS
<1>2. Cardinality({1}) = 1 /\ Cardinality({}) = 0
  BY FS_Singleton, FS_EmptySet
<1>3. DOMAIN <<u>> \subseteq 1 .. 1
  OBVIOUS
<1>4. QED
  BY <1>1, <1>2, <1>3 DEF Times, Family

-----------------------------------------------------------------------------
(***************************************************************************)
(* The functions of the builder, field by field.                           *)
(***************************************************************************)
\* The same but for the count.
SameInstr(x, y) == y.id = x.id /\ y.name = x.name /\ y.ops = x.ops
SameInstrs(is, js) ==
  /\ Len(js) = Len(is)
  /\ \A i \in 1 .. Len(is) : SameInstr(is[i], js[i])
SameRest(x, y) ==
  /\ y.num_params = x.num_params /\ y.term = x.term /\ y.has_vars = x.has_vars
  /\ y.vars = x.vars /\ y.prev = x.prev /\ y.next = x.next
SameBlock(x, y) == SameInstrs(x.instrs, y.instrs) /\ SameRest(x, y)

\* The counts of blocks grow by the uses among the values.
CountsGrow(blocks, result, values) ==
  \A b \in 1 .. Len(blocks) : \A i \in 1 .. Len(blocks[b].instrs) :
    result[b].instrs[i].refs = blocks[b].instrs[i].refs + Times(values, <<b, i>>)

Increased(blocks, result, values) ==
  /\ result \in Seq(BlockType)
  /\ Len(result) = Len(blocks)
  /\ \A b \in 1 .. Len(blocks) : SameBlock(blocks[b], result[b])
  /\ CountsGrow(blocks, result, values)

LEMMA IncFields ==
  ASSUME NEW blocks \in Seq(BlockType), NEW values, Family(values)
  PROVE  Increased(blocks, Inc(blocks, values), values)
<1>. DEFINE Counted(b, i) == [blocks[b].instrs[i] EXCEPT !.refs = @ + Times(values, <<b, i>>)]
            is(b) == [i \in DOMAIN blocks[b].instrs |-> Counted(b, i)]
            new(b) == [blocks[b] EXCEPT !.instrs = is(b)]
            result == [b \in DOMAIN blocks |-> new(b)]
<1>1. Inc(blocks, values) = result
  BY DEF Inc, Times
<1>2. ASSUME NEW b \in 1 .. Len(blocks)
      PROVE  /\ new(b) \in BlockType
             /\ SameBlock(blocks[b], new(b))
             /\ \A i \in 1 .. Len(blocks[b].instrs) :
                  new(b).instrs[i].refs = blocks[b].instrs[i].refs + Times(values, <<b, i>>)
  <2>1. blocks[b] \in BlockType
    OBVIOUS
  <2>2. blocks[b].instrs \in Seq(InstrType) /\ Len(blocks[b].instrs) \in Nat
    BY <2>1, BlockFields DEF FieldsTyped
  <2>3. ASSUME NEW i \in 1 .. Len(blocks[b].instrs)
        PROVE  /\ Counted(b, i) \in InstrType
               /\ SameInstr(blocks[b].instrs[i], Counted(b, i))
               /\ Counted(b, i).refs = blocks[b].instrs[i].refs + Times(values, <<b, i>>)
    <3>1. PICK x \in InstrType : x = blocks[b].instrs[i]
      BY <2>2
    <3>2. PICK n \in Nat : n = Times(values, <<b, i>>)
      BY TimesCounts
    <3>3. Counted(b, i) = [x EXCEPT !.refs = @ + n]
      BY <3>1, <3>2
    <3>. HIDE DEF Counted
    <3>. DEFINE y == [x EXCEPT !.refs = @ + n]
    <3>3a. x.refs + n \in Int
      BY <3>1 DEF InstrType
    <3>3b. y \in InstrType
      BY <3>3a DEF InstrType
    <3>4. /\ [x EXCEPT !.refs = @ + n].id = x.id
          /\ [x EXCEPT !.refs = @ + n].name = x.name
          /\ [x EXCEPT !.refs = @ + n].ops = x.ops
          /\ [x EXCEPT !.refs = @ + n].refs = x.refs + n
      BY DEF InstrType
    <3>5. QED
      BY <3>1, <3>2, <3>3, <3>3b, <3>4 DEF SameInstr
  <2>4. PICK n \in Nat : n = Len(blocks[b].instrs) /\ DOMAIN blocks[b].instrs = 1 .. n
    BY <2>2
  <2>. HIDE DEF Counted
  <2>4a. is(b) = [i \in 1 .. n |-> Counted(b, i)]
    BY <2>4
  <2>4b. \A i \in 1 .. n : Counted(b, i) \in InstrType
    BY <2>3, <2>4
  <2>5. /\ is(b) \in Seq(InstrType) /\ Len(is(b)) = Len(blocks[b].instrs)
        /\ \A i \in 1 .. Len(blocks[b].instrs) : is(b)[i] = Counted(b, i)
    BY <2>4, <2>4a, <2>4b
  <2>. HIDE DEF is
  <2>6. /\ new(b) \in BlockType /\ new(b).instrs = is(b)
        /\ SameRest(blocks[b], new(b))
    BY <2>1, <2>5 DEF BlockType, SameRest
  <2>7. QED
    BY <2>3, <2>5, <2>6 DEF SameBlock, SameInstrs
<1>3. DOMAIN blocks = 1 .. Len(blocks) /\ Len(blocks) \in Nat
  OBVIOUS
<1>. HIDE DEF new
<1>4. /\ result \in Seq(BlockType) /\ Len(result) = Len(blocks)
      /\ \A b \in 1 .. Len(blocks) : result[b] = new(b)
  BY <1>2, <1>3
<1>. HIDE DEF result
<1>5. Increased(blocks, result, values)
  BY <1>2, <1>4 DEF Increased, CountsGrow
<1>6. QED
  BY <1>1, <1>5

\* One field of a block changes.
Fields(y, is, n, tm, has, vs, before, behind) ==
  /\ y \in BlockType
  /\ y.instrs = is /\ y.num_params = n /\ y.term = tm /\ y.has_vars = has /\ y.vars = vs
  /\ y.prev = before /\ y.next = behind

LEMMA InstrsChanged ==
  ASSUME NEW x \in BlockType, NEW is \in Seq(InstrType)
  PROVE  Fields([x EXCEPT !.instrs = is], is, x.num_params, x.term, x.has_vars, x.vars,
                x.prev, x.next)
BY DEF Fields, BlockType

LEMMA VarsChanged ==
  ASSUME NEW x \in BlockType, NEW vs \in Seq(VarType)
  PROVE  Fields([x EXCEPT !.vars = vs], x.instrs, x.num_params, x.term, x.has_vars, vs,
                x.prev, x.next)
BY DEF Fields, BlockType

LEMMA TermChanged ==
  ASSUME NEW x \in BlockType, NEW tm \in TermType
  PROVE  Fields([x EXCEPT !.term = tm], x.instrs, x.num_params, tm, x.has_vars, x.vars,
                x.prev, x.next)
BY DEF Fields, BlockType

LEMMA NumChanged ==
  ASSUME NEW x \in BlockType, NEW n \in Int
  PROVE  Fields([x EXCEPT !.num_params = n], x.instrs, n, x.term, x.has_vars, x.vars,
                x.prev, x.next)
BY DEF Fields, BlockType

\* One block changes, or all do.
OneChanged(blocks, result, c, y) ==
  /\ result \in Seq(BlockType)
  /\ Len(result) = Len(blocks)
  /\ result[c] = y
  /\ \A b \in 1 .. Len(blocks) : b # c => result[b] = blocks[b]

LEMMA ChangedBlock ==
  ASSUME NEW blocks \in Seq(BlockType), NEW c \in 1 .. Len(blocks), NEW y \in BlockType
  PROVE  OneChanged(blocks, [blocks EXCEPT ![c] = y], c, y)
BY DEF OneChanged

WithBlocks(g, h, blocks) ==
  h \in IRType /\ h.blocks = blocks /\ h.current = g.current /\ h.last = g.last

LEMMA ChangedBlocks ==
  ASSUME NEW g \in IRType, NEW blocks \in Seq(BlockType)
  PROVE  WithBlocks(g, [g EXCEPT !.blocks = blocks], blocks)
BY DEF WithBlocks, IRType

IRFields(g) ==
  /\ g.blocks \in Seq(BlockType) /\ Len(g.blocks) \in Nat /\ DOMAIN g.blocks = 1 .. Len(g.blocks)
  /\ g.current \in Nat /\ g.last \in Nat

LEMMA FieldsOfIR ==
  ASSUME NEW g \in IRType
  PROVE  IRFields(g)
<1>1. g.blocks \in Seq(BlockType) /\ g.current \in Nat /\ g.last \in Nat
  BY DEF IRType
<1>. DEFINE bs == g.blocks
<1>. HIDE DEF bs
<1>2. bs \in Seq(BlockType)
  BY <1>1 DEF bs
<1>3. Len(bs) \in Nat /\ DOMAIN bs = 1 .. Len(bs)
  BY <1>2
<1>4. QED
  BY <1>1, <1>3 DEF IRFields, bs

\* builder_add_instr and the counts of the values used.
Emitted(g, h, instr, uses) ==
  LET x == Block(g)
      y == Block(h)
  IN  /\ WithBlocks(g, h, h.blocks)
      /\ Len(h.blocks) = Len(g.blocks)
      /\ \A b \in 1 .. Len(g.blocks) : b # g.current => SameBlock(g.blocks[b], h.blocks[b])
      /\ SameRest(x, y)
      /\ Len(y.instrs) = Len(x.instrs) + 1
      /\ \A i \in 1 .. Len(x.instrs) : SameInstr(x.instrs[i], y.instrs[i])
      /\ y.instrs[Len(x.instrs) + 1] = instr
      /\ CountsGrow(g.blocks, h.blocks, uses)

LEMMA EmitFields ==
  ASSUME NEW g \in IRType, g.current \in 1 .. Len(g.blocks),
         NEW instr \in InstrType, NEW uses, Family(uses)
  PROVE  Emitted(g, Emit(g, instr, uses), instr, uses)
<1>. DEFINE c == g.current
            base == Inc(g.blocks, uses)
            is == base[c].instrs
            y == [base[c] EXCEPT !.instrs = Append(is, instr)]
            bs == [base EXCEPT ![c] = y]
            h == [g EXCEPT !.blocks = bs]
<1>1. Emit(g, instr, uses) = h
  BY DEF Emit
<1>2. g.blocks \in Seq(BlockType) /\ Len(g.blocks) \in Nat
  BY FieldsOfIR DEF IRFields
<1>3. Increased(g.blocks, base, uses)
  BY <1>2, IncFields
<1>. HIDE DEF base
<1>4. /\ base \in Seq(BlockType) /\ Len(base) = Len(g.blocks)
      /\ c \in 1 .. Len(base) /\ base[c] \in BlockType
  BY <1>3 DEF Increased
<1>5. PICK n \in Nat : n = Len(is) /\ is \in Seq(InstrType)
  BY <1>4, BlockFields DEF FieldsTyped
<1>. HIDE DEF is
<1>6. /\ Append(is, instr) \in Seq(InstrType) /\ Len(Append(is, instr)) = n + 1
      /\ \A i \in 1 .. n : Append(is, instr)[i] = is[i]
      /\ Append(is, instr)[n + 1] = instr
  BY <1>5, AppendProperties
<1>7. Fields(y, Append(is, instr), base[c].num_params, base[c].term, base[c].has_vars,
             base[c].vars, base[c].prev, base[c].next)
  BY <1>4, <1>6, InstrsChanged
<1>. HIDE DEF y
<1>8. OneChanged(base, bs, c, y)
  BY <1>4, <1>7, ChangedBlock DEF Fields
<1>. HIDE DEF bs
<1>9. WithBlocks(g, h, bs)
  BY <1>8, ChangedBlocks DEF OneChanged
<1>. HIDE DEF h
<1>10. /\ WithBlocks(g, h, h.blocks) /\ h.blocks = bs /\ h.current = c
       /\ Len(h.blocks) = Len(g.blocks) /\ Block(h) = y /\ Block(g) = g.blocks[c]
  BY <1>4, <1>8, <1>9 DEF OneChanged, WithBlocks, Block
<1>11. /\ SameBlock(g.blocks[c], base[c])
       /\ \A b \in 1 .. Len(g.blocks) : b # c => SameBlock(g.blocks[b], bs[b])
  BY <1>3, <1>4, <1>8 DEF Increased, OneChanged
<1>12. /\ Len(g.blocks[c].instrs) = n
       /\ \A i \in 1 .. n : SameInstr(g.blocks[c].instrs[i], y.instrs[i])
       /\ Len(y.instrs) = n + 1
       /\ y.instrs[n + 1] = instr
       /\ SameRest(g.blocks[c], y)
  BY <1>5, <1>6, <1>7, <1>11 DEF SameBlock, SameInstrs, SameRest, Fields, is
<1>13. CountsGrow(g.blocks, bs, uses)
  <2>1. ASSUME NEW b \in 1 .. Len(g.blocks), NEW i \in 1 .. Len(g.blocks[b].instrs)
        PROVE  bs[b].instrs[i].refs = g.blocks[b].instrs[i].refs + Times(uses, <<b, i>>)
    <3>1. base[b].instrs[i].refs = g.blocks[b].instrs[i].refs + Times(uses, <<b, i>>)
      BY <1>3 DEF Increased, CountsGrow
    <3>2. CASE b = c
      <4>1. bs[b].instrs[i] = base[b].instrs[i]
        BY <3>2, <1>6, <1>7, <1>8, <1>12 DEF OneChanged, Fields, is
      <4>2. QED
        BY <3>1, <4>1
    <3>3. CASE b # c
      BY <3>1, <3>3, <1>4, <1>8 DEF OneChanged
    <3>4. QED
      BY <3>2, <3>3
  <2>2. QED
    BY <2>1 DEF CountsGrow
<1>14. Emitted(g, h, instr, uses)
  BY <1>10, <1>11, <1>12, <1>13 DEF Emitted
<1>15. QED
  BY <1>1, <1>14

\* The terminator, and the counts of the values it uses.
TermSet(g, h, term, uses) ==
  LET x == Block(g)
      y == Block(h)
  IN  /\ WithBlocks(g, h, h.blocks)
      /\ Len(h.blocks) = Len(g.blocks)
      /\ \A b \in 1 .. Len(g.blocks) : b # g.current => SameBlock(g.blocks[b], h.blocks[b])
      /\ SameInstrs(x.instrs, y.instrs)
      /\ y.num_params = x.num_params /\ y.has_vars = x.has_vars
      /\ y.vars = x.vars /\ y.prev = x.prev /\ y.next = x.next
      /\ y.term = term
      /\ CountsGrow(g.blocks, h.blocks, uses)

LEMMA SetTermFields ==
  ASSUME NEW g \in IRType, g.current \in 1 .. Len(g.blocks),
         NEW term \in TermType, NEW uses, Family(uses)
  PROVE  TermSet(g, SetTerm(g, term, uses), term, uses)
<1>. DEFINE c == g.current
            base == Inc(g.blocks, uses)
            y == [base[c] EXCEPT !.term = term]
            bs == [base EXCEPT ![c] = y]
            h == [g EXCEPT !.blocks = bs]
<1>1. SetTerm(g, term, uses) = h
  BY DEF SetTerm
<1>2. g.blocks \in Seq(BlockType) /\ Len(g.blocks) \in Nat
  BY FieldsOfIR DEF IRFields
<1>3. Increased(g.blocks, base, uses)
  BY <1>2, IncFields
<1>. HIDE DEF base
<1>4. /\ base \in Seq(BlockType) /\ Len(base) = Len(g.blocks)
      /\ c \in 1 .. Len(base) /\ base[c] \in BlockType
  BY <1>3 DEF Increased
<1>5. Fields(y, base[c].instrs, base[c].num_params, term, base[c].has_vars,
             base[c].vars, base[c].prev, base[c].next)
  BY <1>4, TermChanged
<1>. HIDE DEF y
<1>6. OneChanged(base, bs, c, y)
  BY <1>4, <1>5, ChangedBlock DEF Fields
<1>. HIDE DEF bs
<1>7. WithBlocks(g, h, bs)
  BY <1>6, ChangedBlocks DEF OneChanged
<1>. HIDE DEF h
<1>8. /\ WithBlocks(g, h, h.blocks) /\ h.blocks = bs /\ h.current = c
      /\ Len(h.blocks) = Len(g.blocks) /\ Block(h) = y /\ Block(g) = g.blocks[c]
  BY <1>4, <1>6, <1>7 DEF OneChanged, WithBlocks, Block
<1>9. /\ SameBlock(g.blocks[c], base[c])
      /\ \A b \in 1 .. Len(g.blocks) : b # c => SameBlock(g.blocks[b], bs[b])
  BY <1>3, <1>4, <1>6 DEF Increased, OneChanged
<1>10. /\ SameInstrs(g.blocks[c].instrs, y.instrs)
       /\ y.num_params = g.blocks[c].num_params /\ y.has_vars = g.blocks[c].has_vars
       /\ y.vars = g.blocks[c].vars /\ y.prev = g.blocks[c].prev /\ y.next = g.blocks[c].next
       /\ y.term = term
  BY <1>5, <1>9 DEF SameBlock, SameRest, Fields
<1>11. CountsGrow(g.blocks, bs, uses)
  <2>1. \A b \in 1 .. Len(g.blocks) : bs[b].instrs = base[b].instrs
    BY <1>4, <1>5, <1>6 DEF OneChanged, Fields
  <2>2. QED
    BY <2>1, <1>3 DEF CountsGrow, Increased
<1>12. TermSet(g, h, term, uses)
  BY <1>8, <1>9, <1>10, <1>11 DEF TermSet
<1>13. QED
  BY <1>1, <1>12

\* The variables of the current block.
VarsSet(g, h, vs) ==
  /\ WithBlocks(g, h, h.blocks)
  /\ Len(h.blocks) = Len(g.blocks)
  /\ \A b \in 1 .. Len(g.blocks) : b # g.current => h.blocks[b] = g.blocks[b]
  /\ Block(h).instrs = Block(g).instrs /\ Block(h).num_params = Block(g).num_params
  /\ Block(h).term = Block(g).term /\ Block(h).has_vars = Block(g).has_vars
  /\ Block(h).prev = Block(g).prev /\ Block(h).next = Block(g).next
  /\ Block(h).vars = vs

LEMMA SetVarsFields ==
  ASSUME NEW g \in IRType, NEW c \in 1 .. Len(g.blocks), c = g.current,
         NEW vs \in Seq(VarType)
  PROVE  VarsSet(g, [g EXCEPT !.blocks = [g.blocks EXCEPT ![c] = [g.blocks[c] EXCEPT !.vars = vs]]],
                 vs)
<1>. DEFINE y == [g.blocks[c] EXCEPT !.vars = vs]
            bs == [g.blocks EXCEPT ![c] = y]
            h == [g EXCEPT !.blocks = bs]
<1>1. g.blocks \in Seq(BlockType) /\ Len(g.blocks) \in Nat /\ g.blocks[c] \in BlockType
  BY FieldsOfIR DEF IRFields
<1>2. Fields(y, g.blocks[c].instrs, g.blocks[c].num_params, g.blocks[c].term,
             g.blocks[c].has_vars, vs, g.blocks[c].prev, g.blocks[c].next)
  BY <1>1, VarsChanged
<1>. HIDE DEF y
<1>3. OneChanged(g.blocks, bs, c, y)
  BY <1>1, <1>2, ChangedBlock DEF Fields
<1>. HIDE DEF bs
<1>4. WithBlocks(g, h, bs)
  BY <1>3, ChangedBlocks DEF OneChanged
<1>. HIDE DEF h
<1>5. VarsSet(g, h, vs)
  BY <1>2, <1>3, <1>4 DEF VarsSet, WithBlocks, OneChanged, Fields, Block
<1>6. QED
  BY <1>5 DEF h, bs, y

\* builder_add_variable and builder_set_variable.
VarAdded(g, h, x, v) ==
  LET old == Block(g).vars
      vs == Block(h).vars
  IN  /\ VarsSet(g, h, vs)
      /\ vs \in Seq(VarType)
      /\ Len(vs) = Len(old) + 1
      /\ \A i \in 1 .. Len(old) : vs[i] = old[i]
      /\ vs[Len(old) + 1].name = x /\ vs[Len(old) + 1].val = v

VarChanged(g, h, v) ==
  LET old == Block(g).vars
      vs == Block(h).vars
  IN  /\ VarsSet(g, h, vs)
      /\ vs \in Seq(VarType)
      /\ Len(vs) = Len(old)
      /\ \A i \in 1 .. Len(old) : vs[i].name = old[i].name /\ vs[i].val \in {v, old[i].val}

LEMMA VarFields ==
  ASSUME NEW g \in IRType, g.current \in 1 .. Len(g.blocks), NEW x \in AllNames, NEW v \in Value
  PROVE  VarAdded(g, AddVar(g, x, v), x, v) /\ VarChanged(g, SetVar(g, x, v), v)
<1>1. PICK c \in 1 .. Len(g.blocks) : c = g.current
  OBVIOUS
<1>2. g.blocks[c] \in BlockType
  BY FieldsOfIR DEF IRFields
<1>3. PICK old \in Seq(VarType) : old = Block(g).vars
  BY <1>1, <1>2, BlockFields DEF FieldsTyped, Block
<1>. DEFINE e == [name |-> x, val |-> v]
            added == Append(old, e)
            New(i) == IF old[i].name = x THEN [old[i] EXCEPT !.val = v] ELSE old[i]
            set == [i \in DOMAIN old |-> New(i)]
<1>4. e \in VarType /\ e.name = x /\ e.val = v
  BY DEF VarType
<1>5. PICK n \in Nat : n = Len(old) /\ DOMAIN old = 1 .. n
  OBVIOUS
<1>6. ASSUME NEW i \in 1 .. n
      PROVE  New(i) \in VarType /\ New(i).name = old[i].name /\ New(i).val \in {v, old[i].val}
  <2>1. PICK o \in VarType : o = old[i]
    BY <1>5
  <2>2. [o EXCEPT !.val = v] \in VarType /\ [o EXCEPT !.val = v].name = o.name
        /\ [o EXCEPT !.val = v].val = v
    BY DEF VarType
  <2>3. QED
    BY <2>1, <2>2
<1>. HIDE DEF New, e
<1>7. /\ added \in Seq(VarType) /\ Len(added) = n + 1 /\ added[n + 1] = e
      /\ \A i \in 1 .. n : added[i] = old[i]
  BY <1>4, <1>5, AppendProperties
<1>8. /\ set = [i \in 1 .. n |-> New(i)]
      /\ set \in Seq(VarType) /\ Len(set) = n
      /\ \A i \in 1 .. n : set[i] = New(i)
  BY <1>5, <1>6
<1>9. AddVar(g, x, v) = [g EXCEPT !.blocks = [g.blocks EXCEPT ![c] = [g.blocks[c] EXCEPT !.vars = added]]]
  BY <1>1, <1>3 DEF AddVar, Block, e
<1>10. SetVar(g, x, v) = [g EXCEPT !.blocks = [g.blocks EXCEPT ![c] = [g.blocks[c] EXCEPT !.vars = set]]]
  BY <1>1, <1>3 DEF SetVar, Block, New
<1>. HIDE DEF added, set
<1>. DEFINE With(vs) ==
              [g EXCEPT !.blocks = [g.blocks EXCEPT ![c] = [g.blocks[c] EXCEPT !.vars = vs]]]
<1>11. VarsSet(g, With(added), added) /\ VarsSet(g, With(set), set)
  BY <1>1, <1>7, <1>8, SetVarsFields
<1>12. AddVar(g, x, v) = With(added) /\ SetVar(g, x, v) = With(set)
  BY <1>9, <1>10
<1>. HIDE DEF With
<1>13. VarsSet(g, AddVar(g, x, v), added) /\ VarsSet(g, SetVar(g, x, v), set)
  BY <1>11, <1>12
<1>14. /\ Len(added) = Len(old) + 1 /\ \A i \in 1 .. Len(old) : added[i] = old[i]
       /\ added[Len(old) + 1].name = x /\ added[Len(old) + 1].val = v
       /\ Len(set) = Len(old)
       /\ \A i \in 1 .. Len(old) : set[i].name = old[i].name /\ set[i].val \in {v, old[i].val}
  BY <1>4, <1>5, <1>6, <1>7, <1>8
<1>15. Block(AddVar(g, x, v)).vars = added /\ Block(SetVar(g, x, v)).vars = set
  BY <1>13 DEF VarsSet
<1>16. VarAdded(g, AddVar(g, x, v), x, v)
  BY <1>3, <1>7, <1>13, <1>14, <1>15 DEF VarAdded
<1>17. VarChanged(g, SetVar(g, x, v), v)
  BY <1>3, <1>8, <1>13, <1>14, <1>15 DEF VarChanged
<1>18. QED
  BY <1>16, <1>17

\* builder_add_parameter: one more instruction, which is counted.
ParameterAdded(g, h, instr) ==
  LET x == Block(g)
      y == Block(h)
  IN  /\ WithBlocks(g, h, h.blocks)
      /\ Len(h.blocks) = Len(g.blocks)
      /\ \A b \in 1 .. Len(g.blocks) : b # g.current => SameBlock(g.blocks[b], h.blocks[b])
      /\ y.num_params = x.num_params + 1 /\ y.term = x.term /\ y.has_vars = x.has_vars
      /\ y.vars = x.vars /\ y.prev = x.prev /\ y.next = x.next
      /\ Len(y.instrs) = Len(x.instrs) + 1
      /\ \A i \in 1 .. Len(x.instrs) : SameInstr(x.instrs[i], y.instrs[i])
      /\ y.instrs[Len(x.instrs) + 1] = instr
      /\ CountsGrow(g.blocks, h.blocks, << >>)

LEMMA AddParameterFields ==
  ASSUME NEW g \in IRType, g.current \in 1 .. Len(g.blocks), NEW x \in AllNames
  PROVE  ParameterAdded(g, AddParameter(g, x), Instr("PARAM", x, << >>))
<1>. DEFINE c == g.current
            instr == Instr("PARAM", x, << >>)
            e == Emit(g, instr, << >>)
            n == e.blocks[c].num_params + 1
            y == [e.blocks[c] EXCEPT !.num_params = n]
            bs == [e.blocks EXCEPT ![c] = y]
            h == [e EXCEPT !.blocks = bs]
<1>1. AddParameter(g, x) = h
  BY DEF AddParameter
<1>2. instr \in InstrType
  BY DEF Ids, Instr, InstrType
<1>. HIDE DEF instr
<1>4. Emitted(g, e, instr, << >>)
  BY <1>2, EmitFields, TimesOfNone
<1>. HIDE DEF e
<1>5. /\ e \in IRType /\ e.current = c /\ e.last = g.last /\ Len(e.blocks) = Len(g.blocks)
      /\ Block(e) = e.blocks[c] /\ Block(g) = g.blocks[c]
  BY <1>4 DEF Emitted, WithBlocks, Block
<1>6. e.blocks \in Seq(BlockType) /\ c \in 1 .. Len(e.blocks)
  BY <1>5, FieldsOfIR DEF IRFields
<1>7. e.blocks[c] \in BlockType
  BY <1>6
<1>8. n \in Int
  BY <1>7, BlockFields DEF FieldsTyped
<1>9. Fields(y, e.blocks[c].instrs, n, e.blocks[c].term, e.blocks[c].has_vars,
             e.blocks[c].vars, e.blocks[c].prev, e.blocks[c].next)
  <2>. HIDE DEF n
  <2>1. QED
    BY <1>7, <1>8, NumChanged
<1>. HIDE DEF y
<1>10. OneChanged(e.blocks, bs, c, y)
  BY <1>6, <1>9, ChangedBlock DEF Fields
<1>. HIDE DEF bs
<1>11. WithBlocks(e, h, bs)
  BY <1>5, <1>10, ChangedBlocks DEF OneChanged
<1>. HIDE DEF h
<1>12. /\ WithBlocks(g, h, h.blocks) /\ h.blocks = bs /\ Block(h) = y
       /\ Len(h.blocks) = Len(g.blocks)
       /\ \A b \in 1 .. Len(g.blocks) : b # c => h.blocks[b] = e.blocks[b]
  BY <1>5, <1>10, <1>11 DEF OneChanged, WithBlocks, Block
<1>13. /\ \A b \in 1 .. Len(g.blocks) : b # c => SameBlock(g.blocks[b], h.blocks[b])
       /\ SameRest(g.blocks[c], e.blocks[c])
       /\ Len(e.blocks[c].instrs) = Len(g.blocks[c].instrs) + 1
       /\ \A i \in 1 .. Len(g.blocks[c].instrs) :
            SameInstr(g.blocks[c].instrs[i], e.blocks[c].instrs[i])
       /\ e.blocks[c].instrs[Len(g.blocks[c].instrs) + 1] = instr
       /\ CountsGrow(g.blocks, e.blocks, << >>)
  BY <1>4, <1>5, <1>12 DEF Emitted
<1>14. y.instrs = e.blocks[c].instrs /\ h.blocks[c] = y
  BY <1>5, <1>9, <1>10, <1>12 DEF Fields, OneChanged
<1>15. CountsGrow(g.blocks, h.blocks, << >>)
  <2>1. \A b \in 1 .. Len(g.blocks) : h.blocks[b].instrs = e.blocks[b].instrs
    BY <1>12, <1>14
  <2>2. QED
    BY <2>1, <1>13 DEF CountsGrow
<1>16. ParameterAdded(g, h, instr)
  BY <1>5, <1>9, <1>12, <1>13, <1>14, <1>15 DEF ParameterAdded, SameRest, Fields
<1>17. QED
  BY <1>1, <1>16 DEF instr

\* builder_Call_argument: one operand more of instruction k of the current block.
ArgumentAdded(g, h, k, value) ==
  LET x == Block(g)
      y == Block(h)
  IN  /\ WithBlocks(g, h, h.blocks)
      /\ Len(h.blocks) = Len(g.blocks)
      /\ \A b \in 1 .. Len(g.blocks) : b # g.current => SameBlock(g.blocks[b], h.blocks[b])
      /\ SameRest(x, y)
      /\ Len(y.instrs) = Len(x.instrs)
      /\ \A i \in 1 .. Len(x.instrs) : i # k => SameInstr(x.instrs[i], y.instrs[i])
      /\ y.instrs[k].id = x.instrs[k].id /\ y.instrs[k].name = x.instrs[k].name
      /\ Len(y.instrs[k].ops) = Len(x.instrs[k].ops) + 1
      /\ \A j \in 1 .. Len(x.instrs[k].ops) : y.instrs[k].ops[j] = x.instrs[k].ops[j]
      /\ y.instrs[k].ops[Len(x.instrs[k].ops) + 1] = value
      /\ CountsGrow(g.blocks, h.blocks, <<value>>)

LEMMA AddArgumentFields ==
  ASSUME NEW g \in IRType, NEW c \in 1 .. Len(g.blocks), c = g.current,
         NEW k \in 1 .. Len(Block(g).instrs), NEW value \in Value
  PROVE  ArgumentAdded(g, AddArgument(g, <<c, k>>, value), k, value)
<1>. DEFINE base == Inc(g.blocks, <<value>>)
            is == base[c].instrs
            ops == Append(is[k].ops, value)
            y == [base[c] EXCEPT !.instrs = [is EXCEPT ![k] = [is[k] EXCEPT !.ops = ops]]]
            bs == [base EXCEPT ![c] = y]
            h == [g EXCEPT !.blocks = bs]
<1>1. AddArgument(g, <<c, k>>, value) = h
  BY DEF AddArgument
<1>2. g.blocks \in Seq(BlockType) /\ Len(g.blocks) \in Nat
  BY FieldsOfIR DEF IRFields
<1>3. Increased(g.blocks, base, <<value>>)
  BY <1>2, IncFields, TimesOfOne
<1>. HIDE DEF base
<1>4. /\ base \in Seq(BlockType) /\ Len(base) = Len(g.blocks)
      /\ c \in 1 .. Len(base) /\ base[c] \in BlockType
      /\ SameBlock(g.blocks[c], base[c])
  BY <1>3 DEF Increased
<1>5. is \in Seq(InstrType) /\ Len(is) \in Nat /\ k \in 1 .. Len(is)
  BY <1>4, BlockFields DEF FieldsTyped, SameBlock, SameInstrs, Block
<1>. HIDE DEF is
<1>6. PICK o \in InstrType : o = is[k]
  BY <1>5
<1>7. PICK old \in Seq(Value) : old = o.ops
  BY DEF InstrType
<1>8. /\ ops \in Seq(Value) /\ Len(ops) = Len(old) + 1 /\ ops[Len(old) + 1] = value
      /\ \A j \in 1 .. Len(old) : ops[j] = old[j]
  BY <1>6, <1>7, AppendProperties
<1>. HIDE DEF ops
<1>. DEFINE new == [o EXCEPT !.ops = ops]
            js == [is EXCEPT ![k] = new]
<1>9. /\ new \in InstrType /\ new.id = o.id /\ new.name = o.name /\ new.ops = ops
      /\ new.refs = o.refs
  BY <1>8 DEF InstrType
<1>10. y = [base[c] EXCEPT !.instrs = js]
  BY <1>6
<1>. HIDE DEF new
<1>11. /\ js \in Seq(InstrType) /\ Len(js) = Len(is) /\ js[k] = new
       /\ \A i \in 1 .. Len(is) : i # k => js[i] = is[i]
  BY <1>5, <1>9
<1>. HIDE DEF js, y
<1>12. Fields(y, js, base[c].num_params, base[c].term, base[c].has_vars,
              base[c].vars, base[c].prev, base[c].next)
  BY <1>4, <1>10, <1>11, InstrsChanged
<1>13. OneChanged(base, bs, c, y)
  BY <1>4, <1>12, ChangedBlock DEF Fields
<1>. HIDE DEF bs
<1>14. WithBlocks(g, h, bs)
  BY <1>13, ChangedBlocks DEF OneChanged
<1>. HIDE DEF h
<1>15. /\ WithBlocks(g, h, h.blocks) /\ h.blocks = bs /\ h.current = c
       /\ Len(h.blocks) = Len(g.blocks) /\ Block(h) = y /\ Block(g) = g.blocks[c]
  BY <1>4, <1>13, <1>14 DEF OneChanged, WithBlocks, Block
<1>16. \A b \in 1 .. Len(g.blocks) : b # c => SameBlock(g.blocks[b], bs[b])
  BY <1>3, <1>4, <1>13 DEF Increased, OneChanged
<1>17. /\ Len(g.blocks[c].instrs) = Len(is)
       /\ \A i \in 1 .. Len(is) : SameInstr(g.blocks[c].instrs[i], is[i])
       /\ SameRest(g.blocks[c], base[c])
  BY <1>4 DEF SameBlock, SameInstrs, is
<1>18. /\ SameRest(g.blocks[c], y) /\ y.instrs = js
  BY <1>12, <1>17 DEF Fields, SameRest
<1>19. g.blocks[c].instrs[k].ops = old /\ g.blocks[c].instrs[k].id = new.id
       /\ g.blocks[c].instrs[k].name = new.name
  BY <1>5, <1>6, <1>7, <1>9, <1>17 DEF SameInstr
<1>20. CountsGrow(g.blocks, bs, <<value>>)
  <2>1. ASSUME NEW b \in 1 .. Len(g.blocks), NEW i \in 1 .. Len(g.blocks[b].instrs)
        PROVE  bs[b].instrs[i].refs = g.blocks[b].instrs[i].refs + Times(<<value>>, <<b, i>>)
    <3>1. base[b].instrs[i].refs = g.blocks[b].instrs[i].refs + Times(<<value>>, <<b, i>>)
      BY <1>3 DEF Increased, CountsGrow
    <3>2. CASE b = c
      <4>1. js[i].refs = is[i].refs
        BY <3>2, <1>6, <1>9, <1>11, <1>17
      <4>2. bs[b].instrs = js /\ base[b].instrs = is
        BY <3>2, <1>4, <1>13, <1>18 DEF OneChanged, is
      <4>3. QED
        BY <3>1, <4>1, <4>2
    <3>3. CASE b # c
      BY <3>1, <3>3, <1>4, <1>13 DEF OneChanged
    <3>4. QED
      BY <3>2, <3>3
  <2>2. QED
    BY <2>1 DEF CountsGrow
<1>21. /\ Len(y.instrs) = Len(g.blocks[c].instrs)
       /\ \A i \in 1 .. Len(g.blocks[c].instrs) :
            i # k => SameInstr(g.blocks[c].instrs[i], y.instrs[i])
  BY <1>11, <1>17, <1>18
<1>22. /\ y.instrs[k].id = g.blocks[c].instrs[k].id
       /\ y.instrs[k].name = g.blocks[c].instrs[k].name
       /\ y.instrs[k].ops = ops /\ g.blocks[c].instrs[k].ops = old
  BY <1>9, <1>11, <1>18, <1>19
<1>23. SameRest(g.blocks[c], y)
  BY <1>18
<1>24. ArgumentAdded(g, h, k, value)
  BY <1>8, <1>15, <1>16, <1>20, <1>21, <1>22, <1>23 DEF ArgumentAdded
<1>25. QED
  BY <1>1, <1>24

\* merge_blocks, the first time: the parameters of a block.
Opened(x, y, vs) ==
  /\ Len(y.instrs) = Len(x.instrs) + Len(vs)
  /\ \A i \in 1 .. Len(x.instrs) : SameInstr(x.instrs[i], y.instrs[i])
  /\ \A i \in 1 .. Len(vs) : /\ y.instrs[Len(x.instrs) + i].id = "PARAM"
                             /\ y.instrs[Len(x.instrs) + i].name = vs[Len(vs) + 1 - i].name
                             /\ y.instrs[Len(x.instrs) + i].ops = << >>
                             /\ y.instrs[Len(x.instrs) + i].refs >= 0
  /\ y.num_params = x.num_params + Len(vs) /\ y.term = x.term /\ y.has_vars = TRUE
  /\ y.vars = x.vars /\ y.prev = x.prev /\ y.next = x.next

\* A later time: the parameters that have no argument.
Lacking(x, vs) == {i \in Enabled(x) : x.instrs[i].name \notin NamesIn(vs)}
Reduced(x, y, vs) ==
  /\ Len(y.instrs) = Len(x.instrs)
  /\ \A i \in 1 .. Len(x.instrs) :
       /\ y.instrs[i].id = x.instrs[i].id /\ y.instrs[i].ops = x.instrs[i].ops
       /\ y.instrs[i].name = IF i \in Lacking(x, vs) THEN Null ELSE x.instrs[i].name
  /\ y.num_params = x.num_params - Cardinality(Lacking(x, vs))
  /\ y.term = x.term /\ y.has_vars = x.has_vars
  /\ y.vars = x.vars /\ y.prev = x.prev /\ y.next = x.next

\* The names of the arguments.
Given(x, vs) ==
  IF x.has_vars THEN {x.instrs[i].name : i \in {j \in Enabled(x) : x.instrs[j].name \in NamesIn(vs)}}
  ELSE NamesIn(vs)

MergedBlocks(blocks, result, t, c) ==
  LET vs == blocks[c].vars
  IN  /\ result \in Seq(BlockType)
      /\ Len(result) = Len(blocks)
      /\ \A b \in 1 .. Len(blocks) : b # t => SameBlock(blocks[b], result[b])
      /\ ~blocks[t].has_vars => Opened(blocks[t], result[t], vs)
      /\ blocks[t].has_vars => Reduced(blocks[t], result[t], vs)
      /\ CountsGrow(blocks, result, Uses(vs, Given(blocks[t], vs)))

LEMMA UsesFamily ==
  ASSUME NEW vs \in Seq(VarType), NEW names
  PROVE  Family(Uses(vs, names))
<1>1. DOMAIN Uses(vs, names) \subseteq DOMAIN vs
  BY DEF Uses
<1>2. DOMAIN vs = 1 .. Len(vs) /\ Len(vs) \in Nat
  OBVIOUS
<1>3. QED
  BY <1>1, <1>2 DEF Family

LEMMA TwoParts ==
  ASSUME NEW S, NEW s \in Seq(S), NEW u \in Seq(S), NEW m \in Nat, NEW n \in Nat,
         m = Len(s), n = Len(u)
  PROVE  /\ s \o u \in Seq(S) /\ Len(s \o u) = m + n
         /\ \A i \in 1 .. m : (s \o u)[i] = s[i]
         /\ \A i \in 1 .. n : (s \o u)[m + i] = u[i]
<1>1. /\ s \o u \in Seq(S) /\ Len(s \o u) = m + n
      /\ \A i \in 1 .. m + n : (s \o u)[i] = IF i <= m THEN s[i] ELSE u[i - m]
  BY ConcatProperties
<1>2. ASSUME NEW i \in 1 .. n PROVE (s \o u)[m + i] = u[i]
  BY <1>1
<1>3. ASSUME NEW i \in 1 .. m PROVE (s \o u)[i] = s[i]
  BY <1>1
<1>4. QED
  BY <1>1, <1>2, <1>3

LEMMA ParametersFor ==
  ASSUME NEW vs \in Seq(VarType), NEW is,
         is = [i \in 1 .. Len(vs) |-> Instr("PARAM", vs[Len(vs) + 1 - i].name, << >>)]
  PROVE  /\ is \in Seq(InstrType) /\ Len(is) = Len(vs)
         /\ \A i \in 1 .. Len(vs) : /\ is[i].id = "PARAM"
                                    /\ is[i].name = vs[Len(vs) + 1 - i].name
                                    /\ is[i].ops = << >> /\ is[i].refs = 0
<1>. DEFINE P(x) == Instr("PARAM", x, << >>)
<1>1. PICK n \in Nat : n = Len(vs)
  OBVIOUS
<1>2. ASSUME NEW x \in AllNames
      PROVE  /\ P(x) \in InstrType /\ P(x).id = "PARAM" /\ P(x).name = x
             /\ P(x).ops = << >> /\ P(x).refs = 0
  BY DEF Ids, Instr, InstrType
<1>3. \A i \in 1 .. n : vs[n + 1 - i].name \in AllNames
  <2>1. TAKE i \in 1 .. n
  <2>2. PICK j \in 1 .. n : j = n + 1 - i
    OBVIOUS
  <2>3. vs[j] \in VarType
    BY <1>1
  <2>4. QED
    BY <2>2, <2>3 DEF VarType
<1>. HIDE DEF P
<1>4. is = [i \in 1 .. n |-> P(vs[n + 1 - i].name)]
  BY <1>1 DEF P
<1>5. ASSUME NEW i \in 1 .. n
      PROVE  /\ is[i] \in InstrType /\ is[i].id = "PARAM" /\ is[i].name = vs[n + 1 - i].name
             /\ is[i].ops = << >> /\ is[i].refs = 0
  <2>1. is[i] = P(vs[n + 1 - i].name)
    BY <1>4
  <2>2. QED
    BY <1>2, <1>3, <2>1
<1>6. is \in [1 .. n -> InstrType]
  BY <1>4, <1>5
<1>7. QED
  BY <1>1, <1>5, <1>6

LEMMA MergeFirstFields ==
  ASSUME NEW blocks \in Seq(BlockType), NEW t \in 1 .. Len(blocks), NEW c \in 1 .. Len(blocks),
         ~blocks[t].has_vars
  PROVE  MergedBlocks(blocks, MergeFirst(blocks, t, c), t, c)
<1>1. blocks[t] \in BlockType /\ blocks[c] \in BlockType
  OBVIOUS
<1>2. PICK vs \in Seq(VarType) : vs = blocks[c].vars
  BY <1>1, BlockFields DEF FieldsTyped
<1>3. PICK x \in BlockType : x = blocks[t]
  BY <1>1
<1>4. PICK old \in Seq(InstrType) : old = x.instrs
  BY BlockFields DEF FieldsTyped
<1>5. PICK n \in Nat, m \in Nat : n = Len(vs) /\ m = Len(old)
  OBVIOUS
<1>6. x.num_params + n \in Int
  BY BlockFields DEF FieldsTyped
<1>. DEFINE params == [i \in 1 .. n |-> Instr("PARAM", vs[n + 1 - i].name, << >>)]
            big == [blocks EXCEPT ![t].instrs = old \o params,
                                  ![t].num_params = x.num_params + n,
                                  ![t].has_vars = TRUE]
            uses == Uses(vs, NamesIn(vs))
            result == Inc(big, uses)
<1>7. MergeFirst(blocks, t, c) = result
  BY <1>2, <1>3, <1>4, <1>5 DEF MergeFirst
<1>8. /\ params \in Seq(InstrType) /\ Len(params) = n
      /\ \A i \in 1 .. n : /\ params[i].id = "PARAM" /\ params[i].name = vs[n + 1 - i].name
                           /\ params[i].ops = << >> /\ params[i].refs = 0
  BY <1>5, ParametersFor, ZenonT(40)
<1>. HIDE DEF params
<1>8a. PICK ps \in Seq(InstrType) : ps = params /\ Len(ps) = n
  BY <1>8
<1>8b. m = Len(old) /\ n = Len(ps)
  BY <1>5, <1>8a
<1>8c. /\ old \o ps \in Seq(InstrType) /\ Len(old \o ps) = m + n
       /\ \A i \in 1 .. m : (old \o ps)[i] = old[i]
       /\ \A i \in 1 .. n : (old \o ps)[m + i] = ps[i]
  BY <1>8b, TwoParts
<1>9. /\ old \o params \in Seq(InstrType) /\ Len(old \o params) = m + n
      /\ \A i \in 1 .. m : (old \o params)[i] = old[i]
      /\ \A i \in 1 .. n : (old \o params)[m + i] = params[i]
  BY <1>8a, <1>8c
<1>10. PICK js \in Seq(InstrType) : js = old \o params
  BY <1>9
<1>11. PICK k \in Int : k = x.num_params + n
  BY <1>6
<1>12. /\ big = [blocks EXCEPT ![t].instrs = js, ![t].num_params = k, ![t].has_vars = TRUE]
  BY <1>10, <1>11
<1>. HIDE DEF big
<1>. DEFINE y == [[[x EXCEPT !.instrs = js] EXCEPT !.num_params = k] EXCEPT !.has_vars = TRUE]
<1>13. /\ y \in BlockType /\ y.instrs = js /\ y.num_params = k /\ y.has_vars = TRUE
       /\ y.term = x.term /\ y.vars = x.vars /\ y.prev = x.prev /\ y.next = x.next
  BY DEF BlockType
<1>14. big = [blocks EXCEPT ![t] = y]
  BY <1>3, <1>12
<1>. HIDE DEF y
<1>15. OneChanged(blocks, big, t, y)
  BY <1>13, <1>14, ChangedBlock
<1>16. big \in Seq(BlockType) /\ Len(big) = Len(blocks) /\ big[t] = y
       /\ \A b \in 1 .. Len(blocks) : b # t => big[b] = blocks[b]
  BY <1>15 DEF OneChanged
<1>17. Increased(big, result, uses) /\ Family(uses)
  BY <1>16, IncFields, UsesFamily
<1>. HIDE DEF uses, result
<1>18. Opened(x, result[t], vs)
  <2>1. /\ SameRest(y, result[t]) /\ Len(result[t].instrs) = m + n
        /\ \A i \in 1 .. m + n : /\ SameInstr(js[i], result[t].instrs[i])
                                 /\ result[t].instrs[i].refs = js[i].refs + Times(uses, <<t, i>>)
    <3>1. SameBlock(y, result[t])
      BY <1>16, <1>17 DEF Increased
    <3>2. Len(js) = m + n
      BY <1>9, <1>10
    <3>3. \A i \in 1 .. Len(js) :
            result[t].instrs[i].refs = js[i].refs + Times(uses, <<t, i>>)
      BY <1>13, <1>16, <1>17 DEF Increased, CountsGrow
    <3>4. QED
      BY <1>13, <3>1, <3>2, <3>3 DEF SameBlock, SameInstrs
  <2>2. ASSUME NEW i \in 1 .. m PROVE SameInstr(old[i], result[t].instrs[i])
    <3>1. i \in 1 .. m + n /\ js[i] = old[i]
      BY <1>5, <1>9, <1>10
    <3>2. QED
      BY <2>1, <3>1
  <2>3. ASSUME NEW i \in 1 .. n
        PROVE  /\ result[t].instrs[m + i].id = "PARAM"
               /\ result[t].instrs[m + i].name = vs[n + 1 - i].name
               /\ result[t].instrs[m + i].ops = << >>
               /\ result[t].instrs[m + i].refs >= 0
    <3>1. m + i \in 1 .. m + n /\ js[m + i] = params[i]
      BY <1>5, <1>9, <1>10
    <3>2. PICK q \in Nat : q = Times(uses, <<t, m + i>>)
      BY <1>17, TimesCounts
    <3>3. SameInstr(params[i], result[t].instrs[m + i]) /\ result[t].instrs[m + i].refs = 0 + q
      BY <2>1, <1>8, <3>1, <3>2
    <3>4. QED
      BY <1>8, <3>3 DEF SameInstr
  <2>4. QED
    BY <1>4, <1>5, <1>11, <1>13, <2>1, <2>2, <2>3 DEF Opened, SameRest
<1>19. CountsGrow(blocks, result, uses)
  <2>1. ASSUME NEW b \in 1 .. Len(blocks), NEW i \in 1 .. Len(blocks[b].instrs)
        PROVE  /\ i \in 1 .. Len(big[b].instrs) /\ big[b].instrs[i] = blocks[b].instrs[i]
    <3>1. CASE b # t
      BY <3>1, <1>16
    <3>2. CASE b = t
      BY <3>2, <1>3, <1>4, <1>5, <1>9, <1>10, <1>13, <1>16
    <3>3. QED
      BY <3>1, <3>2
  <2>2. QED
    BY <2>1, <1>16, <1>17 DEF CountsGrow, Increased
<1>20. /\ result \in Seq(BlockType) /\ Len(result) = Len(blocks)
       /\ \A b \in 1 .. Len(blocks) : b # t => SameBlock(blocks[b], result[b])
  BY <1>16, <1>17 DEF Increased
<1>21. Given(x, vs) = NamesIn(vs)
  BY <1>3 DEF Given
<1>22. MergedBlocks(blocks, result, t, c)
  BY <1>2, <1>3, <1>18, <1>19, <1>20, <1>21 DEF MergedBlocks, uses
<1>23. QED
  BY <1>7, <1>22

LEMMA EnabledFinite ==
  ASSUME NEW x \in BlockType
  PROVE  /\ IsFiniteSet(Enabled(x)) /\ Cardinality(Enabled(x)) \in Nat
         /\ Enabled(x) \subseteq 1 .. Len(x.instrs)
         /\ Params(x) \subseteq 1 .. Len(x.instrs)
<1>1. x.instrs \in Seq(InstrType) /\ Len(x.instrs) \in Nat
  BY BlockFields DEF FieldsTyped
<1>2. DOMAIN x.instrs = 1 .. Len(x.instrs)
  BY <1>1
<1>3. Enabled(x) \subseteq 1 .. Len(x.instrs) /\ Params(x) \subseteq 1 .. Len(x.instrs)
  BY <1>2 DEF Enabled, Params
<1>4. IsFiniteSet(1 .. Len(x.instrs))
  BY <1>1, FS_Interval
<1>5. IsFiniteSet(Enabled(x))
  BY <1>3, <1>4, FS_Subset
<1>6. QED
  BY <1>3, <1>5, FS_CardinalityType

LEMMA MergeIntoFields ==
  ASSUME NEW blocks \in Seq(BlockType), NEW t \in 1 .. Len(blocks), NEW c \in 1 .. Len(blocks),
         blocks[t].has_vars
  PROVE  MergedBlocks(blocks, MergeInto(blocks, t, c), t, c)
<1>1. blocks[t] \in BlockType /\ blocks[c] \in BlockType
  OBVIOUS
<1>2. PICK vs \in Seq(VarType) : vs = blocks[c].vars
  BY <1>1, BlockFields DEF FieldsTyped
<1>3. PICK x \in BlockType : x = blocks[t]
  BY <1>1
<1>4. PICK old \in Seq(InstrType) : old = x.instrs
  BY BlockFields DEF FieldsTyped
<1>5. PICK m \in Nat : m = Len(old) /\ DOMAIN old = 1 .. m
  OBVIOUS
<1>. DEFINE kept == {i \in Enabled(x) : x.instrs[i].name \in NamesIn(vs)}
            dropped == Enabled(x) \ kept
            Disabled(i) == IF i \in dropped THEN [old[i] EXCEPT !.name = Null] ELSE old[i]
            supplied == {x.instrs[i].name : i \in kept}
            uses == Uses(vs, supplied)
            is == [i \in DOMAIN old |-> Disabled(i)]
            left == x.num_params - Cardinality(dropped)
            big == [blocks EXCEPT ![t].instrs = is, ![t].num_params = left]
            result == Inc(big, uses)
<1>6. MergeInto(blocks, t, c) = result
  BY <1>2, <1>3, <1>4 DEF MergeInto
<1>7. dropped = Lacking(x, vs) /\ supplied = Given(x, vs)
  BY <1>3 DEF Lacking, Given
<1>8. left \in Int
  <2>1. IsFiniteSet(dropped)
    BY EnabledFinite, FS_Subset
  <2>2. Cardinality(dropped) \in Nat /\ x.num_params \in Int
    BY <2>1, FS_CardinalityType, BlockFields DEF FieldsTyped
  <2>. HIDE DEF dropped
  <2>3. QED
    BY <2>2
<1>. HIDE DEF supplied, dropped, kept
<1>9. ASSUME NEW i \in 1 .. m
      PROVE  /\ Disabled(i) \in InstrType
             /\ Disabled(i).id = old[i].id /\ Disabled(i).ops = old[i].ops
             /\ Disabled(i).refs = old[i].refs
             /\ Disabled(i).name = IF i \in dropped THEN Null ELSE old[i].name
  <2>1. PICK o \in InstrType : o = old[i]
    BY <1>5
  <2>2. /\ [o EXCEPT !.name = Null] \in InstrType
        /\ [o EXCEPT !.name = Null].id = o.id /\ [o EXCEPT !.name = Null].ops = o.ops
        /\ [o EXCEPT !.name = Null].refs = o.refs /\ [o EXCEPT !.name = Null].name = Null
    BY DEF InstrType
  <2>3. QED
    BY <2>1, <2>2
<1>. HIDE DEF Disabled
<1>10. /\ is = [i \in 1 .. m |-> Disabled(i)]
       /\ is \in Seq(InstrType) /\ Len(is) = m
       /\ \A i \in 1 .. m : is[i] = Disabled(i)
  BY <1>5, <1>9
<1>11. PICK js \in Seq(InstrType) : js = is
  BY <1>10
<1>12. PICK k \in Int : k = left
  BY <1>8
<1>13. big = [blocks EXCEPT ![t].instrs = js, ![t].num_params = k]
  BY <1>11, <1>12
<1>. HIDE DEF big, is, left
<1>. DEFINE y == [[x EXCEPT !.instrs = js] EXCEPT !.num_params = k]
<1>14. /\ y \in BlockType /\ y.instrs = js /\ y.num_params = k /\ y.has_vars = x.has_vars
       /\ y.term = x.term /\ y.vars = x.vars /\ y.prev = x.prev /\ y.next = x.next
  BY DEF BlockType
<1>15. big = [blocks EXCEPT ![t] = y]
  BY <1>3, <1>13
<1>. HIDE DEF y
<1>16. OneChanged(blocks, big, t, y)
  BY <1>14, <1>15, ChangedBlock
<1>17. big \in Seq(BlockType) /\ Len(big) = Len(blocks) /\ big[t] = y
       /\ \A b \in 1 .. Len(blocks) : b # t => big[b] = blocks[b]
  BY <1>16 DEF OneChanged
<1>18. Increased(big, result, uses) /\ Family(uses)
  BY <1>17, IncFields, UsesFamily
<1>. HIDE DEF uses, result
<1>19. SameBlock(y, result[t])
  BY <1>17, <1>18 DEF Increased
<1>20. Reduced(x, result[t], vs)
  <2>1. SameRest(y, result[t]) /\ Len(result[t].instrs) = m
    BY <1>10, <1>11, <1>14, <1>19 DEF SameBlock, SameInstrs
  <2>2. ASSUME NEW i \in 1 .. m
        PROVE  /\ result[t].instrs[i].id = old[i].id /\ result[t].instrs[i].ops = old[i].ops
               /\ result[t].instrs[i].name = IF i \in dropped THEN Null ELSE old[i].name
    BY <1>9, <1>10, <1>11, <1>14, <1>19 DEF SameBlock, SameInstrs, SameInstr
  <2>3. k = x.num_params - Cardinality(dropped)
    BY <1>12 DEF left
  <2>4. QED
    BY <1>4, <1>5, <1>7, <1>14, <2>1, <2>2, <2>3 DEF Reduced, SameRest
<1>21. CountsGrow(blocks, result, uses)
  <2>1. ASSUME NEW b \in 1 .. Len(blocks), NEW i \in 1 .. Len(blocks[b].instrs)
        PROVE  /\ i \in 1 .. Len(big[b].instrs)
               /\ big[b].instrs[i].refs = blocks[b].instrs[i].refs
    <3>1. CASE b # t
      BY <3>1, <1>17
    <3>2. CASE b = t
      <4>1. i \in 1 .. m /\ big[b].instrs = js /\ blocks[b].instrs = old
        BY <3>2, <1>3, <1>4, <1>5, <1>14, <1>17
      <4>2. QED
        BY <4>1, <1>9, <1>10, <1>11
    <3>3. QED
      BY <3>1, <3>2
  <2>2. ASSUME NEW b \in 1 .. Len(blocks), NEW i \in 1 .. Len(blocks[b].instrs)
        PROVE  result[b].instrs[i].refs = blocks[b].instrs[i].refs + Times(uses, <<b, i>>)
    <3>1. result[b].instrs[i].refs = big[b].instrs[i].refs + Times(uses, <<b, i>>)
      BY <2>1, <1>17, <1>18 DEF CountsGrow, Increased
    <3>2. QED
      BY <2>1, <3>1
  <2>3. QED
    BY <2>2 DEF CountsGrow
<1>22. /\ result \in Seq(BlockType) /\ Len(result) = Len(blocks)
       /\ \A b \in 1 .. Len(blocks) : b # t => SameBlock(blocks[b], result[b])
  BY <1>17, <1>18 DEF Increased
<1>23. MergedBlocks(blocks, result, t, c)
  BY <1>2, <1>3, <1>7, <1>20, <1>21, <1>22 DEF MergedBlocks, uses
<1>24. QED
  BY <1>6, <1>23

LEMMA MergeFields ==
  ASSUME NEW blocks \in Seq(BlockType), NEW t \in 1 .. Len(blocks), NEW c \in 1 .. Len(blocks)
  PROVE  MergedBlocks(blocks, Merge(blocks, t, c), t, c)
BY MergeFirstFields, MergeIntoFields DEF Merge

\* merge_blocks(target, current_block), which the branches end with.
Merged(g, t) == [g EXCEPT !.blocks = Merge(g.blocks, t, g.current)]
AfterMerge(g, h, t) ==
  /\ WithBlocks(g, h, h.blocks)
  /\ MergedBlocks(g.blocks, h.blocks, t, g.current)

LEMMA MergedFields ==
  ASSUME NEW g \in IRType, g.current \in 1 .. Len(g.blocks), NEW t \in 1 .. Len(g.blocks)
  PROVE  AfterMerge(g, Merged(g, t), t)
<1>. DEFINE bs == Merge(g.blocks, t, g.current)
<1>1. MergedBlocks(g.blocks, bs, t, g.current)
  BY MergeFields, FieldsOfIR DEF IRFields
<1>. HIDE DEF bs
<1>2. WithBlocks(g, [g EXCEPT !.blocks = bs], bs)
  BY <1>1, ChangedBlocks DEF MergedBlocks
<1>3. QED
  BY <1>1, <1>2 DEF Merged, AfterMerge, WithBlocks, bs

\* builder_Branch and builder_CBranch.
LEMMA BranchIsMerged ==
  ASSUME NEW g, NEW t, NEW s, s = SetTerm(g, Term("BRANCH", << >>, <<t>>), << >>),
         s.current = g.current
  PROVE  Branch(g, t) = Merged(s, t)
BY DEF Branch, Merged

LEMMA CBranchIsMerged ==
  ASSUME NEW g, NEW t, NEW f, NEW cond, NEW s \in IRType,
         s = SetTerm(g, Term("CBRANCH", <<cond>>, <<t, f>>), <<cond>>), s.current = g.current
  PROVE  CBranch(g, cond, t, f) = Merged(Merged(s, t), f)
<1>1. /\ Merged(s, t).blocks = Merge(s.blocks, t, g.current)
      /\ Merged(s, t).current = g.current
  BY DEF Merged, IRType
<1>2. [Merged(s, t) EXCEPT !.blocks = Merge(Merge(s.blocks, t, g.current), f, g.current)] =
        [s EXCEPT !.blocks = Merge(Merge(s.blocks, t, g.current), f, g.current)]
  BY DEF Merged, IRType
<1>3. [s EXCEPT !.blocks = Merge(Merge(s.blocks, t, g.current), f, g.current)] =
        Merged(Merged(s, t), f)
  BY <1>1, <1>2 DEF Merged
<1>4. QED
  BY <1>3 DEF CBranch

\* builder_add_block: the same block, linked elsewhere; and the new one.
SameContents(x, y) ==
  /\ y.instrs = x.instrs /\ y.num_params = x.num_params /\ y.term = x.term
  /\ y.has_vars = x.has_vars /\ y.vars = x.vars

Fresh(y, before, behind) ==
  /\ y.instrs = << >> /\ y.num_params = 0 /\ y.term = Term("NONE", << >>, << >>)
  /\ y.has_vars = FALSE /\ y.vars = << >> /\ y.prev = before /\ y.next = behind

BlockAdded(g, h, after) ==
  LET new == Len(g.blocks) + 1
      behind == g.blocks[after].next
  IN  /\ h \in IRType /\ h.current = g.current
      /\ h.last = (IF g.last = after THEN new ELSE g.last)
      /\ Len(h.blocks) = new
      /\ \A b \in 1 .. Len(g.blocks) :
           /\ SameContents(g.blocks[b], h.blocks[b])
           /\ h.blocks[b].next = (IF b = after THEN new ELSE g.blocks[b].next)
           /\ h.blocks[b].prev = (IF b = behind THEN new ELSE g.blocks[b].prev)
      /\ Fresh(h.blocks[new], after, behind)

LEMMA AddBlockFields ==
  ASSUME NEW g \in IRType, NEW after \in 1 .. Len(g.blocks)
  PROVE  BlockAdded(g, AddBlock(g, after), after)
<1>1. PICK bs \in Seq(BlockType), n \in Nat :
        bs = g.blocks /\ n = Len(g.blocks) /\ DOMAIN bs = 1 .. n
  BY FieldsOfIR DEF IRFields
<1>2. PICK behind \in Nat : behind = bs[after].next
  <2>1. bs[after] \in BlockType
    BY <1>1
  <2>2. QED
    BY <2>1, BlockFields DEF FieldsTyped
<1>. DEFINE new == n + 1
            Relink(b) == [bs[b] EXCEPT !.prev = IF b = behind THEN new ELSE @,
                                       !.next = IF b = after THEN new ELSE @]
            relinked == [b \in DOMAIN bs |-> Relink(b)]
            added == [NewBlock EXCEPT !.prev = after, !.next = behind]
            result == Append(relinked, added)
            last == IF g.last = after THEN new ELSE g.last
            h == [g EXCEPT !.blocks = result, !.last = last]
<1>3. AddBlock(g, after) = h
  BY <1>1, <1>2 DEF AddBlock
<1>4. ASSUME NEW b \in 1 .. n
      PROVE  /\ Relink(b) \in BlockType
             /\ SameContents(bs[b], Relink(b))
             /\ Relink(b).next = IF b = after THEN new ELSE bs[b].next
             /\ Relink(b).prev = IF b = behind THEN new ELSE bs[b].prev
  <2>1. PICK x \in BlockType : x = bs[b]
    BY <1>1
  <2>2. PICK p \in Nat, q \in Nat : /\ p = (IF b = behind THEN new ELSE x.prev)
                                    /\ q = (IF b = after THEN new ELSE x.next)
    <3>1. x.prev \in Nat /\ x.next \in Nat /\ new \in Nat
      BY BlockFields DEF FieldsTyped
    <3>2. QED
      BY <3>1
  <2>3. Relink(b) = [x EXCEPT !.prev = p, !.next = q]
    BY <2>1, <2>2
  <2>. HIDE DEF Relink
  <2>4. /\ [x EXCEPT !.prev = p, !.next = q] \in BlockType
        /\ SameContents(x, [x EXCEPT !.prev = p, !.next = q])
        /\ [x EXCEPT !.prev = p, !.next = q].prev = p
        /\ [x EXCEPT !.prev = p, !.next = q].next = q
    BY DEF BlockType, SameContents
  <2>5. QED
    BY <2>1, <2>2, <2>3, <2>4
<1>5. added \in BlockType /\ Fresh(added, after, behind)
  <2>1. /\ << >> \in Seq(InstrType) /\ << >> \in Seq(VarType) /\ << >> \in Seq(Value)
        /\ << >> \in Seq(Nat) /\ after \in Nat
    BY <1>1
  <2>2. Term("NONE", << >>, << >>) \in TermType
    BY <2>1 DEF Term, TermType
  <2>3. PICK tm \in TermType : tm = Term("NONE", << >>, << >>)
    BY <2>2
  <2>4. NewBlock = [instrs |-> << >>, num_params |-> 0, term |-> tm,
                    has_vars |-> FALSE, vars |-> << >>, prev |-> 0, next |-> 0]
    BY <2>3, Zenon DEF NewBlock
  <2>5. PICK x \in BlockType :
          /\ x = NewBlock /\ x.instrs = << >> /\ x.num_params = 0 /\ x.term = tm
          /\ x.has_vars = FALSE /\ x.vars = << >>
    <3>1. NewBlock \in BlockType
      BY <2>1, <2>4 DEF BlockType
    <3>2. /\ NewBlock.instrs = << >> /\ NewBlock.num_params = 0 /\ NewBlock.term = tm
          /\ NewBlock.has_vars = FALSE /\ NewBlock.vars = << >>
      BY <2>4
    <3>3. QED
      BY <3>1, <3>2
  <2>6. /\ [x EXCEPT !.prev = after, !.next = behind] \in BlockType
        /\ SameContents(x, [x EXCEPT !.prev = after, !.next = behind])
        /\ [x EXCEPT !.prev = after, !.next = behind].prev = after
        /\ [x EXCEPT !.prev = after, !.next = behind].next = behind
    BY <2>1 DEF BlockType, SameContents
  <2>7. QED
    BY <2>3, <2>5, <2>6 DEF Fresh, SameContents
<1>. HIDE DEF Relink, added
<1>6. /\ relinked = [b \in 1 .. n |-> Relink(b)]
      /\ relinked \in Seq(BlockType) /\ Len(relinked) = n
      /\ \A b \in 1 .. n : relinked[b] = Relink(b)
  BY <1>1, <1>4
<1>. HIDE DEF relinked
<1>7. /\ result \in Seq(BlockType) /\ Len(result) = new /\ result[new] = added
      /\ \A b \in 1 .. n : result[b] = Relink(b)
  BY <1>5, <1>6, AppendProperties
<1>. HIDE DEF result
<1>8. last \in Nat
  BY FieldsOfIR DEF IRFields
<1>. HIDE DEF last
<1>9. h \in IRType /\ h.blocks = result /\ h.current = g.current /\ h.last = last
  BY <1>7, <1>8 DEF IRType
<1>. HIDE DEF h
<1>10. BlockAdded(g, h, after)
  BY <1>1, <1>2, <1>4, <1>5, <1>7, <1>9 DEF BlockAdded, last
<1>11. QED
  BY <1>3, <1>10

\* builder_enter_block, on a block that has only parameters.
Entered(g, h, b) ==
  /\ h \in IRType /\ h.current = b /\ h.last = g.last
  /\ Len(h.blocks) = Len(g.blocks)
  /\ \A c \in 1 .. Len(g.blocks) : c # b => h.blocks[c] = g.blocks[c]
  /\ h.blocks[b].instrs = g.blocks[b].instrs /\ h.blocks[b].term = g.blocks[b].term
  /\ h.blocks[b].num_params = g.blocks[b].num_params
  /\ h.blocks[b].has_vars = g.blocks[b].has_vars
  /\ h.blocks[b].prev = g.blocks[b].prev /\ h.blocks[b].next = g.blocks[b].next
  /\ Len(h.blocks[b].vars) = Len(g.blocks[b].instrs)
  /\ \A i \in 1 .. Len(g.blocks[b].instrs) :
       /\ h.blocks[b].vars[i].name = g.blocks[b].instrs[i].name
       /\ h.blocks[b].vars[i].val = <<b, i>>

LEMMA EnterFields ==
  ASSUME NEW g \in IRType, NEW b \in 1 .. Len(g.blocks), Waiting(g.blocks[b]), CanEnter(g, b)
  PROVE  /\ Entered(g, EnterBlock(g, b), b)
         /\ Enabled(g.blocks[b]) = 1 .. Len(g.blocks[b].instrs)
<1>1. PICK bs \in Seq(BlockType) : bs = g.blocks
  BY FieldsOfIR DEF IRFields
<1>2. PICK x \in BlockType : x = bs[b]
  BY <1>1
<1>3. PICK is \in Seq(InstrType), n \in Nat : is = x.instrs /\ n = Len(is) /\ DOMAIN is = 1 .. n
  BY BlockFields DEF FieldsTyped
<1>4. Params(x) = 1 .. n /\ Enabled(x) = 1 .. n
  <2>1. \A i \in 1 .. n : is[i].id = "PARAM"
    BY <1>1, <1>2, <1>3 DEF Waiting
  <2>2. Params(x) = {i \in 1 .. n : \A j \in 1 .. i : is[j].id = "PARAM"}
    BY <1>3 DEF Params
  <2>3. \A i \in 1 .. n : \A j \in 1 .. i : j \in 1 .. n
    BY <1>3
  <2>4. Params(x) = 1 .. n
    BY <2>1, <2>2, <2>3
  <2>5. QED
    BY <2>4, <1>1, <1>2 DEF CanEnter
<1>5. Cardinality(Params(x)) = n
  BY <1>4, FS_Interval
<1>6. \A i \in 1 .. n : is[i].name \in AllNames
  <2>1. TAKE i \in 1 .. n
  <2>2. is[i] \in InstrType /\ is[i].name # Null
    BY <1>3, <1>4 DEF Enabled
  <2>3. QED
    BY <2>2 DEF InstrType
<1>. DEFINE Var(i) == [name |-> is[i].name, val |-> <<b, i>>]
            declared == [i \in 1 .. n |-> Var(i)]
            h == [g EXCEPT !.current = b, !.blocks = [bs EXCEPT ![b] = [x EXCEPT !.vars = declared]]]
<1>7. x.vars = << >>
  BY <1>1, <1>2, BlockFields DEF FieldsTyped, Waiting
<1>8. ASSUME NEW i \in 1 .. n
      PROVE  Var(i) \in VarType /\ Var(i).name = is[i].name /\ Var(i).val = <<b, i>>
  BY <1>1, <1>6 DEF Value, VarType
<1>. HIDE DEF Var
<1>9. /\ declared \in Seq(VarType) /\ Len(declared) = n
      /\ \A i \in 1 .. n : declared[i] = Var(i)
  BY <1>8
<1>10. EnterBlock(g, b) = h
  <2>1. x.vars \o declared = declared
    <3>. HIDE DEF declared
    <3>1. QED
      BY <1>7, <1>9, ConcatEmptySeq
  <2>2. declared = [i \in 1 .. Cardinality(Params(g.blocks[b])) |->
                      [name |-> g.blocks[b].instrs[i].name, val |-> <<b, i>>]]
    BY <1>1, <1>2, <1>3, <1>5 DEF Var
  <2>. HIDE DEF declared
  <2>3. QED
    BY <1>1, <1>2, <2>1, <2>2 DEF EnterBlock
<1>. HIDE DEF declared
<1>. DEFINE y == [x EXCEPT !.vars = declared]
            cs == [bs EXCEPT ![b] = y]
<1>11. Fields(y, x.instrs, x.num_params, x.term, x.has_vars, declared, x.prev, x.next)
  BY <1>9, VarsChanged
<1>12. h = [g EXCEPT !.current = b, !.blocks = cs]
  OBVIOUS
<1>. HIDE DEF y, h
<1>13. OneChanged(bs, cs, b, y)
  BY <1>1, <1>11, ChangedBlock DEF Fields
<1>. HIDE DEF cs
<1>14. h \in IRType /\ h.blocks = cs /\ h.current = b /\ h.last = g.last
  <2>1. cs \in Seq(BlockType) /\ b \in Nat
    BY <1>13, FieldsOfIR DEF OneChanged, IRFields
  <2>2. QED
    BY <1>12, <2>1 DEF IRType
<1>15. Entered(g, h, b)
  BY <1>1, <1>2, <1>3, <1>8, <1>9, <1>11, <1>13, <1>14 DEF Entered, OneChanged, Fields
<1>16. QED
  BY <1>1, <1>2, <1>3, <1>4, <1>10, <1>15

-----------------------------------------------------------------------------
(***************************************************************************)
(* Blocks stay sound.                                                      *)
(***************************************************************************)
\* What an edge relies on is kept.
Grows(x, y) ==
  /\ y.term.id = x.term.id /\ y.term.targets = x.term.targets
  /\ y.prev = x.prev /\ y.next = x.next
  /\ x.has_vars => /\ y.has_vars
                   /\ Enabled(y) \subseteq Enabled(x)
                   /\ \A i \in Enabled(y) : y.instrs[i].name = x.instrs[i].name
  /\ NamesIn(x.vars) \subseteq NamesIn(y.vars)

LEMMA SameParameters ==
  ASSUME NEW x \in BlockType, NEW y \in BlockType, Len(y.instrs) = Len(x.instrs),
         \A i \in 1 .. Len(x.instrs) : y.instrs[i].id = x.instrs[i].id
  PROVE  Params(y) = Params(x)
<1>1. /\ DOMAIN x.instrs = 1 .. Len(x.instrs) /\ Len(x.instrs) \in Nat
      /\ DOMAIN y.instrs = 1 .. Len(x.instrs)
  BY BlockFields DEF FieldsTyped
<1>2. ASSUME NEW i \in 1 .. Len(x.instrs)
      PROVE  \A j \in 1 .. i : y.instrs[j].id = x.instrs[j].id
  BY <1>1
<1>3. QED
  BY <1>1, <1>2 DEF Params

\* A block that differs in its counts.
LEMMA SameBecomes ==
  ASSUME NEW x \in BlockType, NEW y \in BlockType, SameBlock(x, y)
  PROVE  /\ Enabled(y) = Enabled(x) /\ Params(y) = Params(x)
         /\ Grows(x, y) /\ (Waiting(x) => Waiting(y)) /\ (Unique(x) => Unique(y))
         /\ \A b : BlockSound(b, x) => BlockSound(b, y)
<1>1. /\ Len(y.instrs) = Len(x.instrs)
      /\ \A i \in 1 .. Len(x.instrs) : SameInstr(x.instrs[i], y.instrs[i])
      /\ SameRest(x, y)
  BY DEF SameBlock, SameInstrs
<1>2. Params(y) = Params(x)
  BY <1>1, SameParameters DEF SameInstr
<1>3. Params(x) \subseteq 1 .. Len(x.instrs)
  BY EnabledFinite
<1>4. /\ Enabled(y) = Enabled(x)
      /\ \A i \in Enabled(x) : y.instrs[i].name = x.instrs[i].name
  BY <1>1, <1>2, <1>3 DEF Enabled, SameInstr
<1>5. Grows(x, y)
  BY <1>1, <1>4 DEF Grows, SameRest
<1>6. Waiting(x) => Waiting(y)
  BY <1>1 DEF Waiting, SameRest, SameInstr
<1>7. Unique(x) => Unique(y)
  BY <1>4 DEF Unique
<1>8. ASSUME NEW b, BlockSound(b, x) PROVE BlockSound(b, y)
  <2>1. LocalBlock(b, y)
    BY <1>1, <1>8 DEF LocalBlock, BlockSound, SameRest, SameInstr
  <2>2. y.num_params = Cardinality(Enabled(y)) /\ Declared(y) /\ TermShape(y)
    BY <1>1, <1>4, <1>8 DEF BlockSound, SameRest, Declared, TermShape
  <2>3. Assignments(y)
    BY <1>1, <1>8 DEF BlockSound, Assignments, SameInstr
  <2>4. QED
    BY <2>1, <2>2, <2>3 DEF BlockSound
<1>9. QED
  BY <1>2, <1>4, <1>5, <1>6, <1>7, <1>8

\* A block with one more instruction.
Extended(x, y, instr) ==
  /\ Len(y.instrs) = Len(x.instrs) + 1
  /\ \A i \in 1 .. Len(x.instrs) : SameInstr(x.instrs[i], y.instrs[i])
  /\ y.instrs[Len(x.instrs) + 1] = instr
  /\ y.term = x.term /\ y.has_vars = x.has_vars
  /\ y.vars = x.vars /\ y.prev = x.prev /\ y.next = x.next

\* The operands of an instruction that comes last in block b.
Usable(b, x, instr) ==
  /\ \A j \in 1 .. Len(instr.ops) : Defined(b, instr.ops[j], Len(x.instrs))
  /\ instr.id = "SET_LOC" => Len(instr.ops) = 2
  /\ instr.id = "CALL" => Len(instr.ops) >= 1

LEMMA ExtendedSound ==
  ASSUME NEW x \in BlockType, NEW y \in BlockType, NEW b, NEW instr \in InstrType,
         Extended(x, y, instr), Usable(b, x, instr), BlockSound(b, x)
  PROVE  LocalBlock(b, y) /\ Declared(y) /\ TermShape(y) /\ Assignments(y)
<1>1. PICK n \in Nat : n = Len(x.instrs)
  BY BlockFields DEF FieldsTyped
<1>2. /\ Len(y.instrs) = n + 1 /\ y.instrs[n + 1] = instr
      /\ \A i \in 1 .. n : SameInstr(x.instrs[i], y.instrs[i])
      /\ y.term = x.term /\ y.vars = x.vars /\ y.next = x.next
  BY <1>1 DEF Extended
<1>3. \A v, m : Defined(b, v, m) /\ m \in 0 .. n => Defined(b, v, n + 1) /\ Defined(b, v, n)
  BY DEF Defined
<1>4. ASSUME NEW i \in 1 .. n + 1, NEW j \in 1 .. Len(y.instrs[i].ops)
      PROVE  Defined(b, y.instrs[i].ops[j],
                     IF y.instrs[i].id = "CALL" /\ j > 1 THEN n + 1 ELSE i - 1)
  <2>1. CASE i = n + 1
    <3>1. Defined(b, instr.ops[j], n) /\ y.instrs[i] = instr
      BY <1>1, <1>2, <1>4, <2>1 DEF Usable
    <3>2. Defined(b, instr.ops[j], n + 1) /\ i - 1 = n
      BY <1>3, <2>1, <3>1
    <3>3. QED
      BY <3>1, <3>2
  <2>2. CASE i \in 1 .. n
    <3>1. /\ y.instrs[i].id = x.instrs[i].id /\ y.instrs[i].ops = x.instrs[i].ops
      BY <1>2, <2>2 DEF SameInstr
    <3>2. Defined(b, x.instrs[i].ops[j], IF x.instrs[i].id = "CALL" /\ j > 1 THEN n ELSE i - 1)
      BY <1>1, <2>2, <3>1 DEF BlockSound, LocalBlock
    <3>3. CASE x.instrs[i].id = "CALL" /\ j > 1
      BY <1>3, <3>1, <3>2, <3>3
    <3>4. CASE ~(x.instrs[i].id = "CALL" /\ j > 1)
      BY <3>1, <3>2, <3>4
    <3>5. QED
      BY <3>3, <3>4
  <2>3. QED
    BY <1>1, <2>1, <2>2
<1>5. LocalBlock(b, y)
  <2>1. \A i \in 1 .. Len(x.vars) : Defined(b, x.vars[i].val, n)
    BY <1>1 DEF BlockSound, LocalBlock
  <2>2. \A i \in 1 .. Len(x.term.ops) : Defined(b, x.term.ops[i], n)
    BY <1>1 DEF BlockSound, LocalBlock
  <2>3. QED
    BY <1>1, <1>2, <1>3, <1>4, <2>1, <2>2 DEF LocalBlock
<1>6. Declared(y) /\ TermShape(y)
  BY <1>2 DEF BlockSound, Declared, TermShape
<1>7. Assignments(y)
  <2>1. ASSUME NEW i \in 1 .. n + 1
        PROVE  /\ y.instrs[i].id = "SET_LOC" => Len(y.instrs[i].ops) = 2
               /\ y.instrs[i].id = "CALL" => Len(y.instrs[i].ops) >= 1
    <3>1. CASE i = n + 1
      BY <1>2, <3>1 DEF Usable
    <3>2. CASE i \in 1 .. n
      BY <1>1, <1>2, <3>2 DEF BlockSound, Assignments, SameInstr
    <3>3. QED
      BY <1>1, <3>1, <3>2
  <2>2. QED
    BY <1>2, <2>1 DEF Assignments
<1>8. QED
  BY <1>5, <1>6, <1>7

LEMMA EmitBecomes ==
  ASSUME NEW x \in BlockType, NEW y \in BlockType, NEW b, NEW instr \in InstrType,
         Extended(x, y, instr), Usable(b, x, instr), BlockSound(b, x),
         y.num_params = x.num_params, instr.id # "PARAM"
  PROVE  /\ Grows(x, y) /\ BlockSound(b, y) /\ (Unique(x) => Unique(y))
         /\ Params(y) = Params(x) /\ Enabled(y) = Enabled(x)
<1>1. PICK n \in Nat : n = Len(x.instrs) /\ DOMAIN x.instrs = 1 .. n /\ DOMAIN y.instrs = 1 .. n + 1
  <2>1. x.instrs \in Seq(InstrType) /\ y.instrs \in Seq(InstrType) /\ Len(x.instrs) \in Nat
    BY BlockFields DEF FieldsTyped
  <2>2. DOMAIN x.instrs = 1 .. Len(x.instrs) /\ DOMAIN y.instrs = 1 .. Len(y.instrs)
    BY <2>1
  <2>3. QED
    BY <2>1, <2>2 DEF Extended
<1>2. /\ \A i \in 1 .. n : SameInstr(x.instrs[i], y.instrs[i])
      /\ y.instrs[n + 1].id # "PARAM"
  BY <1>1 DEF Extended
<1>3. ASSUME NEW i \in 1 .. n
      PROVE  (\A j \in 1 .. i : y.instrs[j].id = "PARAM")
               <=> (\A j \in 1 .. i : x.instrs[j].id = "PARAM")
  <2>1. \A j \in 1 .. i : j \in 1 .. n
    BY <1>1
  <2>2. QED
    BY <1>2, <2>1 DEF SameInstr
<1>4. ~(\A j \in 1 .. n + 1 : y.instrs[j].id = "PARAM")
  BY <1>1, <1>2
<1>5. Params(y) = Params(x)
  BY <1>1, <1>3, <1>4 DEF Params
<1>6. /\ Enabled(y) = Enabled(x)
      /\ \A i \in Enabled(x) : y.instrs[i].name = x.instrs[i].name
  <2>1. Params(x) \subseteq 1 .. n
    BY <1>1 DEF Params
  <2>2. QED
    BY <1>2, <1>5, <2>1 DEF Enabled, SameInstr
<1>7. Grows(x, y)
  BY <1>6 DEF Grows, Extended
<1>8. BlockSound(b, y)
  BY <1>6, ExtendedSound DEF BlockSound
<1>9. Unique(x) => Unique(y)
  BY <1>6 DEF Unique
<1>10. QED
  BY <1>5, <1>6, <1>7, <1>8, <1>9

\* One more parameter behind parameters.
LEMMA ParameterBecomes ==
  ASSUME NEW x \in BlockType, NEW y \in BlockType, NEW b, NEW name \in AllNames, name # Null,
         Extended(x, y, Instr("PARAM", name, << >>)), BlockSound(b, x), ~x.has_vars,
         y.num_params = x.num_params + 1,
         \A i \in 1 .. Len(x.instrs) : x.instrs[i].id = "PARAM" /\ x.instrs[i].name # Null
  PROVE  /\ Grows(x, y) /\ BlockSound(b, y)
         /\ (Unique(x) /\ \A i \in 1 .. Len(x.instrs) : x.instrs[i].name # name) => Unique(y)
<1>. DEFINE instr == Instr("PARAM", name, << >>)
<1>1. /\ instr \in InstrType /\ instr.id = "PARAM" /\ instr.name = name /\ instr.ops = << >>
  BY DEF Ids, Instr, InstrType
<1>. HIDE DEF instr
<1>2. PICK n \in Nat : n = Len(x.instrs) /\ DOMAIN x.instrs = 1 .. n /\ DOMAIN y.instrs = 1 .. n + 1
  <2>1. x.instrs \in Seq(InstrType) /\ y.instrs \in Seq(InstrType) /\ Len(x.instrs) \in Nat
    BY BlockFields DEF FieldsTyped
  <2>2. DOMAIN x.instrs = 1 .. Len(x.instrs) /\ DOMAIN y.instrs = 1 .. Len(y.instrs)
    BY <2>1
  <2>3. QED
    BY <2>1, <2>2 DEF Extended
<1>3. \A i \in 1 .. n : x.instrs[i].id = "PARAM" /\ x.instrs[i].name # Null
  BY <1>2
<1>4. \A i \in 1 .. n : y.instrs[i].id = "PARAM" /\ y.instrs[i].name = x.instrs[i].name
  BY <1>2, <1>3 DEF Extended, SameInstr
<1>5. y.instrs[n + 1].id = "PARAM" /\ y.instrs[n + 1].name = name
  BY <1>1, <1>2 DEF Extended, instr
<1>6. Enabled(x) = 1 .. n
  BY <1>2, <1>3 DEF Enabled, Params
<1>7. Enabled(y) = 1 .. n + 1
  <2>1. \A i \in 1 .. n + 1 : y.instrs[i].id = "PARAM" /\ y.instrs[i].name # Null
    BY <1>2, <1>3, <1>4, <1>5
  <2>2. ASSUME NEW i \in 1 .. n + 1 PROVE \A j \in 1 .. i : y.instrs[j].id = "PARAM"
    BY <1>2, <2>1
  <2>3. QED
    BY <1>2, <2>1, <2>2 DEF Enabled, Params
<1>8. y.num_params = Cardinality(Enabled(y))
  <2>1. Cardinality(1 .. n) = n /\ Cardinality(1 .. n + 1) = n + 1
    BY FS_Interval
  <2>2. QED
    BY <1>6, <1>7, <2>1 DEF BlockSound
<1>9. Usable(b, x, instr)
  BY <1>1 DEF Usable
<1>10. BlockSound(b, y)
  BY <1>1, <1>8, <1>9, ExtendedSound DEF BlockSound, instr
<1>11. Grows(x, y)
  BY DEF Grows, Extended
<1>12. ASSUME Unique(x), \A i \in 1 .. n : x.instrs[i].name # name
       PROVE  Unique(y)
  <2>1. \A i, j \in 1 .. n : x.instrs[i].name = x.instrs[j].name => i = j
    BY <1>6, <1>12 DEF Unique
  <2>2. \A i, j \in 1 .. n + 1 : y.instrs[i].name = y.instrs[j].name => i = j
    BY <1>4, <1>5, <1>12, <2>1
  <2>3. QED
    BY <1>7, <2>2 DEF Unique
<1>13. QED
  BY <1>2, <1>10, <1>11, <1>12

\* A call with one more argument.
MoreArguments(x, y, k, value) ==
  /\ SameRest(x, y)
  /\ Len(y.instrs) = Len(x.instrs)
  /\ \A i \in 1 .. Len(x.instrs) : i # k => SameInstr(x.instrs[i], y.instrs[i])
  /\ y.instrs[k].id = x.instrs[k].id /\ y.instrs[k].name = x.instrs[k].name
  /\ Len(y.instrs[k].ops) = Len(x.instrs[k].ops) + 1
  /\ \A j \in 1 .. Len(x.instrs[k].ops) : y.instrs[k].ops[j] = x.instrs[k].ops[j]
  /\ y.instrs[k].ops[Len(x.instrs[k].ops) + 1] = value

LEMMA ArgumentBecomes ==
  ASSUME NEW x \in BlockType, NEW y \in BlockType, NEW b, NEW value,
         NEW k \in 1 .. Len(x.instrs), MoreArguments(x, y, k, value),
         x.instrs[k].id = "CALL", Defined(b, value, Len(x.instrs)), BlockSound(b, x)
  PROVE  /\ Grows(x, y) /\ BlockSound(b, y) /\ (Unique(x) => Unique(y))
         /\ \A i \in 1 .. Len(x.instrs) : y.instrs[i].id = x.instrs[i].id
<1>1. PICK n \in Nat : n = Len(x.instrs)
  BY BlockFields DEF FieldsTyped
<1>2. PICK m \in Nat : m = Len(x.instrs[k].ops)
  <2>1. x.instrs \in Seq(InstrType)
    BY BlockFields DEF FieldsTyped
  <2>2. x.instrs[k] \in InstrType
    BY <2>1
  <2>3. x.instrs[k].ops \in Seq(Value)
    BY <2>2 DEF InstrType
  <2>4. QED
    BY <2>3
<1>3. m >= 1
  BY <1>2 DEF BlockSound, Assignments
<1>4. /\ SameRest(x, y) /\ Len(y.instrs) = n
      /\ \A i \in 1 .. n : y.instrs[i].id = x.instrs[i].id /\ y.instrs[i].name = x.instrs[i].name
      /\ \A i \in 1 .. n : i # k => y.instrs[i].ops = x.instrs[i].ops
  BY <1>1 DEF MoreArguments, SameInstr
<1>5. Params(y) = Params(x)
  BY <1>1, <1>4, SameParameters
<1>6. /\ Enabled(y) = Enabled(x)
      /\ \A i \in Enabled(x) : y.instrs[i].name = x.instrs[i].name
  <2>1. Params(x) \subseteq 1 .. n
    BY <1>1, EnabledFinite
  <2>2. QED
    BY <1>4, <1>5, <2>1 DEF Enabled
<1>7. Grows(x, y)
  BY <1>4, <1>6 DEF Grows, SameRest
<1>8. ASSUME NEW i \in 1 .. n, NEW j \in 1 .. Len(y.instrs[i].ops)
      PROVE  Defined(b, y.instrs[i].ops[j],
                     IF y.instrs[i].id = "CALL" /\ j > 1 THEN n ELSE i - 1)
  <2>1. CASE i # k
    BY <1>1, <1>4, <1>8, <2>1 DEF BlockSound, LocalBlock
  <2>2. CASE i = k /\ j = m + 1
    <3>1. y.instrs[i].id = "CALL" /\ j > 1 /\ y.instrs[i].ops[j] = value
      BY <1>2, <1>3, <1>4, <2>2 DEF MoreArguments
    <3>2. QED
      BY <1>1, <3>1
  <2>3. CASE i = k /\ j \in 1 .. m
    <3>1. y.instrs[i].ops[j] = x.instrs[k].ops[j] /\ y.instrs[i].id = x.instrs[k].id
      BY <1>2, <1>4, <2>3 DEF MoreArguments
    <3>2. QED
      BY <1>1, <1>2, <2>3, <3>1 DEF BlockSound, LocalBlock
  <2>4. Len(y.instrs[k].ops) = m + 1
    BY <1>2 DEF MoreArguments
  <2>5. QED
    BY <1>2, <1>8, <2>1, <2>2, <2>3, <2>4
<1>9. LocalBlock(b, y)
  BY <1>1, <1>4, <1>8 DEF LocalBlock, BlockSound, SameRest
<1>10. Assignments(y)
  <2>1. ASSUME NEW i \in 1 .. n
        PROVE  /\ y.instrs[i].id = "SET_LOC" => Len(y.instrs[i].ops) = 2
               /\ y.instrs[i].id = "CALL" => Len(y.instrs[i].ops) >= 1
    <3>1. CASE i # k
      BY <1>1, <1>4, <3>1 DEF BlockSound, Assignments
    <3>2. CASE i = k
      BY <1>2, <1>3, <1>4, <3>2 DEF MoreArguments
    <3>3. QED
      BY <3>1, <3>2
  <2>2. QED
    BY <1>4, <2>1 DEF Assignments
<1>11. BlockSound(b, y)
  BY <1>4, <1>6, <1>9, <1>10 DEF BlockSound, SameRest, Declared, TermShape
<1>12. Unique(x) => Unique(y)
  BY <1>6 DEF Unique
<1>13. QED
  BY <1>1, <1>4, <1>7, <1>11, <1>12

\* A block with other variables.
OtherVars(x, y) ==
  /\ y.instrs = x.instrs /\ y.num_params = x.num_params
  /\ y.term = x.term /\ y.has_vars = x.has_vars /\ y.prev = x.prev /\ y.next = x.next

LEMMA VarsBecome ==
  ASSUME NEW x \in BlockType, NEW y \in BlockType, NEW b, OtherVars(x, y),
         Declared(y), NamesIn(x.vars) \subseteq NamesIn(y.vars),
         \A i \in 1 .. Len(y.vars) : Defined(b, y.vars[i].val, Len(x.instrs)),
         BlockSound(b, x)
  PROVE  /\ Grows(x, y) /\ BlockSound(b, y) /\ (Unique(x) => Unique(y))
         /\ Params(y) = Params(x) /\ Enabled(y) = Enabled(x)
<1>1. Params(y) = Params(x) /\ Enabled(y) = Enabled(x)
  BY DEF OtherVars, Params, Enabled
<1>2. Grows(x, y) /\ (Unique(x) => Unique(y))
  BY <1>1 DEF OtherVars, Grows, Unique
<1>3. LocalBlock(b, y)
  BY DEF OtherVars, LocalBlock, BlockSound
<1>4. BlockSound(b, y)
  BY <1>1, <1>3 DEF OtherVars, BlockSound, TermShape, Assignments
<1>5. QED
  BY <1>1, <1>2, <1>4

\* A block whose parameters are created.
LEMMA OpenedBecomes ==
  ASSUME NEW x \in BlockType, NEW y \in BlockType, NEW b, NEW vs \in Seq(VarType),
         Opened(x, y, vs), ~x.has_vars, Waiting(x), BlockSound(b, x), Null \notin AllNames,
         \A i, j \in 1 .. Len(vs) : vs[i].name = vs[j].name => i = j
  PROVE  /\ Grows(x, y) /\ BlockSound(b, y) /\ Waiting(y) /\ Unique(y)
         /\ \A i \in Enabled(y) : y.instrs[i].name \in NamesIn(vs)
<1>1. PICK n \in Nat : n = Len(vs) /\ DOMAIN vs = 1 .. n
  OBVIOUS
<1>2. Len(x.instrs) = 0 /\ Len(x.vars) = 0 /\ x.term.id = "NONE"
  BY DEF Waiting
<1>3. /\ Len(y.instrs) = n /\ y.num_params = x.num_params + n /\ y.term = x.term /\ y.has_vars
      /\ y.vars = x.vars /\ y.prev = x.prev /\ y.next = x.next
      /\ \A i \in 1 .. n : /\ y.instrs[i].id = "PARAM" /\ y.instrs[i].name = vs[n + 1 - i].name
                           /\ y.instrs[i].ops = << >>
  BY <1>1, <1>2 DEF Opened
<1>4. \A i \in 1 .. n : n + 1 - i \in 1 .. n /\ vs[n + 1 - i].name # Null
                        /\ vs[n + 1 - i].name \in NamesIn(vs)
  <2>1. TAKE i \in 1 .. n
  <2>2. PICK j \in 1 .. n : j = n + 1 - i
    OBVIOUS
  <2>3. vs[j] \in VarType
    BY <1>1
  <2>4. vs[j].name \in AllNames
    BY <2>3 DEF VarType
  <2>5. QED
    BY <1>1, <2>2, <2>4 DEF NamesIn
<1>5. DOMAIN y.instrs = 1 .. n
  BY <1>3, BlockFields DEF FieldsTyped
<1>6. Enabled(y) = 1 .. n
  <2>1. ASSUME NEW i \in 1 .. n PROVE \A j \in 1 .. i : y.instrs[j].id = "PARAM"
    BY <1>3
  <2>2. \A i \in 1 .. n : y.instrs[i].name # Null
    BY <1>3, <1>4
  <2>3. QED
    BY <1>5, <2>1, <2>2 DEF Enabled, Params
<1>7. x.num_params = 0
  BY <1>2, EnabledFinite, FS_EmptySet DEF BlockSound
<1>8. y.num_params = Cardinality(Enabled(y))
  BY <1>3, <1>6, <1>7, FS_Interval
<1>9. LocalBlock(b, y)
  <2>1. \A i \in 1 .. n : Len(y.instrs[i].ops) = 0
    BY <1>3
  <2>2. \A i \in 1 .. Len(y.vars) : FALSE
    BY <1>2, <1>3
  <2>3. ASSUME NEW i \in 1 .. Len(y.term.ops) PROVE Defined(b, y.term.ops[i], n)
    BY <1>2, <1>3, <2>3 DEF BlockSound, LocalBlock, Defined
  <2>4. QED
    BY <1>3, <2>1, <2>2, <2>3 DEF LocalBlock
<1>10. Assignments(y)
  BY <1>3 DEF Assignments
<1>11. BlockSound(b, y)
  BY <1>3, <1>8, <1>9, <1>10 DEF BlockSound, Declared, TermShape
<1>12. Waiting(y)
  BY <1>2, <1>3 DEF Waiting
<1>13. Unique(y)
  <2>1. ASSUME NEW i \in 1 .. n, NEW j \in 1 .. n, y.instrs[i].name = y.instrs[j].name
        PROVE  i = j
    <3>1. PICK p \in 1 .. n, q \in 1 .. n : p = n + 1 - i /\ q = n + 1 - j
      OBVIOUS
    <3>2. y.instrs[i].name = vs[p].name /\ y.instrs[j].name = vs[q].name
      BY <1>3, <3>1
    <3>3. p = q
      BY <1>1, <2>1, <3>2
    <3>4. QED
      BY <3>1, <3>3
  <2>2. QED
    BY <1>6, <2>1 DEF Unique
<1>14. Grows(x, y)
  BY <1>3 DEF Grows
<1>15. QED
  BY <1>3, <1>4, <1>6, <1>11, <1>12, <1>13, <1>14

\* A block of which parameters are taken back.
LEMMA ReducedBecomes ==
  ASSUME NEW x \in BlockType, NEW y \in BlockType, NEW b, NEW vs, Reduced(x, y, vs),
         x.has_vars, BlockSound(b, x)
  PROVE  /\ Grows(x, y) /\ BlockSound(b, y) /\ (Waiting(x) => Waiting(y))
         /\ (Unique(x) => Unique(y))
         /\ Enabled(y) = {i \in Enabled(x) : x.instrs[i].name \in NamesIn(vs)}
         /\ \A i \in Enabled(y) : y.instrs[i].name \in NamesIn(vs)
<1>1. PICK n \in Nat : n = Len(x.instrs)
  BY BlockFields DEF FieldsTyped
<1>2. /\ Len(y.instrs) = n /\ y.term = x.term /\ y.has_vars = x.has_vars
      /\ y.num_params = x.num_params - Cardinality(Lacking(x, vs))
      /\ y.vars = x.vars /\ y.prev = x.prev /\ y.next = x.next
      /\ \A i \in 1 .. n :
           /\ y.instrs[i].id = x.instrs[i].id /\ y.instrs[i].ops = x.instrs[i].ops
           /\ y.instrs[i].name = IF i \in Lacking(x, vs) THEN Null ELSE x.instrs[i].name
  BY <1>1 DEF Reduced
<1>3. Params(y) = Params(x) /\ Params(x) \subseteq 1 .. n
  BY <1>1, <1>2, SameParameters, EnabledFinite
<1>4. /\ Enabled(y) = Enabled(x) \ Lacking(x, vs)
      /\ \A i \in Enabled(y) : y.instrs[i].name = x.instrs[i].name
  BY <1>2, <1>3 DEF Enabled, Lacking
<1>5. /\ Enabled(y) = {i \in Enabled(x) : x.instrs[i].name \in NamesIn(vs)}
      /\ \A i \in Enabled(y) : y.instrs[i].name \in NamesIn(vs)
  BY <1>4 DEF Lacking
<1>6. y.num_params = Cardinality(Enabled(y))
  <2>1. IsFiniteSet(Enabled(x)) /\ Lacking(x, vs) \subseteq Enabled(x)
    BY EnabledFinite DEF Lacking
  <2>2. PICK l \in Nat, e \in Nat : l = Cardinality(Lacking(x, vs)) /\ e = Cardinality(Enabled(x))
    BY <2>1, FS_Subset, FS_CardinalityType
  <2>3. IsFiniteSet(Lacking(x, vs)) /\ Enabled(x) \cap Lacking(x, vs) = Lacking(x, vs)
    BY <2>1, FS_Subset
  <2>4. /\ Cardinality(Enabled(x) \ Lacking(x, vs)) =
              Cardinality(Enabled(x)) - Cardinality(Enabled(x) \cap Lacking(x, vs))
    BY <2>1, FS_Difference
  <2>5. QED
    BY <1>2, <1>4, <2>3, <2>4 DEF BlockSound
<1>7. LocalBlock(b, y)
  BY <1>1, <1>2 DEF LocalBlock, BlockSound
<1>8. Assignments(y)
  BY <1>1, <1>2 DEF BlockSound, Assignments
<1>9. BlockSound(b, y)
  BY <1>2, <1>6, <1>7, <1>8 DEF BlockSound, Declared, TermShape
<1>10. Grows(x, y)
  BY <1>2, <1>4 DEF Grows
<1>11. Waiting(x) => Waiting(y)
  BY <1>1, <1>2 DEF Waiting
<1>12. Unique(x) => Unique(y)
  BY <1>4 DEF Unique
<1>13. QED
  BY <1>5, <1>9, <1>10, <1>11, <1>12

-----------------------------------------------------------------------------
(***************************************************************************)
(* The function stays sound.                                               *)
(***************************************************************************)
LEMMA NullIsNoName ==
  Null \notin AllNames
BY SourcesAssumption DEF AllNames

Grown(g, h) ==
  /\ h \in IRType /\ h.current = g.current /\ h.last = g.last
  /\ Len(h.blocks) = Len(g.blocks)
  /\ \A b \in 1 .. Len(g.blocks) :
       /\ Grows(g.blocks[b], h.blocks[b])
       /\ BlockSound(b, h.blocks[b])
       /\ b # g.current /\ Waiting(g.blocks[b]) => Waiting(h.blocks[b])

LEMMA GrownSound ==
  ASSUME NEW g, NEW h, NEW W, NEW O, Sound(g, W, O), Grown(g, h)
  PROVE  Sound(h, W, O)
<1>. DEFINE bs == g.blocks
            cs == h.blocks
<1>1. /\ h \in IRType /\ h.current = g.current /\ Len(cs) = Len(bs)
      /\ g.current \in 1 .. Len(bs) /\ W \subseteq 1 .. Len(bs) /\ g.current \notin W
  BY DEF Sound, Grown
<1>2. \A b \in 1 .. Len(bs) : Grows(bs[b], cs[b]) /\ BlockSound(b, cs[b])
  BY DEF Grown
<1>3. ASSUME NEW p \in 1 .. Len(bs), NEW t, EdgeSound(bs, p, t)
      PROVE  EdgeSound(cs, p, t)
  <2>1. t \in 1 .. Len(bs) /\ t # p /\ bs[t].has_vars
    BY <1>3 DEF EdgeSound
  <2>2. /\ cs[t].has_vars /\ Enabled(cs[t]) \subseteq Enabled(bs[t])
        /\ \A i \in Enabled(cs[t]) : cs[t].instrs[i].name = bs[t].instrs[i].name
    BY <1>2, <2>1 DEF Grows
  <2>3. NamesIn(bs[p].vars) \subseteq NamesIn(cs[p].vars)
    BY <1>2 DEF Grows
  <2>4. \A i \in Enabled(bs[t]) : bs[t].instrs[i].name \in NamesIn(bs[p].vars)
    BY <1>3 DEF EdgeSound
  <2>. HIDE DEF bs, cs
  <2>5. QED
    BY <1>1, <2>1, <2>2, <2>3, <2>4 DEF EdgeSound
<1>4. EdgesSound(cs, h.current, O)
  <2>1. ASSUME NEW p \in 1 .. Len(cs), NEW k \in 1 .. Len(cs[p].term.targets)
        PROVE  \/ EdgeSound(cs, p, cs[p].term.targets[k])
               \/ p = h.current /\ cs[p].term.targets[k] \in O
    <3>1. p \in 1 .. Len(bs) /\ cs[p].term.targets = bs[p].term.targets
      BY <1>1, <1>2 DEF Grows
    <3>2. \/ EdgeSound(bs, p, bs[p].term.targets[k])
          \/ p = g.current /\ bs[p].term.targets[k] \in O
      BY <2>1, <3>1 DEF Sound, EdgesSound
    <3>3. QED
      BY <1>1, <1>3, <3>1, <3>2
  <2>2. QED
    BY <2>1 DEF EdgesSound
<1>5. \A b \in W : Waiting(cs[b])
  BY <1>1 DEF Sound, Grown
<1>6. \A b \in 1 .. Len(cs) : cs[b].term.id = "NONE" => b = h.current \/ b \in W
  BY <1>1, <1>2 DEF Sound, Grows
<1>7. QED
  BY <1>1, <1>2, <1>4, <1>5, <1>6 DEF Sound

\* Every block that has come to have its parameters is branched to from ahead.
LEMMA GrownRanked ==
  ASSUME NEW g, NEW h, NEW r, Ranked(g, r), Grown(g, h),
         \A b \in 1 .. Len(g.blocks) :
           h.blocks[b].has_vars =>
             \/ g.blocks[b].has_vars
             \/ \E q \in 1 .. Len(g.blocks) : BranchesTo(g.blocks, q, b) /\ r[q] < r[b]
  PROVE  Ranked(h, r)
<1>1. /\ Len(h.blocks) = Len(g.blocks) /\ h.last = g.last
      /\ \A b \in 1 .. Len(g.blocks) :
           /\ h.blocks[b].prev = g.blocks[b].prev /\ h.blocks[b].next = g.blocks[b].next
           /\ h.blocks[b].term.targets = g.blocks[b].term.targets
  BY DEF Grown, Grows
<1>2. ASSUME NEW b \in 1 .. Len(g.blocks) PROVE FromAhead(h.blocks, r, b)
  <2>1. SUFFICES ASSUME h.blocks[b].has_vars
                 PROVE  \E q \in 1 .. Len(h.blocks) : BranchesTo(h.blocks, q, b) /\ r[q] < r[b]
    BY DEF FromAhead
  <2>2. PICK q \in 1 .. Len(g.blocks) : BranchesTo(g.blocks, q, b) /\ r[q] < r[b]
    BY <2>1 DEF Ranked, FromAhead
  <2>3. BranchesTo(h.blocks, q, b)
    BY <1>1, <2>2 DEF BranchesTo
  <2>4. QED
    BY <1>1, <2>2, <2>3
<1>3. \A b \in 1 .. Len(g.blocks) : Neighbours(h.blocks, r, b)
  BY <1>1 DEF Ranked, Neighbours
<1>4. QED
  BY <1>1, <1>2, <1>3 DEF Ranked

LEMMA GrownStands ==
  ASSUME NEW g, NEW h, NEW fs, NEW r, Grown(g, h), g.current \in 1 .. Len(g.blocks)
  PROVE  /\ Stacked(g, fs, r) => Stacked(h, fs, r)
         /\ LoopsBack(g, fs) => LoopsBack(h, fs)
         /\ Open(g) => Open(h)
<1>1. /\ h.current = g.current /\ Len(h.blocks) = Len(g.blocks)
      /\ \A b \in 1 .. Len(g.blocks) :
           /\ h.blocks[b].term.targets = g.blocks[b].term.targets
           /\ h.blocks[b].term.id = g.blocks[b].term.id
           /\ g.blocks[b].has_vars => h.blocks[b].has_vars
  BY DEF Grown, Grows
<1>2. Stacked(g, fs, r) => Stacked(h, fs, r)
  BY <1>1 DEF Stacked
<1>3. LoopsBack(g, fs) => LoopsBack(h, fs)
  BY <1>1 DEF LoopsBack
<1>4. Open(g) => Open(h)
  BY <1>1 DEF Open, Block
<1>5. QED
  BY <1>2, <1>3, <1>4

LEMMA GrownStanding ==
  ASSUME NEW g, NEW h, NEW fs, NEW r, Standing(g, fs, r), Grown(g, h), AllUnique(h),
         Covered(h, {}), \A b \in 1 .. Len(g.blocks) : h.blocks[b].has_vars => g.blocks[b].has_vars
  PROVE  Standing(h, fs, r)
<1>1. /\ Sound(g, WaitingIn(fs), {}) /\ Ranked(g, r) /\ Stacked(g, fs, r) /\ LoopsBack(g, fs)
      /\ Open(g)
  BY DEF Standing, Placed, Laid
<1>2. g.current \in 1 .. Len(g.blocks)
  BY <1>1 DEF Sound
<1>3. Sound(h, WaitingIn(fs), {}) /\ Ranked(h, r)
  BY <1>1, GrownSound, GrownRanked
<1>4. Stacked(h, fs, r) /\ LoopsBack(h, fs) /\ Open(h)
  BY <1>1, <1>2, GrownStands
<1>5. QED
  BY <1>3, <1>4 DEF Standing, Placed, Laid

\* Blocks other than the current one only change in their counts.
LEMMA OneGrown ==
  ASSUME NEW g, NEW h, NEW W, NEW O, Sound(g, W, O), WithBlocks(g, h, h.blocks),
         Len(h.blocks) = Len(g.blocks),
         \A b \in 1 .. Len(g.blocks) : b # g.current => SameBlock(g.blocks[b], h.blocks[b]),
         Grows(Block(g), Block(h)), BlockSound(g.current, Block(h)),
         Block(h).has_vars => Block(g).has_vars
  PROVE  /\ Grown(g, h)
         /\ AllUnique(g) /\ Unique(Block(h)) => AllUnique(h)
         /\ \A b \in 1 .. Len(g.blocks) : h.blocks[b].has_vars => g.blocks[b].has_vars
<1>1. /\ g \in IRType /\ h \in IRType /\ h.current = g.current /\ h.last = g.last
      /\ Block(g) = g.blocks[g.current] /\ Block(h) = h.blocks[g.current]
  BY DEF WithBlocks, Block, Sound
<1>2. \A b \in 1 .. Len(g.blocks) : g.blocks[b] \in BlockType /\ h.blocks[b] \in BlockType
  BY <1>1, FieldsOfIR DEF IRFields
<1>3. ASSUME NEW b \in 1 .. Len(g.blocks)
      PROVE  /\ Grows(g.blocks[b], h.blocks[b]) /\ BlockSound(b, h.blocks[b])
             /\ b # g.current /\ Waiting(g.blocks[b]) => Waiting(h.blocks[b])
             /\ h.blocks[b].has_vars => g.blocks[b].has_vars
             /\ b # g.current /\ Unique(g.blocks[b]) => Unique(h.blocks[b])
  <2>1. CASE b = g.current
    BY <1>1, <2>1
  <2>2. CASE b # g.current
    <3>1. SameBlock(g.blocks[b], h.blocks[b]) /\ BlockSound(b, g.blocks[b])
      BY <2>2 DEF Sound
    <3>2. QED
      BY <2>2, <3>1, <1>2, SameBecomes DEF SameBlock, SameRest
  <2>3. QED
    BY <2>1, <2>2
<1>4. Grown(g, h)
  BY <1>1, <1>3 DEF Grown
<1>5. AllUnique(g) /\ Unique(Block(h)) => AllUnique(h)
  BY <1>1, <1>3 DEF AllUnique
<1>6. QED
  BY <1>3, <1>4, <1>5

\* The current block gets a terminator; its targets are still to be merged.
LEMMA TermSound ==
  ASSUME NEW g, NEW h, NEW W, NEW term \in TermType, NEW uses, Sound(g, W, {}),
         TermSet(g, h, term, uses), Len(Block(g).term.targets) = 0,
         \A i \in 1 .. Len(term.ops) : Defined(g.current, term.ops[i], Len(Block(g).instrs)),
         term.id # "NONE", TermShape(Block(h))
  PROVE  /\ Sound(h, W, TargetsOf(term))
         /\ AllUnique(g) => AllUnique(h)
         /\ \A r : Ranked(g, r) => Ranked(h, r)
         /\ \A fs, r : Stacked(g, fs, r) => Stacked(h, fs, r)
         /\ \A fs : LoopsBack(g, fs) => LoopsBack(h, fs)
         /\ \A b \in 1 .. Len(g.blocks) : h.blocks[b].has_vars = g.blocks[b].has_vars
<1>. DEFINE c == g.current
            bs == g.blocks
            cs == h.blocks
<1>1. /\ g \in IRType /\ h \in IRType /\ h.current = c /\ h.last = g.last /\ Len(cs) = Len(bs)
      /\ c \in 1 .. Len(bs) /\ W \subseteq 1 .. Len(bs) /\ c \notin W
      /\ Block(g) = bs[c] /\ Block(h) = cs[c]
  BY DEF Sound, TermSet, WithBlocks, Block
<1>2. \A b \in 1 .. Len(bs) : bs[b] \in BlockType /\ cs[b] \in BlockType
  BY <1>1, FieldsOfIR DEF IRFields
<1>3. \A b \in 1 .. Len(bs) : BlockSound(b, bs[b])
  BY DEF Sound
<1>4. ASSUME NEW b \in 1 .. Len(bs), b # c
      PROVE  /\ Grows(bs[b], cs[b]) /\ BlockSound(b, cs[b])
             /\ (Waiting(bs[b]) => Waiting(cs[b])) /\ (Unique(bs[b]) => Unique(cs[b]))
             /\ cs[b].has_vars = bs[b].has_vars /\ cs[b].vars = bs[b].vars
             /\ Enabled(cs[b]) = Enabled(bs[b])
             /\ \A i \in Enabled(bs[b]) : cs[b].instrs[i].name = bs[b].instrs[i].name
  <2>1. SameBlock(bs[b], cs[b])
    BY <1>4 DEF TermSet
  <2>2. Enabled(bs[b]) \subseteq 1 .. Len(bs[b].instrs)
    BY <1>2, EnabledFinite
  <2>3. QED
    BY <1>2, <1>3, <2>1, <2>2, SameBecomes DEF SameBlock, SameInstrs, SameInstr, SameRest
<1>5. /\ SameInstrs(bs[c].instrs, cs[c].instrs) /\ cs[c].num_params = bs[c].num_params
      /\ cs[c].has_vars = bs[c].has_vars /\ cs[c].vars = bs[c].vars
      /\ cs[c].prev = bs[c].prev /\ cs[c].next = bs[c].next /\ cs[c].term = term
  BY <1>1 DEF TermSet
<1>6. /\ Len(cs[c].instrs) = Len(bs[c].instrs)
      /\ \A i \in 1 .. Len(bs[c].instrs) : SameInstr(bs[c].instrs[i], cs[c].instrs[i])
  BY <1>5 DEF SameInstrs
<1>7. /\ Params(cs[c]) = Params(bs[c]) /\ Params(bs[c]) \subseteq 1 .. Len(bs[c].instrs)
  BY <1>1, <1>2, <1>6, SameParameters, EnabledFinite DEF SameInstr
<1>8. /\ Enabled(cs[c]) = Enabled(bs[c])
      /\ \A i \in Enabled(bs[c]) : cs[c].instrs[i].name = bs[c].instrs[i].name
  BY <1>6, <1>7 DEF Enabled, SameInstr
<1>9. BlockSound(c, cs[c])
  <2>1. BlockSound(c, bs[c])
    BY <1>1, <1>3
  <2>2. LocalBlock(c, cs[c])
    <3>1. \A i \in 1 .. Len(bs[c].instrs) :
            /\ cs[c].instrs[i].id = bs[c].instrs[i].id /\ cs[c].instrs[i].ops = bs[c].instrs[i].ops
      BY <1>6 DEF SameInstr
    <3>2. LocalBlock(c, bs[c])
      BY <2>1 DEF BlockSound
    <3>3. \A i \in 1 .. Len(term.ops) : Defined(c, term.ops[i], Len(bs[c].instrs))
      BY <1>1
    <3>. HIDE DEF bs, cs, c
    <3>4. \A i \in 1 .. Len(cs[c].instrs) : \A j \in 1 .. Len(cs[c].instrs[i].ops) :
            Defined(c, cs[c].instrs[i].ops[j],
                    IF cs[c].instrs[i].id = "CALL" /\ j > 1 THEN Len(cs[c].instrs) ELSE i - 1)
      BY <1>6, <3>1, <3>2 DEF LocalBlock
    <3>5. \A i \in 1 .. Len(cs[c].vars) : Defined(c, cs[c].vars[i].val, Len(cs[c].instrs))
      BY <1>5, <1>6, <3>2 DEF LocalBlock
    <3>6. \A i \in 1 .. Len(cs[c].term.ops) : Defined(c, cs[c].term.ops[i], Len(cs[c].instrs))
      BY <1>5, <1>6, <3>3
    <3>7. QED
      BY <3>4, <3>5, <3>6 DEF LocalBlock
  <2>3. Assignments(cs[c])
    <3>1. \A i \in 1 .. Len(bs[c].instrs) :
            /\ cs[c].instrs[i].id = bs[c].instrs[i].id /\ cs[c].instrs[i].ops = bs[c].instrs[i].ops
      BY <1>6 DEF SameInstr
    <3>2. Assignments(bs[c])
      BY <2>1 DEF BlockSound
    <3>. HIDE DEF bs, cs, c
    <3>3. QED
      BY <1>6, <3>1, <3>2 DEF Assignments
  <2>4. cs[c].num_params = Cardinality(Enabled(cs[c])) /\ Declared(cs[c])
    <3>1. bs[c].num_params = Cardinality(Enabled(bs[c])) /\ Declared(bs[c])
      BY <2>1 DEF BlockSound
    <3>. HIDE DEF bs, cs, c
    <3>2. QED
      BY <1>5, <1>8, <3>1 DEF Declared
  <2>5. TermShape(cs[c])
    BY <1>1, <1>5
  <2>6. QED
    BY <2>2, <2>3, <2>4, <2>5 DEF BlockSound
<1>10. \A b \in 1 .. Len(bs) :
         /\ cs[b].has_vars = bs[b].has_vars /\ cs[b].vars = bs[b].vars
         /\ Enabled(cs[b]) = Enabled(bs[b])
         /\ \A i \in Enabled(bs[b]) : cs[b].instrs[i].name = bs[b].instrs[i].name
         /\ cs[b].prev = bs[b].prev /\ cs[b].next = bs[b].next
         /\ Unique(bs[b]) => Unique(cs[b])
         /\ BlockSound(b, cs[b])
  <2>1. Unique(bs[c]) => Unique(cs[c])
    BY <1>8 DEF Unique
  <2>2. QED
    BY <1>4, <1>5, <1>8, <1>9, <2>1 DEF Grows
<1>11. \A b \in 1 .. Len(bs) :
         b # c => cs[b].term.targets = bs[b].term.targets /\ cs[b].term.id = bs[b].term.id
  BY <1>4 DEF Grows
<1>12. EdgesSound(cs, c, TargetsOf(term))
  <2>1. ASSUME NEW p \in 1 .. Len(bs), NEW k \in 1 .. Len(cs[p].term.targets)
        PROVE  \/ EdgeSound(cs, p, cs[p].term.targets[k])
               \/ p = c /\ cs[p].term.targets[k] \in TargetsOf(term)
    <3>1. CASE p = c
      BY <1>5, <2>1, <3>1 DEF TargetsOf
    <3>2. CASE p # c
      <4>1. cs[p].term.targets = bs[p].term.targets
        BY <1>11, <3>2
      <4>2. PICK t : t = bs[p].term.targets[k] /\ EdgeSound(bs, p, t)
        BY <2>1, <3>2, <4>1 DEF Sound, EdgesSound
      <4>3. t \in 1 .. Len(bs)
        BY <4>2 DEF EdgeSound
      <4>4. /\ cs[p].has_vars = bs[p].has_vars /\ cs[p].vars = bs[p].vars
            /\ cs[t].has_vars = bs[t].has_vars /\ Enabled(cs[t]) = Enabled(bs[t])
            /\ \A i \in Enabled(bs[t]) : cs[t].instrs[i].name = bs[t].instrs[i].name
        BY <1>10, <2>1, <4>3
      <4>. HIDE DEF cs, bs
      <4>5. EdgeSound(cs, p, t)
        BY <1>1, <4>2, <4>3, <4>4 DEF EdgeSound
      <4>6. QED
        BY <4>1, <4>2, <4>5
    <3>3. QED
      BY <3>1, <3>2
  <2>2. QED
    BY <1>1, <2>1 DEF EdgesSound
<1>13. Sound(h, W, TargetsOf(term))
  <2>1. \A b \in W : Waiting(cs[b])
    BY <1>1, <1>4 DEF Sound
  <2>2. \A b \in 1 .. Len(bs) : cs[b].term.id = "NONE" => b = c \/ b \in W
    BY <1>11 DEF Sound
  <2>3. QED
    BY <1>1, <1>10, <1>12, <2>1, <2>2 DEF Sound
<1>14. AllUnique(g) => AllUnique(h)
  BY <1>1, <1>10 DEF AllUnique
<1>15. ASSUME NEW r, Ranked(g, r) PROVE Ranked(h, r)
  <2>1. ASSUME NEW b \in 1 .. Len(bs) PROVE FromAhead(cs, r, b)
    <3>1. SUFFICES ASSUME cs[b].has_vars
                   PROVE  \E q \in 1 .. Len(cs) : BranchesTo(cs, q, b) /\ r[q] < r[b]
      BY DEF FromAhead
    <3>2. PICK q \in 1 .. Len(bs) : BranchesTo(bs, q, b) /\ r[q] < r[b]
      BY <1>10, <1>15, <3>1 DEF Ranked, FromAhead
    <3>3. q # c
      BY <1>1, <3>2 DEF BranchesTo
    <3>4. BranchesTo(cs, q, b)
      BY <1>11, <3>2, <3>3 DEF BranchesTo
    <3>5. QED
      BY <1>1, <3>2, <3>4
  <2>2. \A b \in 1 .. Len(bs) : Neighbours(cs, r, b)
    <3>1. \A b \in 1 .. Len(bs) : cs[b].prev = bs[b].prev /\ cs[b].next = bs[b].next
      BY <1>10
    <3>2. \A b \in 1 .. Len(bs) : Neighbours(bs, r, b)
      BY <1>15 DEF Ranked
    <3>3. ASSUME NEW b \in 1 .. Len(bs) PROVE Neighbours(cs, r, b)
      <4>1. Neighbours(bs, r, b) /\ cs[b].prev = bs[b].prev /\ cs[b].next = bs[b].next
        BY <3>1, <3>2
      <4>2. Len(cs) = Len(bs)
        BY <1>1
      <4>. HIDE DEF bs, cs
      <4>3. QED
        BY <4>1, <4>2 DEF Neighbours
    <3>4. QED
      BY <3>3
  <2>3. QED
    BY <1>1, <1>15, <2>1, <2>2 DEF Ranked
<1>16. ASSUME NEW fs, NEW r, Stacked(g, fs, r) PROVE Stacked(h, fs, r)
  BY <1>1, <1>16 DEF Stacked
<1>17. ASSUME NEW fs, LoopsBack(g, fs) PROVE LoopsBack(h, fs)
  <2>1. ASSUME NEW i \in 1 .. Len(fs), fs[i].kind = "while"
        PROVE  /\ fs[i].cond \in 1 .. Len(cs) /\ cs[fs[i].cond].has_vars
               /\ cs[fs[i].cond].term.id = "CBRANCH"
    <3>1. /\ fs[i].cond \in 1 .. Len(bs) /\ bs[fs[i].cond].has_vars
          /\ bs[fs[i].cond].term.id = "CBRANCH"
      BY <1>17, <2>1 DEF LoopsBack
    <3>2. fs[i].cond # c
      BY <1>1, <1>3, <3>1 DEF BlockSound, TermShape
    <3>3. QED
      BY <1>1, <1>10, <1>11, <3>1, <3>2
  <2>2. QED
    BY <2>1 DEF LoopsBack
<1>18. QED
  BY <1>10, <1>13, <1>14, <1>15, <1>16, <1>17

\* Only block t comes to have its parameters.
OthersKeep(g, h, t) ==
  \A b \in 1 .. Len(g.blocks) : b # t => h.blocks[b].has_vars = g.blocks[b].has_vars

\* The parameters of a target meet the arguments.
LEMMA MergeSound ==
  ASSUME NEW g, NEW h, NEW W, NEW O, NEW t \in 1 .. Len(g.blocks), Sound(g, W, O),
         AfterMerge(g, h, t), t # g.current, g.blocks[t].has_vars \/ t \in W
  PROVE  /\ Grown(g, h)
         /\ Sound(h, W, O \ {t})
         /\ AllUnique(g) => AllUnique(h)
         /\ OthersKeep(g, h, t)
<1>. DEFINE c == g.current
            bs == g.blocks
            cs == h.blocks
            vs == bs[c].vars
<1>1. /\ g \in IRType /\ h \in IRType /\ h.current = c /\ h.last = g.last /\ Len(cs) = Len(bs)
      /\ c \in 1 .. Len(bs)
      /\ \A b \in 1 .. Len(bs) : b # t => SameBlock(bs[b], cs[b])
      /\ ~bs[t].has_vars => Opened(bs[t], cs[t], vs)
      /\ bs[t].has_vars => Reduced(bs[t], cs[t], vs)
  BY DEF Sound, AfterMerge, MergedBlocks, WithBlocks
<1>2. \A b \in 1 .. Len(bs) : bs[b] \in BlockType /\ cs[b] \in BlockType
  BY <1>1, FieldsOfIR DEF IRFields
<1>3. \A b \in 1 .. Len(bs) : BlockSound(b, bs[b])
  BY DEF Sound
<1>4. /\ vs \in Seq(VarType)
      /\ \A i, j \in 1 .. Len(vs) : vs[i].name = vs[j].name => i = j
  <2>1. bs[c] \in BlockType /\ Declared(bs[c])
    BY <1>1, <1>2, <1>3 DEF BlockSound
  <2>2. QED
    BY <2>1, BlockFields DEF FieldsTyped, Declared
<1>5. ASSUME NEW b \in 1 .. Len(bs), b # t
      PROVE  /\ Grows(bs[b], cs[b]) /\ BlockSound(b, cs[b])
             /\ (Waiting(bs[b]) => Waiting(cs[b])) /\ (Unique(bs[b]) => Unique(cs[b]))
             /\ cs[b].has_vars = bs[b].has_vars
  BY <1>1, <1>2, <1>3, <1>5, SameBecomes DEF SameBlock, SameRest
<1>6. /\ Grows(bs[t], cs[t]) /\ BlockSound(t, cs[t])
      /\ (Waiting(bs[t]) => Waiting(cs[t])) /\ (Unique(bs[t]) => Unique(cs[t]))
      /\ \A i \in Enabled(cs[t]) : cs[t].instrs[i].name \in NamesIn(vs)
      /\ cs[t].has_vars
  <2>1. bs[t] \in BlockType /\ cs[t] \in BlockType /\ BlockSound(t, bs[t])
    BY <1>2, <1>3
  <2>2. CASE bs[t].has_vars
    <3>1. Reduced(bs[t], cs[t], vs)
      BY <1>1, <2>2
    <3>. HIDE DEF vs, bs, cs
    <3>2. cs[t].has_vars
      BY <2>2, <3>1 DEF Reduced
    <3>3. QED
      BY <2>1, <2>2, <3>1, <3>2, ReducedBecomes
  <2>3. CASE ~bs[t].has_vars
    <3>1. Opened(bs[t], cs[t], vs) /\ Waiting(bs[t])
      BY <1>1, <2>3 DEF Sound
    <3>. HIDE DEF vs, bs, cs
    <3>2. QED
      BY <1>4, <2>1, <2>3, <3>1, OpenedBecomes, NullIsNoName DEF Opened
  <2>4. QED
    BY <2>2, <2>3
<1>7. Grown(g, h)
  BY <1>1, <1>5, <1>6 DEF Grown
<1>8. Sound(h, W, O)
  BY <1>7, GrownSound
<1>9. EdgeSound(cs, c, t)
  BY <1>1, <1>6 DEF SameBlock, SameRest, EdgeSound
<1>10. EdgesSound(cs, c, O \ {t})
  <2>1. EdgesSound(cs, c, O)
    BY <1>1, <1>8 DEF Sound
  <2>2. ASSUME NEW p \in 1 .. Len(cs), NEW k \in 1 .. Len(cs[p].term.targets)
        PROVE  \/ EdgeSound(cs, p, cs[p].term.targets[k])
               \/ p = c /\ cs[p].term.targets[k] \in O \ {t}
    BY <1>9, <2>1, <2>2 DEF EdgesSound
  <2>3. QED
    BY <2>2 DEF EdgesSound
<1>11. Sound(h, W, O \ {t})
  BY <1>1, <1>8, <1>10 DEF Sound
<1>12. AllUnique(g) => AllUnique(h)
  BY <1>1, <1>5, <1>6 DEF AllUnique
<1>13. OthersKeep(g, h, t)
  BY <1>5 DEF OthersKeep
<1>14. QED
  BY <1>7, <1>11, <1>12, <1>13

-----------------------------------------------------------------------------
(***************************************************************************)
(* The counts cover the uses.                                              *)
(***************************************************************************)
Pairs(S, f) == UNION {{s} \X f[s] : s \in S}
LEMMA PairsFinite ==
  ASSUME NEW S, IsFiniteSet(S), NEW f, \A s \in S : IsFiniteSet(f[s])
  PROVE  IsFiniteSet(Pairs(S, f))
<1>. DEFINE R == {{s} \X f[s] : s \in S}
            F == [s \in S |-> {s} \X f[s]]
<1>1. F \in Surjection(S, R)
  BY DEF Surjection
<1>2. IsFiniteSet(R)
  BY <1>1, FS_Surjection
<1>3. ASSUME NEW T \in R PROVE IsFiniteSet(T)
  <2>1. PICK s \in S : T = {s} \X f[s]
    OBVIOUS
  <2>2. IsFiniteSet({s})
    BY FS_Singleton
  <2>3. QED
    BY <2>1, <2>2, FS_Product
<1>. HIDE DEF R
<1>4. IsFiniteSet(UNION R)
  BY <1>2, <1>3, FS_UNION
<1>5. QED
  BY <1>4 DEF R, Pairs

IsOperand(x, v, i, j) ==
  /\ i \in 1 .. Len(x.instrs) /\ j \in 1 .. Len(x.instrs[i].ops)
  /\ x.instrs[i].ops[j] = v
  /\ ~(x.instrs[i].id = "CALL" /\ j = 1)

LEMMA OperandsAre ==
  ASSUME NEW x \in BlockType, NEW v
  PROVE  /\ IsFiniteSet(OperandsIn(x, v)) /\ Cardinality(OperandsIn(x, v)) \in Nat
         /\ \A u \in OperandsIn(x, v) : \E i, j : u = <<i, j>> /\ IsOperand(x, v, i, j)
         /\ \A i, j : IsOperand(x, v, i, j) => <<i, j>> \in OperandsIn(x, v)
<1>1. PICK is \in Seq(InstrType) : is = x.instrs
  BY BlockFields DEF FieldsTyped
<1>2. DOMAIN is = 1 .. Len(is) /\ Len(is) \in Nat
  OBVIOUS
<1>3. \A i \in 1 .. Len(is) : DOMAIN is[i].ops = 1 .. Len(is[i].ops) /\ Len(is[i].ops) \in Nat
  <2>1. TAKE i \in 1 .. Len(is)
  <2>2. is[i] \in InstrType
    OBVIOUS
  <2>3. is[i].ops \in Seq(Value)
    BY <2>2 DEF InstrType
  <2>4. QED
    BY <2>3
<1>. DEFINE f == [i \in 1 .. Len(is) |-> DOMAIN is[i].ops]
            all == Pairs(1 .. Len(is), f)
            set == UNION {{i} \X DOMAIN is[i].ops : i \in DOMAIN is}
<1>4. IsFiniteSet(all)
  <2>1. IsFiniteSet(1 .. Len(is))
    BY <1>2, FS_Interval
  <2>2. ASSUME NEW i \in 1 .. Len(is) PROVE IsFiniteSet(f[i])
    <3>1. PICK n \in Nat : f[i] = 1 .. n
      BY <1>3
    <3>. HIDE DEF f
    <3>2. QED
      BY <3>1, FS_Interval
  <2>. HIDE DEF f
  <2>3. QED
    BY <2>1, <2>2, PairsFinite
<1>5. all = set
  BY <1>2 DEF Pairs
<1>6. OperandsIn(x, v) = {u \in set : is[u[1]].ops[u[2]] = v /\ ~(is[u[1]].id = "CALL" /\ u[2] = 1)}
  BY <1>1 DEF OperandsIn
<1>7. IsFiniteSet(OperandsIn(x, v))
  BY <1>4, <1>5, <1>6, FS_Subset
<1>8. Cardinality(OperandsIn(x, v)) \in Nat
  BY <1>7, FS_CardinalityType
<1>9. ASSUME NEW u \in OperandsIn(x, v)
      PROVE  \E i, j : u = <<i, j>> /\ IsOperand(x, v, i, j)
  BY <1>1, <1>2, <1>3, <1>6 DEF IsOperand
<1>10. ASSUME NEW i, NEW j, IsOperand(x, v, i, j)
       PROVE  <<i, j>> \in OperandsIn(x, v)
  <2>1. i \in 1 .. Len(is) /\ j \in DOMAIN is[i].ops
    BY <1>1, <1>3, <1>10 DEF IsOperand
  <2>2. <<i, j>> \in set
    BY <1>2, <2>1
  <2>3. QED
    BY <1>1, <1>6, <1>10, <2>2 DEF IsOperand
<1>11. QED
  BY <1>7, <1>8, <1>9, <1>10

LEMMA ArgumentsAre ==
  ASSUME NEW blocks \in Seq(BlockType), NEW T \in SUBSET (1 .. Len(blocks)), NEW vs, NEW v
  PROVE  /\ IsFiniteSet(ArgumentsIn(blocks, T, vs, v))
         /\ Cardinality(ArgumentsIn(blocks, T, vs, v)) \in Nat
<1>. DEFINE f == [t \in T |-> Enabled(blocks[t])]
            all == Pairs(T, f)
            set == UNION {{t} \X Enabled(blocks[t]) : t \in T}
<1>1. IsFiniteSet(T)
  <2>1. PICK n \in Nat : n = Len(blocks)
    OBVIOUS
  <2>2. IsFiniteSet(1 .. n)
    BY FS_Interval
  <2>3. T \in SUBSET (1 .. n)
    BY <2>1
  <2>4. QED
    BY <2>2, <2>3, FS_Subset
<1>2. ASSUME NEW t \in T PROVE IsFiniteSet(f[t])
  BY EnabledFinite
<1>3. all = set
  BY DEF Pairs
<1>. HIDE DEF f
<1>4. IsFiniteSet(all)
  BY <1>1, <1>2, PairsFinite
<1>5. ArgumentsIn(blocks, T, vs, v) \in SUBSET set
  BY DEF ArgumentsIn
<1>6. IsFiniteSet(ArgumentsIn(blocks, T, vs, v))
  BY <1>3, <1>4, <1>5, FS_Subset
<1>7. QED
  BY <1>6, FS_CardinalityType

LEMMA NoArguments ==
  ASSUME NEW blocks, NEW vs, NEW v
  PROVE  Cardinality(ArgumentsIn(blocks, {}, vs, v)) = 0
<1>1. ArgumentsIn(blocks, {}, vs, v) = {}
  BY DEF ArgumentsIn
<1>2. QED
  BY <1>1, FS_EmptySet

LEMMA OwnUsesCount ==
  ASSUME NEW x \in BlockType, NEW v
  PROVE  /\ Times(x.term.ops, v) \in Nat /\ OwnUses(x, v) \in Nat
         /\ Cardinality(OperandsIn(x, v)) \in Nat
<1>1. PICK os \in Seq(Value) : os = x.term.ops
  BY BlockFields DEF FieldsTyped
<1>2. Len(os) \in Nat /\ DOMAIN os = 1 .. Len(os)
  OBVIOUS
<1>3. Times(os, v) \in Nat
  BY <1>2, TimesCounts DEF Family
<1>4. QED
  BY <1>1, <1>3, OperandsAre DEF OwnUses

\* A block without arguments covers its own uses.
CoversOwn(b, x) ==
  \A i \in 1 .. Len(x.instrs) : x.instrs[i].refs >= OwnUses(x, <<b, i>>)

LEMMA CoveredAlone ==
  ASSUME NEW blocks \in Seq(BlockType), NEW b \in 1 .. Len(blocks)
  PROVE  /\ CoveredBlock(blocks, {}, b) <=> CoversOwn(b, blocks[b])
         /\ \A T \in SUBSET (1 .. Len(blocks)) :
              CoveredBlock(blocks, T, b) => CoversOwn(b, blocks[b])
<1>1. PICK x \in BlockType : x = blocks[b]
  OBVIOUS
<1>2. \A i \in 1 .. Len(x.instrs) : x.instrs[i].refs \in Int /\ OwnUses(x, <<b, i>>) \in Nat
  <2>1. TAKE i \in 1 .. Len(x.instrs)
  <2>2. x.instrs \in Seq(InstrType)
    BY BlockFields DEF FieldsTyped
  <2>3. x.instrs[i] \in InstrType
    BY <2>2
  <2>4. QED
    BY <2>3, OwnUsesCount DEF InstrType
<1>3. ASSUME NEW i \in 1 .. Len(x.instrs)
      PROVE  UsesOf(blocks, {}, b, i) = OwnUses(x, <<b, i>>)
  BY <1>1, <1>2, NoArguments DEF UsesOf
<1>4. ASSUME NEW T \in SUBSET (1 .. Len(blocks)), NEW i \in 1 .. Len(x.instrs)
      PROVE  UsesOf(blocks, T, b, i) >= OwnUses(x, <<b, i>>) /\ UsesOf(blocks, T, b, i) \in Nat
  <2>1. Cardinality(ArgumentsIn(blocks, T, x.vars, <<b, i>>)) \in Nat
    BY ArgumentsAre
  <2>2. QED
    BY <1>1, <1>2, <2>1 DEF UsesOf
<1>5. CoveredBlock(blocks, {}, b) <=> CoversOwn(b, blocks[b])
  BY <1>1, <1>3 DEF CoveredBlock, CoversOwn
<1>6. ASSUME NEW T \in SUBSET (1 .. Len(blocks)), CoveredBlock(blocks, T, b)
      PROVE  CoversOwn(b, blocks[b])
  <2>1. ASSUME NEW i \in 1 .. Len(x.instrs) PROVE x.instrs[i].refs >= OwnUses(x, <<b, i>>)
    <3>1. x.instrs[i].refs >= UsesOf(blocks, T, b, i)
      BY <1>1, <1>6 DEF CoveredBlock
    <3>2. QED
      BY <1>2, <1>4, <3>1
  <2>2. QED
    BY <1>1, <2>1 DEF CoversOwn
<1>7. QED
  BY <1>5, <1>6

\* The same instructions with at least the counts.
AtLeast(x, y) ==
  /\ Len(y.instrs) = Len(x.instrs)
  /\ \A i \in 1 .. Len(x.instrs) :
       /\ y.instrs[i].id = x.instrs[i].id /\ y.instrs[i].ops = x.instrs[i].ops
       /\ y.instrs[i].refs >= x.instrs[i].refs

LEMMA OperandsSame ==
  ASSUME NEW x \in BlockType, NEW y \in BlockType, AtLeast(x, y), NEW v
  PROVE  OperandsIn(y, v) = OperandsIn(x, v)
<1>1. ASSUME NEW i, NEW j PROVE IsOperand(x, v, i, j) <=> IsOperand(y, v, i, j)
  BY DEF IsOperand, AtLeast
<1>2. ASSUME NEW u \in OperandsIn(x, v) PROVE u \in OperandsIn(y, v)
  BY <1>1, OperandsAre
<1>3. ASSUME NEW u \in OperandsIn(y, v) PROVE u \in OperandsIn(x, v)
  BY <1>1, OperandsAre
<1>4. QED
  BY <1>2, <1>3

\* No more parameters.
Fewer(x, y) ==
  /\ Enabled(y) \subseteq Enabled(x)
  /\ \A i \in Enabled(y) : y.instrs[i].name = x.instrs[i].name

LEMMA StaysCovered ==
  ASSUME NEW blocks \in Seq(BlockType), NEW result \in Seq(BlockType),
         NEW b \in 1 .. Len(blocks), b \in 1 .. Len(result),
         NEW T \in SUBSET (1 .. Len(blocks)), NEW U \in SUBSET T, U \in SUBSET (1 .. Len(result)),
         CoveredBlock(blocks, T, b), AtLeast(blocks[b], result[b]),
         result[b].term.ops = blocks[b].term.ops, result[b].vars = blocks[b].vars,
         \A t \in U : Fewer(blocks[t], result[t])
  PROVE  CoveredBlock(result, U, b)
<1>1. PICK x \in BlockType, y \in BlockType : x = blocks[b] /\ y = result[b]
  OBVIOUS
<1>2. AtLeast(x, y) /\ y.term.ops = x.term.ops /\ y.vars = x.vars
  BY <1>1
<1>3. ASSUME NEW i \in 1 .. Len(y.instrs)
      PROVE  y.instrs[i].refs >= UsesOf(result, U, b, i)
  <2>. DEFINE v == <<b, i>>
              A == ArgumentsIn(blocks, T, x.vars, v)
              B == ArgumentsIn(result, U, x.vars, v)
  <2>1. IsFiniteSet(A) /\ Cardinality(A) \in Nat /\ Cardinality(B) \in Nat
    BY ArgumentsAre
  <2>2. B \in SUBSET A
    <3>1. ASSUME NEW u \in B PROVE u \in A
      <4>1. PICK t \in U : u \in {t} \X Enabled(result[t])
        BY DEF ArgumentsIn
      <4>2. PICK j \in Enabled(result[t]) : u = <<t, j>>
        BY <4>1
      <4>3. /\ j \in Enabled(blocks[t])
            /\ result[t].instrs[j].name = blocks[t].instrs[j].name
        BY <4>2 DEF Fewer
      <4>4. /\ result[t].instrs[j].name \in NamesIn(x.vars)
            /\ ValueIn(x.vars, result[t].instrs[j].name) = v
        BY <4>2 DEF ArgumentsIn
      <4>5. u \in UNION {{s} \X Enabled(blocks[s]) : s \in T}
        BY <4>2, <4>3
      <4>6. u[1] = t /\ u[2] = j
        BY <4>2
      <4>7. QED
        BY <4>3, <4>4, <4>5, <4>6 DEF ArgumentsIn
    <3>2. QED
      BY <3>1
  <2>. HIDE DEF A, B
  <2>3. Cardinality(B) <= Cardinality(A)
    BY <2>1, <2>2, FS_Subset
  <2>4. OwnUses(y, v) = OwnUses(x, v) /\ OwnUses(x, v) \in Nat
    BY <1>2, OperandsSame, OwnUsesCount DEF OwnUses
  <2>5. PICK m \in Int, n \in Int : m = x.instrs[i].refs /\ n = y.instrs[i].refs
    <3>1. x.instrs \in Seq(InstrType) /\ y.instrs \in Seq(InstrType) /\ i \in 1 .. Len(x.instrs)
      BY <1>2, BlockFields DEF FieldsTyped, AtLeast
    <3>2. x.instrs[i] \in InstrType /\ y.instrs[i] \in InstrType
      BY <3>1
    <3>3. QED
      BY <3>2 DEF InstrType
  <2>6. m >= OwnUses(x, v) + Cardinality(A)
    BY <1>1, <1>2, <2>5 DEF CoveredBlock, UsesOf, AtLeast, A
  <2>7. n >= m
    BY <1>2, <2>5 DEF AtLeast
  <2>8. UsesOf(result, U, b, i) = OwnUses(y, v) + Cardinality(B)
    BY <1>1, <1>2 DEF UsesOf, B
  <2>9. PICK p \in Nat, q \in Nat, o \in Nat :
          p = Cardinality(A) /\ q = Cardinality(B) /\ o = OwnUses(x, v)
    BY <2>1, <2>4
  <2>10. q <= p /\ m >= o + p /\ n >= m /\ UsesOf(result, U, b, i) = o + q
    BY <2>3, <2>4, <2>6, <2>7, <2>8, <2>9
  <2>11. n >= o + q
    BY <2>10
  <2>12. QED
    BY <2>5, <2>10, <2>11
<1>4. QED
  BY <1>1, <1>3 DEF CoveredBlock

\* What is counted when an instruction is added: its operands, but not a callee.
Paid(instr, uses) ==
  \/ uses = instr.ops
  \/ instr.id = "CALL" /\ Len(instr.ops) = 1 /\ uses = << >>

LEMMA EmitCovers ==
  ASSUME NEW x \in BlockType, NEW y \in BlockType, NEW b, NEW instr \in InstrType,
         Extended(x, y, instr), Usable(b, x, instr), BlockSound(b, x), CoversOwn(b, x),
         NEW uses, Paid(instr, uses), instr.refs >= 0, Family(uses),
         \A i \in 1 .. Len(x.instrs) :
           y.instrs[i].refs = x.instrs[i].refs + Times(uses, <<b, i>>)
  PROVE  CoversOwn(b, y)
<1>1. PICK n \in Nat : n = Len(x.instrs) /\ Len(y.instrs) = n + 1
  BY BlockFields DEF FieldsTyped, Extended
<1>2. /\ \A i \in 1 .. n : SameInstr(x.instrs[i], y.instrs[i])
      /\ y.instrs[n + 1] = instr /\ y.term = x.term
  BY <1>1 DEF Extended
<1>3. x.instrs \in Seq(InstrType) /\ instr.refs \in Int /\ instr.ops \in Seq(Value)
  BY BlockFields DEF FieldsTyped, InstrType
<1>4. PICK os \in Seq(Value) : os = instr.ops
  BY <1>3
<1>5. PICK l \in Nat : l = Len(os) /\ DOMAIN os = 1 .. l
  OBVIOUS
<1>. DEFINE N(v) == {j \in 1 .. l : os[j] = v /\ ~(instr.id = "CALL" /\ j = 1)}
<1>6. ASSUME NEW v
      PROVE  /\ IsFiniteSet(N(v)) /\ Cardinality(N(v)) \in Nat /\ Times(uses, v) \in Nat
             /\ Cardinality(N(v)) <= Times(uses, v)
  <2>1. IsFiniteSet(1 .. l) /\ N(v) \in SUBSET (1 .. l)
    BY FS_Interval
  <2>2. IsFiniteSet(N(v)) /\ Cardinality(N(v)) \in Nat
    BY <2>1, FS_Subset, FS_CardinalityType
  <2>3. Times(uses, v) \in Nat
    BY TimesCounts
  <2>4. CASE uses = instr.ops
    <3>. DEFINE S == {j \in DOMAIN os : os[j] = v}
    <3>1. S \in SUBSET (1 .. l) /\ N(v) \in SUBSET S
      BY <1>5
    <3>2. IsFiniteSet(S)
      BY <2>1, <3>1, FS_Subset
    <3>3. Cardinality(N(v)) <= Cardinality(S)
      BY <3>1, <3>2, FS_Subset
    <3>4. Times(uses, v) = Cardinality(S)
      BY <1>4, <2>4 DEF Times
    <3>5. QED
      BY <2>2, <2>3, <3>3, <3>4
  <2>5. CASE instr.id = "CALL" /\ Len(instr.ops) = 1
    BY <1>4, <1>5, <2>2, <2>3, <2>5, FS_EmptySet
  <2>6. QED
    BY <2>4, <2>5 DEF Paid
<1>7. ASSUME NEW v, NEW i, NEW j, IsOperand(y, v, i, j)
      PROVE  \/ IsOperand(x, v, i, j)
             \/ i = n + 1 /\ j \in N(v)
  <2>1. i \in 1 .. n + 1
    BY <1>1, <1>7 DEF IsOperand
  <2>2. CASE i = n + 1
    BY <1>2, <1>4, <1>5, <1>7, <2>2 DEF IsOperand
  <2>3. CASE i # n + 1
    <3>1. i \in 1 .. n
      BY <2>1, <2>3
    <3>2. SameInstr(x.instrs[i], y.instrs[i])
      BY <1>2, <3>1
    <3>3. QED
      BY <1>1, <1>7, <3>1, <3>2 DEF IsOperand, SameInstr
  <2>4. QED
    BY <2>2, <2>3
<1>8. ASSUME NEW v
      PROVE  OwnUses(y, v) <= OwnUses(x, v) + Times(uses, v)
  <2>. DEFINE P == OperandsIn(x, v)
              Q == OperandsIn(y, v)
              R == {n + 1} \X N(v)
  <2>1. IsFiniteSet(P) /\ Cardinality(P) \in Nat /\ Cardinality(Q) \in Nat
    BY OperandsAre
  <2>2. IsFiniteSet({n + 1}) /\ Cardinality({n + 1}) = 1
    BY FS_Singleton
  <2>3. PICK card \in Nat : card = Cardinality(N(v)) /\ card <= Times(uses, v) /\ Times(uses, v) \in Nat
    BY <1>6
  <2>4. IsFiniteSet(R) /\ Cardinality(R) = 1 * card
    <3>1. IsFiniteSet(N(v))
      BY <1>6
    <3>. HIDE DEF N
    <3>2. QED
      BY <2>2, <2>3, <3>1, FS_Product
  <2>5. Q \subseteq P \cup R
    <3>1. ASSUME NEW u \in Q PROVE u \in P \cup R
      BY <1>7, OperandsAre
    <3>2. QED
      BY <3>1
  <2>. HIDE DEF P, Q, R, N
  <2>6. /\ IsFiniteSet(P \cup R)
        /\ Cardinality(P \cup R) = Cardinality(P) + Cardinality(R) - Cardinality(P \cap R)
    BY <2>1, <2>4, FS_Union
  <2>7. Cardinality(P \cap R) \in Nat
    BY <2>1, FS_Subset, FS_CardinalityType
  <2>8. Cardinality(Q) <= Cardinality(P \cup R)
    BY <2>5, <2>6, FS_Subset
  <2>9. Cardinality(Q) <= Cardinality(P) + card
    BY <2>1, <2>4, <2>6, <2>7, <2>8
  <2>10. Times(x.term.ops, v) \in Nat
    BY OwnUsesCount
  <2>11. OwnUses(y, v) = Cardinality(Q) + Times(x.term.ops, v)
    BY <1>2 DEF OwnUses, Q
  <2>12. OwnUses(x, v) = Cardinality(P) + Times(x.term.ops, v)
    BY DEF OwnUses, P
  <2>13. QED
    BY <2>1, <2>3, <2>9, <2>10, <2>11, <2>12
<1>9. ASSUME NEW i \in 1 .. n PROVE y.instrs[i].refs >= OwnUses(y, <<b, i>>)
  <2>1. PICK m \in Int : m = x.instrs[i].refs
    <3>1. x.instrs[i] \in InstrType
      BY <1>1, <1>3
    <3>2. QED
      BY <3>1 DEF InstrType
  <2>2. m >= OwnUses(x, <<b, i>>)
    BY <1>1, <2>1 DEF CoversOwn
  <2>3. Times(uses, <<b, i>>) \in Nat /\ OwnUses(x, <<b, i>>) \in Nat /\ OwnUses(y, <<b, i>>) \in Nat
    BY <1>6, OwnUsesCount
  <2>4. y.instrs[i].refs = m + Times(uses, <<b, i>>)
    BY <1>1, <2>1
  <2>5. QED
    BY <1>8, <2>2, <2>3, <2>4
<1>10. y.instrs[n + 1].refs >= OwnUses(y, <<b, n + 1>>)
  <2>. DEFINE v == <<b, n + 1>>
  <2>1. ASSUME NEW end \in Int, end <= n PROVE ~Defined(b, v, end)
    BY <2>1 DEF Defined
  <2>2. /\ \A i \in 1 .. n : \A j \in 1 .. Len(x.instrs[i].ops) :
             Defined(b, x.instrs[i].ops[j],
                     IF x.instrs[i].id = "CALL" /\ j > 1 THEN n ELSE i - 1)
        /\ \A i \in 1 .. Len(x.term.ops) : Defined(b, x.term.ops[i], n)
        /\ \A j \in 1 .. l : Defined(b, os[j], n)
    BY <1>1, <1>4, <1>5 DEF BlockSound, LocalBlock, Usable
  <2>3. \A i, j : ~IsOperand(y, v, i, j)
    <3>1. SUFFICES ASSUME NEW i, NEW j, IsOperand(y, v, i, j) PROVE FALSE
      OBVIOUS
    <3>2. CASE IsOperand(x, v, i, j)
      <4>1. i \in 1 .. n /\ j \in 1 .. Len(x.instrs[i].ops) /\ x.instrs[i].ops[j] = v
        BY <1>1, <3>2 DEF IsOperand
      <4>2. PICK end \in Int : end <= n /\ Defined(b, v, end)
        <5>1. n \in Int /\ i - 1 \in Int /\ i - 1 <= n
          BY <4>1
        <5>2. Defined(b, v, IF x.instrs[i].id = "CALL" /\ j > 1 THEN n ELSE i - 1)
          BY <2>2, <4>1
        <5>3. QED
          BY <5>1, <5>2
      <4>3. QED
        BY <2>1, <4>2
    <3>3. CASE i = n + 1 /\ j \in N(v)
      <4>1. j \in 1 .. l /\ os[j] = v
        BY <3>3
      <4>2. QED
        BY <2>1, <2>2, <4>1, SMTT(20)
    <3>4. QED
      BY <1>7, <3>1, <3>2, <3>3
  <2>4. Cardinality(OperandsIn(y, v)) = 0
    BY <2>3, OperandsAre, FS_EmptySet
  <2>5. Times(y.term.ops, v) = 0
    <3>1. PICK ts \in Seq(Value) : ts = x.term.ops
      BY BlockFields DEF FieldsTyped
    <3>2. DOMAIN ts = 1 .. Len(ts)
      OBVIOUS
    <3>3. {j \in DOMAIN ts : ts[j] = v} = {}
      <4>1. ASSUME NEW j \in 1 .. Len(ts), ts[j] = v PROVE FALSE
        <5>1. Defined(b, v, n)
          BY <2>2, <3>1, <4>1
        <5>2. n \in Int /\ n <= n
          OBVIOUS
        <5>3. QED
          BY <2>1, <5>1, <5>2
      <4>2. QED
        BY <3>2, <4>1
    <3>4. QED
      BY <1>2, <3>1, <3>3, FS_EmptySet DEF Times
  <2>6. QED
    BY <1>2, <1>3, <2>4, <2>5 DEF OwnUses
<1>11. ASSUME NEW i \in 1 .. n + 1 PROVE y.instrs[i].refs >= OwnUses(y, <<b, i>>)
  BY <1>9, <1>10
<1>12. QED
  BY <1>1, <1>11 DEF CoversOwn

LEMMA CountsAre ==
  ASSUME NEW x \in BlockType, NEW i \in 1 .. Len(x.instrs)
  PROVE  x.instrs[i] \in InstrType /\ x.instrs[i].refs \in Int
<1>1. x.instrs \in Seq(InstrType)
  BY BlockFields DEF FieldsTyped
<1>2. x.instrs[i] \in InstrType
  BY <1>1
<1>3. QED
  BY <1>2 DEF InstrType

LEMMA ArgumentCovers ==
  ASSUME NEW x \in BlockType, NEW y \in BlockType, NEW b, NEW value \in Value,
         NEW k \in 1 .. Len(x.instrs), MoreArguments(x, y, k, value), CoversOwn(b, x),
         \A i \in 1 .. Len(x.instrs) :
           y.instrs[i].refs = x.instrs[i].refs + Times(<<value>>, <<b, i>>)
  PROVE  CoversOwn(b, y)
<1>1. PICK m \in Nat : m = Len(x.instrs[k].ops)
  BY CountsAre DEF InstrType
<1>2. ASSUME NEW v, NEW i, NEW j, IsOperand(y, v, i, j)
      PROVE  IsOperand(x, v, i, j) \/ (i = k /\ j = m + 1 /\ value = v)
  <2>1. i \in 1 .. Len(x.instrs)
    BY <1>2 DEF IsOperand, MoreArguments
  <2>2. CASE i # k
    BY <1>2, <2>1, <2>2 DEF IsOperand, MoreArguments, SameInstr
  <2>3. CASE i = k /\ j = m + 1
    BY <1>1, <1>2, <2>3 DEF IsOperand, MoreArguments
  <2>4. CASE i = k /\ j # m + 1
    <3>1. j \in 1 .. m
      <4>1. j \in 1 .. m + 1
        BY <1>1, <1>2, <2>4 DEF IsOperand, MoreArguments
      <4>2. QED
        BY <2>4, <4>1
    <3>2. y.instrs[k].ops[j] = x.instrs[k].ops[j] /\ y.instrs[k].id = x.instrs[k].id
      BY <1>1, <3>1 DEF MoreArguments
    <3>3. QED
      BY <1>1, <1>2, <2>1, <2>4, <3>1, <3>2 DEF IsOperand
  <2>5. QED
    BY <2>2, <2>3, <2>4
<1>3. ASSUME NEW i \in 1 .. Len(y.instrs)
      PROVE  y.instrs[i].refs >= OwnUses(y, <<b, i>>)
  <2>1. i \in 1 .. Len(x.instrs)
    BY DEF MoreArguments
  <2>. DEFINE v == <<b, i>>
              P == OperandsIn(x, v)
              Q == OperandsIn(y, v)
              more == IF value = v THEN 1 ELSE 0
  <2>2. IsFiniteSet(P) /\ Cardinality(P) \in Nat /\ Cardinality(Q) \in Nat
    BY OperandsAre
  <2>3. Cardinality(Q) <= Cardinality(P) + more
    <3>1. CASE value = v
      <4>1. Q \subseteq P \cup {<<k, m + 1>>}
        <5>1. ASSUME NEW u \in Q PROVE u \in P \cup {<<k, m + 1>>}
          BY <1>2, OperandsAre
        <5>2. QED
          BY <5>1
      <4>. HIDE DEF P, Q
      <4>2. IsFiniteSet(P \cup {<<k, m + 1>>}) /\ Cardinality(P \cup {<<k, m + 1>>}) <= Cardinality(P) + 1
        <5>. DEFINE e == <<k, m + 1>>
        <5>. HIDE DEF e
        <5>1. /\ IsFiniteSet(P \cup {e})
              /\ Cardinality(P \cup {e}) = IF e \in P THEN Cardinality(P) ELSE Cardinality(P) + 1
          BY <2>2, FS_AddElement
        <5>2. IsFiniteSet(P \cup {e}) /\ Cardinality(P \cup {e}) <= Cardinality(P) + 1
          BY <2>2, <5>1
        <5>3. QED
          BY <5>2 DEF e
      <4>3. Cardinality(Q) <= Cardinality(P \cup {<<k, m + 1>>})
        BY <4>1, <4>2, FS_Subset
      <4>4. Cardinality(P \cup {<<k, m + 1>>}) \in Nat
        BY <4>2, FS_CardinalityType
      <4>5. QED
        BY <2>2, <3>1, <4>2, <4>3, <4>4
    <3>2. CASE value # v
      <4>1. Q \subseteq P
        <5>1. ASSUME NEW u \in Q PROVE u \in P
          BY <1>2, <3>2, OperandsAre
        <5>2. QED
          BY <5>1
      <4>2. Cardinality(Q) <= Cardinality(P)
        BY <2>2, <4>1, FS_Subset
      <4>. HIDE DEF P, Q
      <4>3. QED
        BY <2>2, <3>2, <4>2
    <3>3. QED
      BY <3>1, <3>2
  <2>4. y.term = x.term /\ Times(x.term.ops, v) \in Nat
    BY OwnUsesCount DEF MoreArguments, SameRest
  <2>5. x.instrs[i].refs \in Int /\ x.instrs[i].refs >= OwnUses(x, v)
    BY <2>1, CountsAre DEF CoversOwn
  <2>6. y.instrs[i].refs = x.instrs[i].refs + more
    BY <2>1, TimesOfOne
  <2>7. /\ OwnUses(x, v) = Cardinality(P) + Times(x.term.ops, v)
        /\ OwnUses(y, v) = Cardinality(Q) + Times(x.term.ops, v)
    BY <2>4 DEF OwnUses
  <2>. HIDE DEF P, Q
  <2>8. PICK p \in Nat, q \in Nat, t \in Nat, c \in Int, d \in {0, 1} :
          /\ p = Cardinality(P) /\ q = Cardinality(Q) /\ t = Times(x.term.ops, v)
          /\ c = x.instrs[i].refs /\ d = more
    BY <2>2, <2>4, <2>5
  <2>9. q <= p + d /\ c >= p + t /\ y.instrs[i].refs = c + d /\ OwnUses(y, v) = q + t
    BY <2>3, <2>5, <2>6, <2>7, <2>8
  <2>10. c + d >= q + t
    BY <2>9
  <2>11. QED
    BY <2>9, <2>10
<1>4. QED
  BY <1>3 DEF CoversOwn

\* A terminator is counted for its operands; the one before had no targets.
LEMMA TermCovers ==
  ASSUME NEW x \in BlockType, NEW y \in BlockType, NEW b, CoversOwn(b, x),
         SameInstrs(x.instrs, y.instrs), Family(y.term.ops),
         \A i \in 1 .. Len(x.instrs) :
           y.instrs[i].refs = x.instrs[i].refs + Times(y.term.ops, <<b, i>>)
  PROVE  CoversOwn(b, y)
<1>1. \A v : Times(y.term.ops, v) \in Nat
  BY TimesCounts
<1>2. \A i \in 1 .. Len(x.instrs) : x.instrs[i].refs \in Int
  BY CountsAre
<1>3. AtLeast(x, y)
  <2>1. ASSUME NEW i \in 1 .. Len(x.instrs) PROVE y.instrs[i].refs >= x.instrs[i].refs
    <3>1. PICK s \in Nat, c \in Int : s = Times(y.term.ops, <<b, i>>) /\ c = x.instrs[i].refs
      BY <1>1, <1>2
    <3>2. y.instrs[i].refs = c + s
      BY <3>1
    <3>3. QED
      BY <3>1, <3>2
  <2>2. QED
    BY <2>1 DEF AtLeast, SameInstrs, SameInstr
<1>4. ASSUME NEW i \in 1 .. Len(y.instrs)
      PROVE  y.instrs[i].refs >= OwnUses(y, <<b, i>>)
  <2>1. i \in 1 .. Len(x.instrs)
    BY <1>3 DEF AtLeast
  <2>. DEFINE v == <<b, i>>
  <2>2. OperandsIn(y, v) = OperandsIn(x, v)
    BY <1>3, OperandsSame
  <2>3. PICK p \in Nat, t \in Nat, s \in Nat, c \in Int :
          /\ p = Cardinality(OperandsIn(x, v)) /\ t = Times(x.term.ops, v)
          /\ s = Times(y.term.ops, v) /\ c = x.instrs[i].refs
    BY <1>1, <1>2, <2>1, OwnUsesCount
  <2>4. c >= p + t
    BY <2>1, <2>3 DEF CoversOwn, OwnUses
  <2>5. y.instrs[i].refs = c + s /\ OwnUses(y, v) = p + s
    BY <2>1, <2>2, <2>3 DEF OwnUses
  <2>6. QED
    BY <2>4, <2>5
<1>5. QED
  BY <1>4 DEF CoversOwn

LEMMA SameCovers ==
  ASSUME NEW x \in BlockType, NEW y \in BlockType, NEW b, CoversOwn(b, x),
         AtLeast(x, y), y.term.ops = x.term.ops
  PROVE  CoversOwn(b, y)
<1>1. ASSUME NEW i \in 1 .. Len(y.instrs)
      PROVE  y.instrs[i].refs >= OwnUses(y, <<b, i>>)
  <2>1. i \in 1 .. Len(x.instrs)
    BY DEF AtLeast
  <2>2. OwnUses(y, <<b, i>>) = OwnUses(x, <<b, i>>)
    BY OperandsSame DEF OwnUses
  <2>3. PICK p \in Nat, c \in Int, d \in Int :
          p = OwnUses(x, <<b, i>>) /\ c = x.instrs[i].refs /\ d = y.instrs[i].refs
    BY <2>1, CountsAre, OwnUsesCount
  <2>4. c >= p /\ d >= c
    BY <2>1, <2>3 DEF CoversOwn, AtLeast
  <2>5. QED
    BY <2>2, <2>3, <2>4
<1>2. QED
  BY <1>1 DEF CoversOwn

\* A first branch to a block that has nothing yet.
LEMMA OpenedCovers ==
  ASSUME NEW x \in BlockType, NEW y \in BlockType, NEW b, NEW vs \in Seq(VarType),
         Opened(x, y, vs), ~x.has_vars, Waiting(x), BlockSound(b, x)
  PROVE  CoversOwn(b, y)
<1>1. PICK n \in Nat : n = Len(vs)
  OBVIOUS
<1>2. Len(x.instrs) = 0 /\ Len(y.instrs) = n
  BY <1>1 DEF Waiting, Opened
<1>3. \A i \in 1 .. n : y.instrs[i].ops = << >> /\ y.instrs[i].refs >= 0
  <2>1. TAKE i \in 1 .. n
  <2>2. Len(x.instrs) + i = i
    BY <1>2
  <2>3. QED
    BY <1>1, <2>2 DEF Opened
<1>4. y.term = x.term /\ Len(x.term.ops) = 0
  BY <1>2, BlockFields DEF FieldsTyped, BlockSound, LocalBlock, Defined, Opened
<1>5. ASSUME NEW i \in 1 .. n PROVE y.instrs[i].refs >= OwnUses(y, <<b, i>>)
  <2>. DEFINE v == <<b, i>>
  <2>1. \A s, j : ~IsOperand(y, v, s, j)
    BY <1>2, <1>3 DEF IsOperand
  <2>2. OperandsIn(y, v) = {}
    BY <2>1, OperandsAre
  <2>3. Cardinality(OperandsIn(y, v)) = 0
    BY <2>2, FS_EmptySet
  <2>4. Times(y.term.ops, v) = 0
    BY <1>4, BlockFields, TimesOfNone DEF FieldsTyped
  <2>5. QED
    BY <1>3, <2>3, <2>4 DEF OwnUses
<1>6. QED
  BY <1>2, <1>5 DEF CoversOwn

LEMMA SettledEdges ==
  ASSUME NEW g, NEW W, NEW O, Sound(g, W, O), NEW b \in 1 .. Len(g.blocks)
  PROVE  /\ \A t \in Settled(g, O, b) : EdgeSound(g.blocks, b, t)
         /\ Settled(g, O, b) \in SUBSET (1 .. Len(g.blocks))
<1>1. ASSUME NEW t \in Settled(g, O, b) PROVE EdgeSound(g.blocks, b, t)
  BY DEF Sound, EdgesSound, Settled, TargetsOf
<1>2. QED
  BY <1>1 DEF EdgeSound

KeepsParameters(g, h) ==
  \A b \in 1 .. Len(g.blocks) : g.blocks[b].has_vars => Fewer(g.blocks[b], h.blocks[b])

LEMMA BlockCovered ==
  ASSUME NEW g, NEW h, NEW W, NEW O, Sound(g, W, O), Covered(g, O),
         h.blocks \in Seq(BlockType), NEW len \in Nat, len = Len(g.blocks),
         1 .. len \subseteq 1 .. Len(h.blocks), KeepsParameters(g, h),
         NEW b \in 1 .. len, AtLeast(g.blocks[b], h.blocks[b]),
         h.blocks[b].term.ops = g.blocks[b].term.ops, h.blocks[b].vars = g.blocks[b].vars,
         NEW U \in SUBSET Settled(g, O, b)
  PROVE  CoveredBlock(h.blocks, U, b)
<1>1. g.blocks \in Seq(BlockType)
  BY FieldsOfIR DEF Sound, IRFields
<1>. DEFINE T == Settled(g, O, b)
<1>2. T \in SUBSET (1 .. len) /\ \A t \in T : EdgeSound(g.blocks, b, t)
  BY SettledEdges
<1>3. \A t \in U : Fewer(g.blocks[t], h.blocks[t])
  BY <1>2 DEF EdgeSound, KeepsParameters
<1>4. CoveredBlock(g.blocks, T, b)
  BY DEF Covered
<1>. HIDE DEF T
<1>5. U \in SUBSET T /\ U \in SUBSET (1 .. Len(h.blocks))
  BY <1>2 DEF T
<1>6. b \in 1 .. Len(h.blocks) /\ b \in 1 .. Len(g.blocks) /\ T \in SUBSET (1 .. Len(g.blocks))
  BY <1>2
<1>. DEFINE bs == g.blocks
            cs == h.blocks
<1>7. /\ bs \in Seq(BlockType) /\ cs \in Seq(BlockType) /\ b \in 1 .. Len(bs)
      /\ b \in 1 .. Len(cs) /\ T \in SUBSET (1 .. Len(bs)) /\ U \in SUBSET T
      /\ U \in SUBSET (1 .. Len(cs)) /\ CoveredBlock(bs, T, b) /\ AtLeast(bs[b], cs[b])
      /\ cs[b].term.ops = bs[b].term.ops /\ cs[b].vars = bs[b].vars
      /\ \A t \in U : Fewer(bs[t], cs[t])
  BY <1>1, <1>3, <1>4, <1>5, <1>6
<1>. HIDE DEF bs, cs
<1>8. CoveredBlock(cs, U, b)
  BY <1>7, StaysCovered
<1>9. QED
  BY <1>8 DEF cs

\* The current block has no arguments yet: what is counted is its own.
OthersStay(g, h) ==
  \A b \in 1 .. Len(g.blocks) :
    b # g.current => /\ AtLeast(g.blocks[b], h.blocks[b])
                     /\ h.blocks[b].term = g.blocks[b].term
                     /\ h.blocks[b].vars = g.blocks[b].vars

LEMMA StepCovers ==
  ASSUME NEW g, NEW h, NEW W, NEW O, NEW U, Sound(g, W, O), Covered(g, O),
         h \in IRType, h.current = g.current, Len(h.blocks) = Len(g.blocks),
         KeepsParameters(g, h), OthersStay(g, h),
         Settled(h, U, g.current) = {}, CoversOwn(g.current, Block(h))
  PROVE  Covered(h, U)
<1>1. /\ g.current \in 1 .. Len(g.blocks) /\ h.blocks \in Seq(BlockType)
      /\ g.blocks \in Seq(BlockType)
  BY FieldsOfIR DEF Sound, IRFields
<1>2. PICK len \in Nat : len = Len(g.blocks)
  BY <1>1
<1>3. CoveredBlock(h.blocks, {}, g.current)
  BY <1>1, CoveredAlone DEF Block
<1>4. ASSUME NEW b \in 1 .. len, b # g.current
      PROVE  CoveredBlock(h.blocks, Settled(h, U, b), b)
  <2>1. /\ AtLeast(g.blocks[b], h.blocks[b]) /\ h.blocks[b].term = g.blocks[b].term
        /\ h.blocks[b].vars = g.blocks[b].vars
    BY <1>2, <1>4 DEF OthersStay
  <2>2. Settled(h, U, b) \in SUBSET Settled(g, O, b)
    BY <1>4, <2>1 DEF Settled
  <2>3. 1 .. len \subseteq 1 .. Len(h.blocks)
    BY <1>2
  <2>. DEFINE V == Settled(h, U, b)
  <2>. HIDE DEF V
  <2>4. V \in SUBSET Settled(g, O, b)
    BY <2>2 DEF V
  <2>5. CoveredBlock(h.blocks, V, b)
    BY <1>1, <1>2, <2>1, <2>3, <2>4, BlockCovered
  <2>6. QED
    BY <2>5 DEF V
<1>5. QED
  BY <1>2, <1>3, <1>4 DEF Covered

LEMMA OpenCovers ==
  ASSUME NEW g, NEW W, Sound(g, W, {}), Covered(g, {})
  PROVE  /\ CoversOwn(g.current, Block(g))
         /\ Open(g) => \A h : h.current = g.current /\ Len(Block(h).term.targets) = 0
                                => Settled(h, {}, g.current) = {}
<1>1. g \in IRType /\ g.current \in 1 .. Len(g.blocks) /\ g.blocks \in Seq(BlockType)
  BY FieldsOfIR DEF Sound, IRFields
<1>2. Settled(g, {}, g.current) \in SUBSET (1 .. Len(g.blocks))
  BY <1>1, SettledEdges
<1>3. CoveredBlock(g.blocks, Settled(g, {}, g.current), g.current)
  BY <1>1 DEF Covered
<1>4. CoversOwn(g.current, Block(g))
  BY <1>1, <1>2, <1>3, CoveredAlone DEF Block
<1>5. ASSUME NEW h, h.current = g.current, Len(Block(h).term.targets) = 0
      PROVE  Settled(h, {}, g.current) = {}
  BY <1>5 DEF Settled, TargetsOf, Block
<1>6. QED
  BY <1>4, <1>5

LEMMA GrownKeepsParameters ==
  ASSUME NEW g, NEW h, Grown(g, h)
  PROVE  KeepsParameters(g, h)
BY DEF Grown, Grows, KeepsParameters, Fewer

LEMMA CountsGrowAtLeast ==
  ASSUME NEW blocks \in Seq(BlockType), NEW result, NEW values, Family(values),
         CountsGrow(blocks, result, values), NEW b \in 1 .. Len(blocks),
         SameInstrs(blocks[b].instrs, result[b].instrs)
  PROVE  AtLeast(blocks[b], result[b])
<1>1. PICK x \in BlockType : x = blocks[b]
  OBVIOUS
<1>2. ASSUME NEW i \in 1 .. Len(x.instrs) PROVE result[b].instrs[i].refs >= x.instrs[i].refs
  <2>1. PICK s \in Nat, c \in Int : s = Times(values, <<b, i>>) /\ c = x.instrs[i].refs
    BY CountsAre, TimesCounts
  <2>2. result[b].instrs[i].refs = c + s
    BY <1>1, <2>1 DEF CountsGrow
  <2>3. QED
    BY <2>1, <2>2
<1>3. QED
  BY <1>1, <1>2 DEF AtLeast, SameInstrs, SameInstr

LEMMA OthersCounted ==
  ASSUME NEW g \in IRType, NEW h, NEW values, Family(values),
         CountsGrow(g.blocks, h.blocks, values),
         \A b \in 1 .. Len(g.blocks) : b # g.current => SameBlock(g.blocks[b], h.blocks[b])
  PROVE  OthersStay(g, h)
<1>1. g.blocks \in Seq(BlockType)
  BY FieldsOfIR DEF IRFields
<1>2. ASSUME NEW b \in 1 .. Len(g.blocks), b # g.current
      PROVE  /\ AtLeast(g.blocks[b], h.blocks[b])
             /\ h.blocks[b].term = g.blocks[b].term /\ h.blocks[b].vars = g.blocks[b].vars
  BY <1>1, <1>2, CountsGrowAtLeast DEF SameBlock, SameRest
<1>3. QED
  BY <1>2 DEF OthersStay

LEMMA CurrentIs ==
  ASSUME NEW g, NEW W, NEW O, Sound(g, W, O)
  PROVE  /\ g \in IRType /\ g.blocks \in Seq(BlockType) /\ g.current \in 1 .. Len(g.blocks)
         /\ Block(g) = g.blocks[g.current] /\ Block(g) \in BlockType
         /\ BlockSound(g.current, Block(g))
<1>1. g \in IRType /\ g.current \in 1 .. Len(g.blocks)
      /\ \A b \in 1 .. Len(g.blocks) : BlockSound(b, g.blocks[b])
  BY DEF Sound
<1>2. g.blocks \in Seq(BlockType)
  BY <1>1, FieldsOfIR DEF IRFields
<1>3. g.blocks[g.current] \in BlockType
  BY <1>1, <1>2
<1>4. QED
  BY <1>1, <1>2, <1>3 DEF Block

LEMMA EmitCovered ==
  ASSUME NEW g, NEW h, NEW W, NEW instr \in InstrType, NEW uses, Sound(g, W, {}), Open(g),
         Covered(g, {}), Emitted(g, h, instr, uses), Usable(g.current, Block(g), instr),
         Paid(instr, uses), instr.refs >= 0, Family(uses), KeepsParameters(g, h)
  PROVE  Covered(h, {})
<1>1. /\ g \in IRType /\ g.blocks \in Seq(BlockType) /\ g.current \in 1 .. Len(g.blocks)
      /\ Block(g) = g.blocks[g.current] /\ Block(g) \in BlockType
      /\ BlockSound(g.current, Block(g))
  BY CurrentIs
<1>2. /\ h \in IRType /\ h.current = g.current /\ Len(h.blocks) = Len(g.blocks)
      /\ \A b \in 1 .. Len(g.blocks) : b # g.current => SameBlock(g.blocks[b], h.blocks[b])
      /\ SameRest(Block(g), Block(h)) /\ Extended(Block(g), Block(h), instr)
      /\ CountsGrow(g.blocks, h.blocks, uses)
  BY DEF Emitted, WithBlocks, Extended, SameRest
<1>3. Block(h) \in BlockType /\ Block(h) = h.blocks[g.current]
  BY <1>1, <1>2, FieldsOfIR DEF IRFields, Block
<1>4. OthersStay(g, h)
  BY <1>1, <1>2, OthersCounted
<1>5. Settled(h, {}, g.current) = {}
  BY <1>2, OpenCovers DEF Open, SameRest
<1>6. CoversOwn(g.current, Block(h))
  <2>1. CoversOwn(g.current, Block(g))
    BY OpenCovers
  <2>2. \A i \in 1 .. Len(Block(g).instrs) :
          Block(h).instrs[i].refs = Block(g).instrs[i].refs + Times(uses, <<g.current, i>>)
    BY <1>1, <1>2, <1>3 DEF CountsGrow
  <2>3. QED
    BY <1>1, <1>2, <1>3, <2>1, <2>2, EmitCovers
<1>7. QED
  BY <1>2, <1>4, <1>5, <1>6, StepCovers

LEMMA ParameterCovered ==
  ASSUME NEW g, NEW h, NEW W, NEW name \in AllNames, Sound(g, W, {}), Open(g), Covered(g, {}),
         ParameterAdded(g, h, Instr("PARAM", name, << >>)), ~Block(g).has_vars
  PROVE  Covered(h, {})
<1>. DEFINE instr == Instr("PARAM", name, << >>)
<1>1. /\ g \in IRType /\ g.blocks \in Seq(BlockType) /\ g.current \in 1 .. Len(g.blocks)
      /\ Block(g) = g.blocks[g.current] /\ Block(g) \in BlockType
      /\ BlockSound(g.current, Block(g))
  BY CurrentIs
<1>2. /\ h \in IRType /\ h.current = g.current /\ Len(h.blocks) = Len(g.blocks)
      /\ \A b \in 1 .. Len(g.blocks) : b # g.current => SameBlock(g.blocks[b], h.blocks[b])
      /\ Block(h).term = Block(g).term /\ Extended(Block(g), Block(h), instr)
      /\ CountsGrow(g.blocks, h.blocks, << >>)
  BY DEF ParameterAdded, WithBlocks, Extended
<1>3. Block(h) \in BlockType /\ Block(h) = h.blocks[g.current] /\ h.blocks \in Seq(BlockType)
  BY <1>1, <1>2, FieldsOfIR DEF IRFields, Block
<1>4. Family(<< >>)
  BY TimesOfNone
<1>5. OthersStay(g, h)
  BY <1>1, <1>2, <1>4, OthersCounted
<1>6. Settled(h, {}, g.current) = {}
  BY <1>2, OpenCovers DEF Open
<1>7. instr \in InstrType /\ instr.ops = << >> /\ instr.refs = 0 /\ instr.id = "PARAM"
  BY DEF Ids, Instr, InstrType
<1>. HIDE DEF instr
<1>8. Usable(g.current, Block(g), instr) /\ Paid(instr, << >>) /\ instr.refs >= 0
  BY <1>7 DEF Paid, Usable
<1>9. CoversOwn(g.current, Block(h))
  <2>1. CoversOwn(g.current, Block(g))
    BY OpenCovers
  <2>2. \A i \in 1 .. Len(Block(g).instrs) :
          Block(h).instrs[i].refs = Block(g).instrs[i].refs + Times(<< >>, <<g.current, i>>)
    BY <1>1, <1>2, <1>3 DEF CountsGrow
  <2>3. QED
    BY <1>1, <1>2, <1>3, <1>4, <1>7, <1>8, <2>1, <2>2, EmitCovers
<1>10. KeepsParameters(g, h)
  <2>1. ASSUME NEW b \in 1 .. Len(g.blocks), g.blocks[b].has_vars
        PROVE  Fewer(g.blocks[b], h.blocks[b])
    <3>1. b # g.current
      BY <1>1, <2>1
    <3>2. SameBlock(g.blocks[b], h.blocks[b]) /\ g.blocks[b] \in BlockType /\ h.blocks[b] \in BlockType
      BY <1>1, <1>2, <1>3, <3>1
    <3>3. Grows(g.blocks[b], h.blocks[b])
      BY <3>2, SameBecomes
    <3>4. QED
      BY <2>1, <3>3 DEF Grows, Fewer
  <2>2. QED
    BY <2>1 DEF KeepsParameters
<1>11. QED
  BY <1>2, <1>5, <1>6, <1>9, <1>10, StepCovers

LEMMA ArgumentCovered ==
  ASSUME NEW g, NEW h, NEW W, Sound(g, W, {}), Open(g), Covered(g, {}),
         NEW k \in 1 .. Len(Block(g).instrs), NEW value \in Value,
         ArgumentAdded(g, h, k, value), KeepsParameters(g, h)
  PROVE  Covered(h, {})
<1>1. /\ g \in IRType /\ g.blocks \in Seq(BlockType) /\ g.current \in 1 .. Len(g.blocks)
      /\ Block(g) = g.blocks[g.current] /\ Block(g) \in BlockType
  BY CurrentIs
<1>2. /\ h \in IRType /\ h.current = g.current /\ Len(h.blocks) = Len(g.blocks)
      /\ \A b \in 1 .. Len(g.blocks) : b # g.current => SameBlock(g.blocks[b], h.blocks[b])
      /\ SameRest(Block(g), Block(h)) /\ MoreArguments(Block(g), Block(h), k, value)
      /\ CountsGrow(g.blocks, h.blocks, <<value>>)
  BY DEF ArgumentAdded, WithBlocks, MoreArguments
<1>3. Block(h) \in BlockType /\ Block(h) = h.blocks[g.current]
  BY <1>1, <1>2, FieldsOfIR DEF IRFields, Block
<1>4. Family(<<value>>)
  BY TimesOfOne
<1>5. OthersStay(g, h)
  BY <1>1, <1>2, <1>4, OthersCounted
<1>6. Settled(h, {}, g.current) = {}
  BY <1>2, OpenCovers DEF Open, SameRest
<1>7. CoversOwn(g.current, Block(h))
  <2>1. CoversOwn(g.current, Block(g))
    BY OpenCovers
  <2>2. \A i \in 1 .. Len(Block(g).instrs) :
          Block(h).instrs[i].refs = Block(g).instrs[i].refs + Times(<<value>>, <<g.current, i>>)
    BY <1>1, <1>2, <1>3 DEF CountsGrow
  <2>3. QED
    BY <1>1, <1>2, <1>3, <2>1, <2>2, ArgumentCovers
<1>8. QED
  BY <1>2, <1>5, <1>6, <1>7, StepCovers

LEMMA TermCovered ==
  ASSUME NEW g, NEW h, NEW W, NEW term \in TermType, Sound(g, W, {}), Open(g), Covered(g, {}),
         TermSet(g, h, term, term.ops), Family(term.ops)
  PROVE  Covered(h, TargetsOf(term))
<1>1. /\ g \in IRType /\ g.blocks \in Seq(BlockType) /\ g.current \in 1 .. Len(g.blocks)
      /\ Block(g) = g.blocks[g.current] /\ Block(g) \in BlockType
  BY CurrentIs
<1>2. /\ h \in IRType /\ h.current = g.current /\ Len(h.blocks) = Len(g.blocks)
      /\ \A b \in 1 .. Len(g.blocks) : b # g.current => SameBlock(g.blocks[b], h.blocks[b])
      /\ SameInstrs(Block(g).instrs, Block(h).instrs) /\ Block(h).term = term
      /\ CountsGrow(g.blocks, h.blocks, term.ops)
  BY DEF TermSet, WithBlocks
<1>3. Block(h) \in BlockType /\ Block(h) = h.blocks[g.current] /\ h.blocks \in Seq(BlockType)
  BY <1>1, <1>2, FieldsOfIR DEF IRFields, Block
<1>4. OthersStay(g, h)
  BY <1>1, <1>2, OthersCounted
<1>5. Settled(h, TargetsOf(term), g.current) = {}
  BY <1>2, <1>3 DEF Settled
<1>6. CoversOwn(g.current, Block(h))
  <2>1. CoversOwn(g.current, Block(g))
    BY OpenCovers
  <2>2. \A i \in 1 .. Len(Block(g).instrs) :
          Block(h).instrs[i].refs = Block(g).instrs[i].refs + Times(Block(h).term.ops, <<g.current, i>>)
    BY <1>1, <1>2, <1>3 DEF CountsGrow
  <2>3. QED
    BY <1>1, <1>2, <1>3, <2>1, <2>2, TermCovers
<1>7. KeepsParameters(g, h)
  <2>1. ASSUME NEW b \in 1 .. Len(g.blocks)
        PROVE  Fewer(g.blocks[b], h.blocks[b])
    <3>1. SameInstrs(g.blocks[b].instrs, h.blocks[b].instrs)
      BY <1>1, <1>2, <1>3 DEF SameBlock
    <3>2. g.blocks[b] \in BlockType /\ h.blocks[b] \in BlockType
      BY <1>1, <1>2, <1>3
    <3>3. Params(h.blocks[b]) = Params(g.blocks[b])
      BY <3>1, <3>2, SameParameters DEF SameInstrs, SameInstr
    <3>4. \A i \in Params(h.blocks[b]) : h.blocks[b].instrs[i].name = g.blocks[b].instrs[i].name
      BY <3>1, <3>2, <3>3, EnabledFinite DEF SameInstrs, SameInstr
    <3>5. QED
      BY <3>3, <3>4 DEF Fewer, Enabled
  <2>2. QED
    BY <2>1 DEF KeepsParameters
<1>8. QED
  BY <1>2, <1>4, <1>5, <1>6, <1>7, StepCovers

LEMMA VarsCovered ==
  ASSUME NEW g, NEW h, NEW W, NEW vs, Sound(g, W, {}), Open(g), Covered(g, {}),
         VarsSet(g, h, vs)
  PROVE  Covered(h, {})
<1>1. /\ g \in IRType /\ g.blocks \in Seq(BlockType) /\ g.current \in 1 .. Len(g.blocks)
      /\ Block(g) = g.blocks[g.current] /\ Block(g) \in BlockType
  BY CurrentIs
<1>2. /\ h \in IRType /\ h.current = g.current /\ Len(h.blocks) = Len(g.blocks)
      /\ \A b \in 1 .. Len(g.blocks) : b # g.current => h.blocks[b] = g.blocks[b]
      /\ Block(h).instrs = Block(g).instrs /\ Block(h).term = Block(g).term
  BY DEF VarsSet, WithBlocks
<1>3. Block(h) \in BlockType /\ Block(h) = h.blocks[g.current]
  BY <1>1, <1>2, FieldsOfIR DEF IRFields, Block
<1>4. \A b \in 1 .. Len(g.blocks) : h.blocks[b].instrs = g.blocks[b].instrs
  BY <1>1, <1>2, <1>3
<1>5. ASSUME NEW b \in 1 .. Len(g.blocks) PROVE AtLeast(g.blocks[b], h.blocks[b])
  <2>1. g.blocks[b] \in BlockType
    BY <1>1
  <2>2. \A i \in 1 .. Len(g.blocks[b].instrs) : g.blocks[b].instrs[i].refs >= g.blocks[b].instrs[i].refs
    <3>1. TAKE i \in 1 .. Len(g.blocks[b].instrs)
    <3>2. g.blocks[b].instrs[i].refs \in Int
      BY <2>1, CountsAre
    <3>3. QED
      BY <3>2
  <2>3. QED
    BY <1>4, <2>2 DEF AtLeast
<1>6. OthersStay(g, h)
  BY <1>2, <1>5 DEF OthersStay
<1>7. Settled(h, {}, g.current) = {}
  BY <1>2, OpenCovers DEF Open
<1>8. CoversOwn(g.current, Block(h))
  BY <1>1, <1>2, <1>3, <1>5, OpenCovers, SameCovers
<1>9. KeepsParameters(g, h)
  BY <1>4 DEF KeepsParameters, Fewer, Enabled, Params
<1>10. QED
  BY <1>2, <1>6, <1>7, <1>8, <1>9, StepCovers

\* Each parameter of the target takes one value of the source, and is paid for.
LEMMA ArgumentsPaid ==
  ASSUME NEW z \in BlockType, NEW vs \in Seq(VarType), NEW names, NEW v, Unique(z),
         \A j \in Enabled(z) : z.instrs[j].name \in NamesIn(vs) /\ z.instrs[j].name \in names
  PROVE  /\ IsFiniteSet({j \in Enabled(z) : ValueIn(vs, z.instrs[j].name) = v})
         /\ Cardinality({j \in Enabled(z) : ValueIn(vs, z.instrs[j].name) = v})
              <= Times(Uses(vs, names), v)
<1>. DEFINE at0(j) == CHOOSE i \in DOMAIN vs : vs[i].name = z.instrs[j].name
            J == {j \in Enabled(z) : ValueIn(vs, z.instrs[j].name) = v}
            uses == Uses(vs, names)
            K == {i \in DOMAIN uses : uses[i] = v}
            f == [j \in J |-> at0(j)]
<1>1. ASSUME NEW j \in Enabled(z)
      PROVE  at0(j) \in DOMAIN vs /\ vs[at0(j)].name = z.instrs[j].name
  BY DEF NamesIn
<1>2. ASSUME NEW j \in J PROVE at0(j) \in K
  <2>1. at0(j) \in DOMAIN vs /\ vs[at0(j)].name = z.instrs[j].name /\ z.instrs[j].name \in names
    BY <1>1
  <2>2. vs[at0(j)].val = v
    BY DEF ValueIn
  <2>. HIDE DEF at0
  <2>3. at0(j) \in {k \in DOMAIN vs : vs[k].name \in names}
    BY <2>1
  <2>4. QED
    BY <2>2, <2>3 DEF Uses
<1>3. ASSUME NEW j \in J, NEW k \in J, at0(j) = at0(k) PROVE j = k
  BY <1>1, <1>3 DEF Unique
<1>4. f \in Injection(J, K)
  <2>. HIDE DEF J, K, at0
  <2>1. f \in [J -> K]
    BY <1>2
  <2>2. \A j, k \in J : f[j] = f[k] => j = k
    BY <1>3
  <2>3. DOMAIN f = J
    OBVIOUS
  <2>. HIDE DEF f
  <2>4. QED
    BY <2>1, <2>2, <2>3 DEF Injection, IsInjective
<1>5. IsFiniteSet(K)
  <2>1. PICK n \in Nat : DOMAIN uses \subseteq 1 .. n
    BY UsesFamily DEF Family
  <2>2. K \in SUBSET (1 .. n)
    BY <2>1
  <2>3. IsFiniteSet(1 .. n)
    BY FS_Interval
  <2>4. QED
    BY <2>2, <2>3, FS_Subset
<1>. HIDE DEF J, K, f
<1>6. IsFiniteSet(J) /\ Cardinality(J) <= Cardinality(K)
  BY <1>4, <1>5, FS_Injection
<1>7. QED
  BY <1>6 DEF J, K, Times

\* merge_blocks counts an argument for each parameter.
LEMMA MergeCurrentCovered ==
  ASSUME NEW g, NEW h, NEW W, NEW O, NEW t \in 1 .. Len(g.blocks), Sound(g, W, O),
         Covered(g, O), AfterMerge(g, h, t), t # g.current, KeepsParameters(g, h),
         Unique(h.blocks[t]), h \in IRType, Len(h.blocks) = Len(g.blocks),
         \A i \in Enabled(h.blocks[t]) : h.blocks[t].instrs[i].name \in NamesIn(Block(g).vars)
  PROVE  CoveredBlock(h.blocks, Settled(h, O \ {t}, g.current), g.current)
<1>. DEFINE c == g.current
            bs == g.blocks
            cs == h.blocks
            T == Settled(g, O, c)
            U == Settled(h, O \ {t}, c)
            vs == bs[c].vars
            names == Given(bs[t], vs)
            uses == Uses(vs, names)
<1>1. /\ g \in IRType /\ bs \in Seq(BlockType) /\ c \in 1 .. Len(bs)
      /\ Block(g) = bs[c] /\ bs[c] \in BlockType
  BY CurrentIs
<1>2. /\ h.current = c /\ cs \in Seq(BlockType) /\ Len(cs) = Len(bs)
      /\ SameBlock(bs[c], cs[c]) /\ CountsGrow(bs, cs, uses)
      /\ ~bs[t].has_vars => Opened(bs[t], cs[t], vs)
      /\ bs[t].has_vars => Reduced(bs[t], cs[t], vs)
  BY <1>1 DEF AfterMerge, WithBlocks, MergedBlocks
<1>3. /\ SameInstrs(bs[c].instrs, cs[c].instrs) /\ cs[c].term = bs[c].term
      /\ cs[c].vars = vs
  BY <1>2 DEF SameBlock, SameRest
<1>4. vs \in Seq(VarType)
  BY <1>1, BlockFields DEF FieldsTyped
<1>5. Family(uses)
  BY <1>4, UsesFamily
<1>6. AtLeast(bs[c], cs[c])
  BY <1>1, <1>2, <1>3, <1>5, CountsGrowAtLeast
<1>7. U \subseteq T \cup {t} /\ T \in SUBSET (1 .. Len(bs)) /\ U \in SUBSET (1 .. Len(cs))
      /\ \A s \in T : bs[s].has_vars
  <2>1. U \subseteq T \cup {t}
    BY <1>2, <1>3 DEF Settled
  <2>2. T \in SUBSET (1 .. Len(bs)) /\ \A s \in T : bs[s].has_vars
    BY <1>1, SettledEdges DEF EdgeSound
  <2>3. QED
    BY <1>2, <2>1, <2>2
<1>8. \A j \in Enabled(cs[t]) :
        cs[t].instrs[j].name \in NamesIn(vs) /\ cs[t].instrs[j].name \in names
  <2>1. ASSUME NEW j \in Enabled(cs[t]) PROVE cs[t].instrs[j].name \in names
    <3>1. cs[t].instrs[j].name \in NamesIn(vs)
      BY <1>1
    <3>2. CASE ~bs[t].has_vars
      BY <3>1, <3>2 DEF Given
    <3>3. CASE bs[t].has_vars
      <4>1. j \in Enabled(bs[t]) /\ cs[t].instrs[j].name = bs[t].instrs[j].name
        BY <3>3 DEF KeepsParameters, Fewer
      <4>2. QED
        BY <3>1, <3>3, <4>1 DEF Given
    <3>4. QED
      BY <3>2, <3>3
  <2>2. QED
    BY <1>1, <2>1
<1>9. cs[t] \in BlockType
  BY <1>2
<1>10. CoveredBlock(bs, T, c)
  BY <1>1 DEF Covered
<1>11. \A s \in T : Fewer(bs[s], cs[s])
  BY <1>7 DEF KeepsParameters
<1>. HIDE DEF bs, cs, T, U, vs, names
<1>12. ASSUME NEW i \in 1 .. Len(cs[c].instrs)
       PROVE  cs[c].instrs[i].refs >= UsesOf(cs, U, c, i)
  <2>. DEFINE v == <<c, i>>
              A == ArgumentsIn(bs, T, vs, v)
              B == ArgumentsIn(cs, U, vs, v)
              J == {j \in Enabled(cs[t]) : ValueIn(vs, cs[t].instrs[j].name) = v}
  <2>1. /\ IsFiniteSet(A) /\ Cardinality(A) \in Nat /\ IsFiniteSet(B) /\ Cardinality(B) \in Nat
    BY <1>1, <1>2, <1>7, ArgumentsAre
  <2>2. IsFiniteSet(J) /\ Cardinality(J) <= Times(uses, v) /\ Cardinality(J) \in Nat
    <3>1. Unique(cs[t])
      BY DEF cs
    <3>2. IsFiniteSet(J) /\ Cardinality(J) <= Times(uses, v)
      BY <1>4, <1>8, <1>9, <3>1, ArgumentsPaid
    <3>3. QED
      BY <3>2, FS_CardinalityType
  <2>3. B \subseteq A \cup ({t} \X J)
    <3>1. ASSUME NEW u \in B PROVE u \in A \cup ({t} \X J)
      <4>1. PICK s \in U : u \in {s} \X Enabled(cs[s])
        BY DEF ArgumentsIn
      <4>2. PICK j \in Enabled(cs[s]) : u = <<s, j>>
        BY <4>1
      <4>3. u[1] = s /\ u[2] = j
        BY <4>2
      <4>4. /\ cs[s].instrs[j].name \in NamesIn(vs)
            /\ ValueIn(vs, cs[s].instrs[j].name) = v
        BY <4>3 DEF ArgumentsIn
      <4>5. CASE s = t
        BY <4>2, <4>4, <4>5
      <4>6. CASE s # t
        <5>1. s \in T
          BY <1>7, <4>6
        <5>2. /\ j \in Enabled(bs[s]) /\ cs[s].instrs[j].name = bs[s].instrs[j].name
          BY <1>11, <4>2, <5>1 DEF Fewer
        <5>3. u \in UNION {{p} \X Enabled(bs[p]) : p \in T}
          BY <4>2, <5>1, <5>2
        <5>4. u \in A
          BY <4>3, <4>4, <5>2, <5>3 DEF ArgumentsIn
        <5>5. QED
          BY <5>4
      <4>7. QED
        BY <4>5, <4>6
    <3>2. QED
      BY <3>1
  <2>. HIDE DEF A, B, J
  <2>4. Cardinality(B) <= Cardinality(A) + Cardinality(J)
    <3>. DEFINE R == {t} \X J
    <3>1. IsFiniteSet({t}) /\ Cardinality({t}) = 1
      BY FS_Singleton
    <3>2. IsFiniteSet(R) /\ Cardinality(R) = 1 * Cardinality(J)
      BY <2>2, <3>1, FS_Product
    <3>3. B \subseteq A \cup R
      BY <2>3
    <3>. HIDE DEF R
    <3>4. /\ IsFiniteSet(A \cup R)
          /\ Cardinality(A \cup R) = Cardinality(A) + Cardinality(R) - Cardinality(A \cap R)
      BY <2>1, <3>2, FS_Union
    <3>5. Cardinality(A \cap R) \in Nat
      BY <2>1, FS_Subset, FS_CardinalityType
    <3>6. Cardinality(B) <= Cardinality(A \cup R)
      BY <3>3, <3>4, FS_Subset
    <3>7. PICK p \in Nat, q \in Nat, e \in Nat, o \in Nat :
            p = Cardinality(A) /\ q = Cardinality(B) /\ e = Cardinality(J) /\ o = Cardinality(A \cap R)
      BY <2>1, <2>2, <3>5
    <3>8. QED
      BY <3>2, <3>4, <3>6, <3>7
  <2>5. PICK p \in Nat, q \in Nat, e \in Nat, s \in Nat, o \in Nat, m \in Int :
          /\ p = Cardinality(A) /\ q = Cardinality(B) /\ e = Cardinality(J)
          /\ s = Times(uses, v) /\ o = OwnUses(bs[c], v) /\ m = bs[c].instrs[i].refs
    BY <1>1, <1>3, <1>5, <2>1, <2>2, CountsAre, OwnUsesCount, TimesCounts DEF SameInstrs
  <2>6. q <= p + e /\ e <= s
    BY <2>2, <2>4, <2>5
  <2>7. i \in 1 .. Len(bs[c].instrs)
    BY <1>3 DEF SameInstrs
  <2>8. m >= o + p
    <3>1. bs[c].instrs[i].refs >= UsesOf(bs, T, c, i)
      BY <1>10, <2>7 DEF CoveredBlock
    <3>2. UsesOf(bs, T, c, i) = o + p
      BY <2>5 DEF UsesOf, A, vs
    <3>3. QED
      BY <2>5, <3>1, <3>2
  <2>9. cs[c].instrs[i].refs = m + s
    BY <1>1, <1>2, <2>5, <2>7 DEF CountsGrow
  <2>10. UsesOf(cs, U, c, i) = o + q
    <3>1. OwnUses(cs[c], v) = OwnUses(bs[c], v)
      <4>1. cs[c] \in BlockType
        BY <1>1, <1>2
      <4>2. OperandsIn(cs[c], v) = OperandsIn(bs[c], v)
        BY <1>1, <1>6, <4>1, OperandsSame
      <4>3. QED
        BY <1>3, <4>2 DEF OwnUses
    <3>2. QED
      BY <1>3, <2>5, <3>1 DEF UsesOf, B
  <2>11. m + s >= o + q
    BY <2>6, <2>8
  <2>12. QED
    BY <2>9, <2>10, <2>11
<1>13. CoveredBlock(cs, U, c)
  BY <1>12 DEF CoveredBlock
<1>14. QED
  BY <1>13 DEF cs, U

LEMMA MergeCovered ==
  ASSUME NEW g, NEW h, NEW W, NEW O, NEW t \in 1 .. Len(g.blocks), Sound(g, W, O),
         Covered(g, O), AfterMerge(g, h, t), t # g.current, g.blocks[t].has_vars \/ t \in W,
         BranchesTo(g.blocks, g.current, t),
         Grown(g, h), AllUnique(h), Sound(h, W, O \ {t})
  PROVE  Covered(h, O \ {t})
<1>. DEFINE c == g.current
            bs == g.blocks
            cs == h.blocks
            vs == bs[c].vars
            uses == Uses(vs, Given(bs[t], vs))
<1>1. /\ g \in IRType /\ bs \in Seq(BlockType) /\ c \in 1 .. Len(bs)
      /\ Block(g) = bs[c] /\ bs[c] \in BlockType
  BY CurrentIs
<1>2. /\ h \in IRType /\ h.current = c /\ cs \in Seq(BlockType) /\ Len(cs) = Len(bs)
      /\ \A b \in 1 .. Len(bs) : b # t => SameBlock(bs[b], cs[b])
      /\ CountsGrow(bs, cs, uses)
      /\ ~bs[t].has_vars => Opened(bs[t], cs[t], vs)
      /\ bs[t].has_vars => Reduced(bs[t], cs[t], vs)
  BY <1>1 DEF AfterMerge, WithBlocks, MergedBlocks
<1>3. KeepsParameters(g, h)
  BY GrownKeepsParameters
<1>4. vs \in Seq(VarType)
  BY <1>1, BlockFields DEF FieldsTyped
<1>5. Family(uses)
  BY <1>4, UsesFamily
<1>6. cs[c].term = bs[c].term /\ cs[c].vars = vs
  BY <1>1, <1>2 DEF SameBlock, SameRest
<1>7. CoveredBlock(cs, Settled(h, O \ {t}, c), c)
  <2>1. EdgeSound(cs, c, t)
    <3>1. PICK k \in 1 .. Len(cs[c].term.targets) : cs[c].term.targets[k] = t
      BY <1>6 DEF BranchesTo
    <3>2. QED
      BY <1>1, <1>2, <3>1 DEF Sound, EdgesSound
  <2>2. \A i \in Enabled(cs[t]) : cs[t].instrs[i].name \in NamesIn(Block(g).vars)
    BY <1>1, <1>6, <2>1 DEF EdgeSound
  <2>3. Unique(cs[t])
    BY <1>2 DEF AllUnique
  <2>4. QED
    BY <1>2, <1>3, <2>2, <2>3, MergeCurrentCovered
<1>8. ASSUME NEW b \in 1 .. Len(bs), b # c, b # t \/ bs[t].has_vars
      PROVE  CoveredBlock(cs, Settled(h, O \ {t}, b), b)
  <2>1. /\ SameInstrs(bs[b].instrs, cs[b].instrs) \/ (b = t /\ Reduced(bs[t], cs[t], vs))
        /\ cs[b].term = bs[b].term /\ cs[b].vars = bs[b].vars
    BY <1>2, <1>8 DEF SameBlock, SameRest, Reduced
  <2>2. AtLeast(bs[b], cs[b])
    <3>1. ASSUME NEW i \in 1 .. Len(bs[b].instrs)
          PROVE  cs[b].instrs[i].refs >= bs[b].instrs[i].refs
      <4>1. bs[b].instrs[i].refs \in Int
        BY <1>1, CountsAre
      <4>2. PICK s \in Nat : s = Times(uses, <<b, i>>)
        BY <1>5, TimesCounts
      <4>3. cs[b].instrs[i].refs = bs[b].instrs[i].refs + s
        BY <1>2, <4>2 DEF CountsGrow
      <4>4. QED
        BY <4>1, <4>3
    <3>2. /\ Len(cs[b].instrs) = Len(bs[b].instrs)
          /\ \A i \in 1 .. Len(bs[b].instrs) :
               cs[b].instrs[i].id = bs[b].instrs[i].id /\ cs[b].instrs[i].ops = bs[b].instrs[i].ops
      BY <2>1 DEF SameInstrs, SameInstr, Reduced
    <3>3. QED
      BY <3>1, <3>2 DEF AtLeast
  <2>3. Settled(h, O \ {t}, b) = Settled(g, O, b)
    BY <1>2, <1>8, <2>1 DEF Settled
  <2>4. PICK len \in Nat : len = Len(bs)
    BY <1>1
  <2>5. QED
    BY <1>2, <1>3, <2>1, <2>2, <2>3, <2>4, BlockCovered
<1>9. ASSUME ~bs[t].has_vars
      PROVE  CoveredBlock(cs, Settled(h, O \ {t}, t), t)
  <2>1. bs[t] \in BlockType /\ cs[t] \in BlockType /\ Waiting(bs[t]) /\ BlockSound(t, bs[t])
    BY <1>1, <1>2, <1>9 DEF Sound
  <2>2. CoversOwn(t, cs[t])
    BY <1>2, <1>4, <1>9, <2>1, OpenedCovers
  <2>3. Len(cs[t].term.targets) = 0
    BY <1>2, <1>9, <2>1 DEF Opened, Waiting, BlockSound, TermShape
  <2>4. Settled(h, O \ {t}, t) = {}
    BY <2>3 DEF Settled, TargetsOf
  <2>5. QED
    BY <1>2, <2>2, <2>4, CoveredAlone
<1>10. ASSUME NEW b \in 1 .. Len(cs)
       PROVE  CoveredBlock(cs, Settled(h, O \ {t}, b), b)
  BY <1>2, <1>7, <1>8, <1>9
<1>11. QED
  BY <1>10 DEF Covered

\* A new block uses nothing.
LEMMA AddedCovered ==
  ASSUME NEW g, NEW h, NEW W, NEW after, Sound(g, W, {}), Covered(g, {}),
         BlockAdded(g, h, after)
  PROVE  Covered(h, {})
<1>. DEFINE bs == g.blocks
            cs == h.blocks
<1>1. /\ g \in IRType /\ bs \in Seq(BlockType)
  BY CurrentIs
<1>2. PICK len \in Nat : len = Len(bs)
  BY <1>1
<1>3. /\ h \in IRType /\ h.current = g.current /\ Len(cs) = len + 1
      /\ \A b \in 1 .. len : SameContents(bs[b], cs[b])
      /\ cs[len + 1].instrs = << >>
  BY <1>2 DEF BlockAdded, Fresh
<1>4. cs \in Seq(BlockType) /\ 1 .. len \subseteq 1 .. Len(cs)
  BY <1>3, FieldsOfIR DEF IRFields
<1>5. KeepsParameters(g, h)
  BY <1>2, <1>3 DEF KeepsParameters, Fewer, SameContents, Enabled, Params
<1>6. ASSUME NEW b \in 1 .. len
      PROVE  CoveredBlock(cs, Settled(h, {}, b), b)
  <2>1. /\ cs[b].instrs = bs[b].instrs /\ cs[b].term = bs[b].term /\ cs[b].vars = bs[b].vars
    BY <1>3 DEF SameContents
  <2>2. AtLeast(bs[b], cs[b])
    <3>1. \A i \in 1 .. Len(bs[b].instrs) : bs[b].instrs[i].refs \in Int
      BY <1>1, <1>2, CountsAre
    <3>2. QED
      BY <2>1, <3>1 DEF AtLeast
  <2>3. Settled(h, {}, b) = Settled(g, {}, b)
    BY <2>1 DEF Settled
  <2>4. QED
    BY <1>2, <1>4, <1>5, <2>1, <2>2, <2>3, BlockCovered
<1>7. CoveredBlock(cs, Settled(h, {}, len + 1), len + 1)
  BY <1>3 DEF CoveredBlock
<1>8. ASSUME NEW b \in 1 .. Len(cs) PROVE CoveredBlock(cs, Settled(h, {}, b), b)
  <2>1. b \in 1 .. len \/ b = len + 1
    BY <1>3
  <2>2. QED
    BY <1>6, <1>7, <2>1
<1>9. QED
  BY <1>8 DEF Covered

\* Declaring the parameters is not a use.
LEMMA EnteredCovered ==
  ASSUME NEW g, NEW h, NEW W, NEW b \in W, Sound(g, W, {}), Covered(g, {}), Entered(g, h, b)
  PROVE  Covered(h, {})
<1>. DEFINE bs == g.blocks
            cs == h.blocks
<1>1. /\ g \in IRType /\ bs \in Seq(BlockType) /\ b \in 1 .. Len(bs)
      /\ Waiting(bs[b]) /\ BlockSound(b, bs[b])
  BY CurrentIs DEF Sound
<1>2. /\ h \in IRType /\ Len(cs) = Len(bs)
      /\ \A c \in 1 .. Len(bs) : cs[c].instrs = bs[c].instrs /\ cs[c].term = bs[c].term
      /\ \A c \in 1 .. Len(bs) : c # b => cs[c].vars = bs[c].vars
  <2>1. /\ h \in IRType /\ Len(cs) = Len(bs)
        /\ \A c \in 1 .. Len(bs) : c # b => cs[c] = bs[c]
        /\ cs[b].instrs = bs[b].instrs /\ cs[b].term = bs[b].term
    BY DEF Entered
  <2>2. QED
    BY <2>1
<1>3. PICK len \in Nat : len = Len(bs)
  BY <1>1
<1>4. cs \in Seq(BlockType) /\ 1 .. len \subseteq 1 .. Len(cs)
  BY <1>2, <1>3, FieldsOfIR DEF IRFields
<1>5. KeepsParameters(g, h)
  BY <1>2 DEF KeepsParameters, Fewer, Enabled, Params
<1>6. ASSUME NEW c \in 1 .. len
      PROVE  /\ AtLeast(bs[c], cs[c])
             /\ Settled(h, {}, c) = Settled(g, {}, c)
  <2>1. \A i \in 1 .. Len(bs[c].instrs) : bs[c].instrs[i].refs \in Int
    BY <1>1, <1>3, CountsAre
  <2>2. cs[c].instrs = bs[c].instrs /\ cs[c].term = bs[c].term
    BY <1>2, <1>3
  <2>3. QED
    BY <2>1, <2>2 DEF AtLeast, Settled
<1>7. ASSUME NEW c \in 1 .. len, c # b
      PROVE  CoveredBlock(cs, Settled(h, {}, c), c)
  BY <1>2, <1>3, <1>4, <1>5, <1>6, <1>7, BlockCovered
<1>8. CoveredBlock(cs, Settled(h, {}, b), b)
  <2>1. bs[b] \in BlockType /\ cs[b] \in BlockType
    BY <1>1, <1>2, <1>4
  <2>2. Len(bs[b].term.targets) = 0
    BY <1>1 DEF Waiting, BlockSound, TermShape
  <2>3. Settled(g, {}, b) = {}
    BY <2>2 DEF Settled, TargetsOf
  <2>4. CoversOwn(b, bs[b])
    BY <1>1, <2>3, CoveredAlone DEF Covered
  <2>5. CoversOwn(b, cs[b])
    BY <1>1, <1>2, <1>3, <1>6, <2>1, <2>4, SameCovers
  <2>6. QED
    BY <1>1, <1>2, <1>3, <1>4, <1>6, <2>3, <2>5, CoveredAlone
<1>9. ASSUME NEW c \in 1 .. Len(cs) PROVE CoveredBlock(cs, Settled(h, {}, c), c)
  BY <1>2, <1>3, <1>7, <1>8
<1>10. QED
  BY <1>9 DEF Covered

-----------------------------------------------------------------------------
(***************************************************************************)
(* A new block.                                                            *)
(***************************************************************************)
\* The positions when a new block comes behind position k.
Shift(r, len, k) ==
  [b \in 1 .. len + 1 |-> IF b = len + 1 THEN k + 1 ELSE IF r[b] > k THEN r[b] + 1 ELSE r[b]]

LEMMA ShiftedPositions ==
  ASSUME NEW len \in Nat, NEW k \in 1 .. len, NEW r, Positions(r, len)
  PROVE  /\ Positions(Shift(r, len, k), len + 1)
         /\ Shift(r, len, k)[len + 1] = k + 1
         /\ \A b \in 1 .. len : /\ r[b] \in 1 .. len
                                /\ Shift(r, len, k)[b] = IF r[b] > k THEN r[b] + 1 ELSE r[b]
<1>. DEFINE s == Shift(r, len, k)
<1>1. r \in [1 .. len -> 1 .. len]
  BY DEF Positions
<1>2. /\ s[len + 1] = k + 1
      /\ \A b \in 1 .. len : r[b] \in 1 .. len /\ s[b] = IF r[b] > k THEN r[b] + 1 ELSE r[b]
      /\ DOMAIN s = 1 .. len + 1
      /\ s = [b \in 1 .. len + 1 |-> s[b]]
  BY <1>1, SMTT(20) DEF Shift
<1>. HIDE DEF s
<1>3. \A b \in 1 .. len + 1 : s[b] \in 1 .. len + 1
  <2>1. TAKE b \in 1 .. len + 1
  <2>2. CASE b = len + 1
    BY <1>2, <2>2
  <2>3. CASE b \in 1 .. len
    <3>1. PICK n \in 1 .. len : n = r[b] /\ s[b] = IF n > k THEN n + 1 ELSE n
      BY <1>2, <2>3
    <3>2. QED
      BY <3>1
  <2>4. QED
    BY <2>2, <2>3
<1>4. s \in [1 .. len + 1 -> 1 .. len + 1]
  BY <1>2, <1>3
<1>5. ASSUME NEW b \in 1 .. len, NEW c \in 1 .. len, s[b] = s[c] PROVE b = c
  <2>1. PICK m \in 1 .. len, n \in 1 .. len :
          /\ m = r[b] /\ s[b] = IF m > k THEN m + 1 ELSE m
          /\ n = r[c] /\ s[c] = IF n > k THEN n + 1 ELSE n
    BY <1>2
  <2>2. (IF m > k THEN m + 1 ELSE m) = (IF n > k THEN n + 1 ELSE n)
    BY <1>5, <2>1
  <2>3. m = n
    BY ONLY <2>2, m \in Nat, n \in Nat, k \in Nat
  <2>4. QED
    BY <2>1, <2>3 DEF Positions
<1>6. ASSUME NEW b \in 1 .. len PROVE s[b] # s[len + 1]
  <2>1. PICK m \in 1 .. len : m = r[b] /\ s[b] = IF m > k THEN m + 1 ELSE m
    BY <1>2
  <2>2. QED
    BY <1>2, <2>1
<1>7. \A b, c \in 1 .. len + 1 : s[b] = s[c] => b = c
  BY <1>5, <1>6
<1>8. ASSUME NEW n \in 1 .. len + 1 PROVE \E b \in 1 .. len + 1 : s[b] = n
  <2>1. CASE n = k + 1
    BY <1>2, <2>1
  <2>2. CASE n <= k
    <3>. n \in 1 .. len
      BY <2>2
    <3>1. PICK b \in 1 .. len : r[b] = n
      BY DEF Positions
    <3>2. s[b] = IF n > k THEN n + 1 ELSE n
      BY <1>2, <3>1
    <3>3. s[b] = n /\ b \in 1 .. len + 1
      BY <2>2, <3>2
    <3>4. QED
      BY <3>3
  <2>3. CASE n > k + 1
    <3>1. PICK m \in 1 .. len : m = n - 1 /\ m > k
      BY <2>3
    <3>2. PICK b \in 1 .. len : r[b] = m
      BY DEF Positions
    <3>3. s[b] = IF m > k THEN m + 1 ELSE m
      BY <1>2, <3>2
    <3>4. s[b] = n /\ b \in 1 .. len + 1
      BY <3>1, <3>3
    <3>5. QED
      BY <3>4
  <2>4. QED
    BY <2>1, <2>2, <2>3
<1>9. Positions(s, len + 1)
  BY <1>4, <1>7, <1>8 DEF Positions
<1>10. QED
  BY <1>2, <1>9 DEF s

LEMMA AddedRanked ==
  ASSUME NEW g, NEW h, NEW after \in 1 .. Len(g.blocks), g \in IRType,
         BlockAdded(g, h, after), NEW r, Ranked(g, r)
  PROVE  Ranked(h, Shift(r, Len(g.blocks), r[after]))
<1>1. PICK len \in Nat : len = Len(g.blocks)
  BY FieldsOfIR DEF IRFields
<1>2. Positions(r, len) /\ r[1] = 1 /\ r[after] \in 1 .. len
  BY <1>1 DEF Ranked, Positions
<1>3. PICK k \in 1 .. len : k = r[after]
  BY <1>2
<1>. DEFINE new == len + 1
            bs == g.blocks
            cs == h.blocks
            behind == bs[after].next
            s == Shift(r, len, k)
<1>4. /\ Positions(s, new) /\ s[new] = k + 1
      /\ \A b \in 1 .. len : r[b] \in 1 .. len /\ s[b] = IF r[b] > k THEN r[b] + 1 ELSE r[b]
  BY <1>2, ShiftedPositions
<1>. HIDE DEF s
<1>5. /\ h.last = (IF g.last = after THEN new ELSE g.last)
      /\ Len(cs) = new
      /\ \A b \in 1 .. len :
           /\ cs[b].has_vars = bs[b].has_vars /\ cs[b].term = bs[b].term
           /\ cs[b].next = (IF b = after THEN new ELSE bs[b].next)
           /\ cs[b].prev = (IF b = behind THEN new ELSE bs[b].prev)
      /\ cs[new].prev = after /\ cs[new].next = behind /\ ~cs[new].has_vars
  BY <1>1 DEF BlockAdded, SameContents, Fresh
<1>6. /\ g.last \in 1 .. len /\ r[g.last] = len
      /\ \A b \in 1 .. len : Neighbours(bs, r, b) /\ FromAhead(bs, r, b)
  BY <1>1 DEF Ranked
<1>7. \A b, c \in 1 .. len : r[b] = r[c] => b = c
  BY <1>2 DEF Positions
<1>8. IF k = len THEN behind = 0 ELSE behind \in 1 .. len /\ r[behind] = k + 1
  BY <1>1, <1>3, <1>6 DEF Neighbours
<1>9. ASSUME NEW b \in 1 .. len PROVE Neighbours(cs, s, b)
  <2>1. PICK n \in 1 .. len : n = r[b] /\ s[b] = IF n > k THEN n + 1 ELSE n
    BY <1>4
  <2>2. /\ IF n = len THEN bs[b].next = 0 ELSE bs[b].next \in 1 .. len /\ r[bs[b].next] = n + 1
        /\ IF n = 1 THEN bs[b].prev = 0 ELSE bs[b].prev \in 1 .. len /\ r[bs[b].prev] = n - 1
    BY <1>1, <1>6, <2>1 DEF Neighbours
  <2>3. n = k <=> b = after
    BY <1>1, <1>3, <1>7, <2>1
  <2>4. n = k + 1 <=> b = behind
    <3>1. ASSUME n = k + 1 PROVE b = behind
      <4>1. k # len
        BY <2>1, <3>1
      <4>2. behind \in 1 .. len /\ r[behind] = r[b]
        BY <1>8, <2>1, <3>1, <4>1
      <4>3. QED
        BY <1>7, <4>2
    <3>2. ASSUME b = behind PROVE n = k + 1
      BY <1>8, <2>1, <3>2
    <3>3. QED
      BY <3>1, <3>2
  <2>5. IF s[b] = new THEN cs[b].next = 0 ELSE cs[b].next \in 1 .. new /\ s[cs[b].next] = s[b] + 1
    <3>1. CASE n = k
      BY <1>4, <1>5, <2>1, <2>3, <3>1
    <3>2. CASE n # k /\ n = len
      BY <1>5, <2>1, <2>2, <2>3, <3>2, SMTT(20)
    <3>3. CASE n # k /\ n # len
      <4>1. PICK d \in 1 .. len : d = bs[b].next /\ r[d] = n + 1
        BY <2>2, <3>3
      <4>2. s[d] = IF n + 1 > k THEN n + 1 + 1 ELSE n + 1
        BY <1>4, <4>1
      <4>3. s[d] = s[b] + 1 /\ s[b] # new
        BY <2>1, <3>3, <4>2
      <4>4. b # after /\ cs[b].next = d /\ d \in 1 .. new
        BY <1>5, <2>3, <3>3, <4>1
      <4>5. QED
        BY <4>3, <4>4
    <3>4. QED
      BY <3>1, <3>2, <3>3
  <2>6. IF s[b] = 1 THEN cs[b].prev = 0 ELSE cs[b].prev \in 1 .. new /\ s[cs[b].prev] = s[b] - 1
    <3>1. CASE n = k + 1
      BY <1>4, <1>5, <2>1, <2>4, <3>1
    <3>2. CASE n = 1
      BY <1>5, <2>1, <2>2, <2>4, <3>2
    <3>3. CASE n # k + 1 /\ n # 1
      <4>1. PICK d \in 1 .. len : d = bs[b].prev /\ r[d] = n - 1
        BY <2>2, <3>3
      <4>2. s[d] = IF n - 1 > k THEN n - 1 + 1 ELSE n - 1
        BY <1>4, <4>1
      <4>3. s[d] = s[b] - 1 /\ s[b] # 1
        BY <2>1, <3>3, <4>2
      <4>4. b # behind /\ cs[b].prev = d /\ d \in 1 .. new
        BY <1>5, <2>4, <3>3, <4>1
      <4>5. QED
        BY <4>3, <4>4
    <3>4. QED
      BY <3>1, <3>2, <3>3
  <2>7. QED
    BY <1>5, <2>5, <2>6 DEF Neighbours
<1>10. Neighbours(cs, s, new)
  <2>1. IF s[new] = new THEN cs[new].next = 0
        ELSE cs[new].next \in 1 .. new /\ s[cs[new].next] = s[new] + 1
    <3>1. CASE k = len
      BY <1>4, <1>5, <1>8, <3>1
    <3>2. CASE k # len
      <4>1. PICK d \in 1 .. len : d = behind /\ r[d] = k + 1
        BY <1>8, <3>2
      <4>2. s[d] = k + 2
        BY <1>4, <4>1
      <4>3. QED
        BY <1>4, <1>5, <3>2, <4>1, <4>2
    <3>3. QED
      BY <3>1, <3>2
  <2>2. s[after] = k /\ after \in 1 .. new
    BY <1>1, <1>3, <1>4
  <2>3. QED
    BY <1>4, <1>5, <2>1, <2>2 DEF Neighbours
<1>11. ASSUME NEW b \in 1 .. len PROVE FromAhead(cs, s, b)
  <2>1. SUFFICES ASSUME cs[b].has_vars
                 PROVE  \E q \in 1 .. Len(cs) : BranchesTo(cs, q, b) /\ s[q] < s[b]
    BY DEF FromAhead
  <2>2. PICK q \in 1 .. len : BranchesTo(bs, q, b) /\ r[q] < r[b]
    BY <1>1, <1>5, <1>6, <2>1 DEF FromAhead
  <2>3. BranchesTo(cs, q, b)
    BY <1>5, <2>2 DEF BranchesTo
  <2>4. s[q] < s[b]
    BY <1>4, <2>2
  <2>5. QED
    BY <1>5, <2>3, <2>4
<1>12. s[1] = 1 /\ h.last \in 1 .. new /\ s[h.last] = new
  <2>1. 1 \in 1 .. len
    OBVIOUS
  <2>2. s[1] = IF 1 > k THEN 1 + 1 ELSE 1
    BY <1>2, <1>4, <2>1
  <2>3. s[1] = 1
    BY <2>2
  <2>4. CASE g.last = after
    <3>1. k = len /\ h.last = new
      BY <1>3, <1>5, <1>6, <2>4
    <3>2. QED
      BY <1>4, <2>3, <3>1
  <2>5. CASE g.last # after
    <3>1. k # len
      BY <1>1, <1>3, <1>6, <1>7, <2>5
    <3>2. s[g.last] = IF len > k THEN len + 1 ELSE len
      BY <1>4, <1>6
    <3>3. h.last = g.last /\ s[g.last] = new /\ g.last \in 1 .. new
      BY <1>5, <1>6, <2>5, <3>1, <3>2
    <3>4. QED
      BY <2>3, <3>3
  <2>6. QED
    BY <2>4, <2>5
<1>13. \A b \in 1 .. new : Neighbours(cs, s, b) /\ FromAhead(cs, s, b)
  BY <1>5, <1>9, <1>10, <1>11 DEF FromAhead
<1>14. Ranked(h, s)
  BY <1>4, <1>5, <1>12, <1>13 DEF Ranked
<1>15. QED
  BY <1>1, <1>3, <1>14 DEF s

\* The new block comes right behind another; the others keep their order.
Follows(r, s, len, after) ==
  /\ \A b \in 1 .. len : r[b] \in 1 .. len /\ s[b] \in 1 .. len + 1
  /\ \A b, c \in 1 .. len : r[b] < r[c] => s[b] < s[c]
  /\ s[len + 1] \in 1 .. len + 1
  /\ s[after] < s[len + 1]
  /\ \A b \in 1 .. len : r[after] < r[b] => s[len + 1] < s[b]

LEMMA ShiftFollows ==
  ASSUME NEW len \in Nat, NEW r, Positions(r, len), NEW after \in 1 .. len
  PROVE  Follows(r, Shift(r, len, r[after]), len, after)
<1>1. PICK k \in 1 .. len : k = r[after]
  BY DEF Positions
<1>. DEFINE s == Shift(r, len, k)
<1>2. /\ Positions(s, len + 1) /\ s[len + 1] = k + 1
      /\ \A b \in 1 .. len : r[b] \in 1 .. len /\ s[b] = IF r[b] > k THEN r[b] + 1 ELSE r[b]
  BY ShiftedPositions
<1>. HIDE DEF s
<1>3. \A b \in 1 .. len : s[b] \in 1 .. len + 1
  <2>1. \A b \in 1 .. len : b \in 1 .. len + 1
    OBVIOUS
  <2>2. QED
    BY <1>2, <2>1 DEF Positions
<1>4. ASSUME NEW b \in 1 .. len, NEW c \in 1 .. len, r[b] < r[c] PROVE s[b] < s[c]
  BY <1>2, <1>4
<1>5. s[after] < s[len + 1]
  BY <1>1, <1>2
<1>6. ASSUME NEW b \in 1 .. len, r[after] < r[b] PROVE s[len + 1] < s[b]
  BY <1>1, <1>2, <1>6
<1>7. QED
  BY <1>1, <1>2, <1>3, <1>4, <1>5, <1>6 DEF Follows, s

LEMMA AddedSound ==
  ASSUME NEW g, NEW h, NEW W, NEW after \in 1 .. Len(g.blocks), Sound(g, W, {}),
         BlockAdded(g, h, after), g.blocks[after].term.id # "CBRANCH"
  PROVE  /\ Sound(h, W \cup {Len(g.blocks) + 1}, {})
         /\ AllUnique(g) => AllUnique(h)
<1>1. PICK len \in Nat : len = Len(g.blocks)
  BY FieldsOfIR DEF IRFields, Sound
<1>. DEFINE new == len + 1
            bs == g.blocks
            cs == h.blocks
<1>2. /\ h \in IRType /\ h.current = g.current /\ Len(cs) = new
      /\ \A b \in 1 .. len : /\ SameContents(bs[b], cs[b])
                             /\ b # after => cs[b].next = bs[b].next
      /\ Fresh(cs[new], after, bs[after].next)
  BY <1>1 DEF BlockAdded
<1>3. /\ \A b \in 1 .. len : BlockSound(b, bs[b])
      /\ EdgesSound(bs, g.current, {})
      /\ W \subseteq 1 .. len /\ g.current \in 1 .. len /\ g.current \notin W
      /\ \A b \in W : Waiting(bs[b])
      /\ \A b \in 1 .. len : bs[b].term.id = "NONE" => b = g.current \/ b \in W
  BY <1>1 DEF Sound
<1>4. \A b \in 1 .. new : b \in 1 .. len \/ b = new
  OBVIOUS
<1>5. ASSUME NEW b \in 1 .. len
      PROVE  /\ cs[b].instrs = bs[b].instrs /\ cs[b].term = bs[b].term /\ cs[b].vars = bs[b].vars
             /\ cs[b].has_vars = bs[b].has_vars /\ cs[b].num_params = bs[b].num_params
             /\ Params(cs[b]) = Params(bs[b])
             /\ Enabled(cs[b]) = Enabled(bs[b])
  BY <1>2 DEF SameContents, Enabled, Params
<1>. HIDE DEF bs, cs
<1>6. ASSUME NEW b \in 1 .. len PROVE BlockSound(b, cs[b])
  <2>1. BlockSound(b, bs[b])
    BY <1>3
  <2>2. TermShape(cs[b])
    <3>1. cs[b].term = bs[b].term /\ TermShape(bs[b])
      BY <1>5, <2>1 DEF BlockSound
    <3>2. cs[b].term.id = "CBRANCH" => cs[b].next = bs[b].next
      BY <1>2, <1>5 DEF bs
    <3>3. QED
      BY <3>1, <3>2 DEF TermShape
  <2>3. QED
    BY <1>5, <2>1, <2>2 DEF BlockSound, LocalBlock, Declared, Assignments
<1>7. /\ cs[new].instrs = << >> /\ cs[new].num_params = 0 /\ cs[new].vars = << >>
      /\ cs[new].term = Term("NONE", << >>, << >>) /\ cs[new].has_vars = FALSE
  BY <1>2 DEF Fresh
<1>8. /\ cs[new].term.id = "NONE" /\ cs[new].term.ops = << >> /\ cs[new].term.targets = << >>
      /\ Params(cs[new]) = {} /\ Enabled(cs[new]) = {}
  BY <1>7 DEF Term, Params, Enabled
<1>9. BlockSound(new, cs[new]) /\ Waiting(cs[new]) /\ Unique(cs[new])
  <2>1. Cardinality({}) = 0
    BY FS_EmptySet
  <2>2. LocalBlock(new, cs[new]) /\ Declared(cs[new]) /\ Assignments(cs[new])
    BY <1>7, <1>8 DEF LocalBlock, Declared, Assignments
  <2>3. TermShape(cs[new])
    BY <1>8 DEF TermShape
  <2>4. QED
    BY <1>7, <1>8, <2>1, <2>2, <2>3 DEF BlockSound, Waiting, Unique
<1>10. EdgesSound(cs, h.current, {})
  <2>1. ASSUME NEW p \in 1 .. new, NEW k \in 1 .. Len(cs[p].term.targets)
        PROVE  EdgeSound(cs, p, cs[p].term.targets[k])
    <3>1. p \in 1 .. len
      BY <1>4, <1>8
    <3>2. PICK t : t = bs[p].term.targets[k] /\ EdgeSound(bs, p, t)
      BY <1>1, <1>3, <1>5, <2>1, <3>1 DEF EdgesSound, bs
    <3>3. t \in 1 .. len
      BY <1>1, <3>2 DEF EdgeSound, bs
    <3>4. t \in 1 .. Len(cs) /\ t # p /\ cs[t].has_vars
      <4>1. t # p /\ bs[t].has_vars
        BY <3>2 DEF EdgeSound
      <4>2. t \in 1 .. new /\ Len(cs) = new
        BY <1>2, <3>3 DEF cs
      <4>3. QED
        BY <1>5, <3>3, <4>1, <4>2
    <3>5. /\ Enabled(cs[t]) = Enabled(bs[t]) /\ cs[t].instrs = bs[t].instrs
          /\ cs[p].vars = bs[p].vars
      BY <1>5, <3>1, <3>3
    <3>6. EdgeSound(cs, p, t)
      BY <3>2, <3>4, <3>5 DEF EdgeSound
    <3>7. QED
      BY <1>5, <3>1, <3>2, <3>6
  <2>2. QED
    BY <1>2, <2>1 DEF EdgesSound, cs
<1>11. \A b \in W \cup {new} : Waiting(cs[b])
  <2>1. \A b \in W : Waiting(bs[b]) /\ b \in 1 .. len
    BY <1>3
  <2>2. \A b \in W : Waiting(cs[b])
    BY <1>5, <2>1 DEF Waiting
  <2>3. QED
    BY <1>9, <2>2
<1>12. Sound(h, W \cup {new}, {})
  <2>1. \A b \in 1 .. new : BlockSound(b, cs[b])
    BY <1>4, <1>6, <1>9
  <2>2. \A b \in 1 .. new : cs[b].term.id = "NONE" => b = h.current \/ b \in W \cup {new}
    BY <1>2, <1>3, <1>4, <1>5
  <2>3. /\ W \cup {new} \subseteq 1 .. new /\ h.current \in 1 .. new
        /\ h.current \notin W \cup {new}
    BY <1>2, <1>3
  <2>4. QED
    BY <1>2, <1>10, <1>11, <2>1, <2>2, <2>3 DEF Sound, cs
<1>13. AllUnique(g) => AllUnique(h)
  <2>1. ASSUME AllUnique(g), NEW b \in 1 .. len PROVE Unique(cs[b])
    BY <1>1, <1>5, <2>1 DEF AllUnique, Unique, bs
  <2>2. QED
    BY <1>2, <1>4, <1>9, <2>1 DEF AllUnique, cs
<1>14. QED
  BY <1>1, <1>12, <1>13

\* The blocks of statements in a new order of more blocks.
LEMMA LinedFollows ==
  ASSUME NEW len \in Nat, NEW r, NEW s, NEW after, Follows(r, s, len, after),
         NEW c \in 1 .. len, NEW fs \in Seq(FrameType), Lined(c, len, fs, r)
  PROVE  Lined(c, len + 1, fs, s)
<1>1. \A b, d \in 1 .. len : r[b] < r[d] => s[b] < s[d]
  BY DEF Follows
<1>2. ASSUME NEW i \in 1 .. Len(fs)
      PROVE  /\ \A b \in Awaits(fs[i]) : b \in 1 .. len
             /\ \A b \in Awaits(fs[i]) : b \in 1 .. len + 1 /\ s[c] < s[b]
  BY <1>1, SMTT(20) DEF Lined
<1>3. ASSUME NEW i \in 1 .. Len(fs), NEW j \in 1 .. i - 1,
             NEW b \in Awaits(fs[i]), NEW d \in Awaits(fs[j])
      PROVE  s[b] < s[d]
  <2>1. j \in 1 .. Len(fs) /\ r[b] < r[d]
    BY DEF Lined
  <2>2. b \in 1 .. len /\ d \in 1 .. len
    BY <1>2, <2>1
  <2>3. QED
    BY <1>1, <2>1, <2>2
<1>4. ASSUME NEW i \in 1 .. Len(fs), fs[i].kind = "then"
      PROVE  s[fs[i].else] < s[fs[i].after]
  BY <1>1, <1>2, <1>4 DEF Awaits, Lined
<1>5. QED
  BY <1>2, <1>3, <1>4 DEF Lined

\* The new block is one more to be entered.
AfterAdding(g, h, W, fs, r, after) ==
  /\ Len(h.blocks) = Len(g.blocks) + 1 /\ h.current = g.current
  /\ h.blocks[Len(g.blocks) + 1].next = g.blocks[after].next
  /\ h.blocks[after].next = Len(g.blocks) + 1
  /\ \A b \in 1 .. Len(g.blocks) : b # after => h.blocks[b].next = g.blocks[b].next
  /\ Block(h).vars = Block(g).vars /\ Block(h).instrs = Block(g).instrs
  /\ Block(h).has_vars = Block(g).has_vars
  /\ Open(g) => Open(h)
  /\ \E s : /\ Placed(h, W \cup {Len(g.blocks) + 1}, fs, s)
            /\ Follows(r, s, Len(g.blocks), after)

LEMMA AddedPlaced ==
  ASSUME NEW g, NEW W, NEW fs \in Seq(FrameType), NEW r, NEW after \in 1 .. Len(g.blocks),
         Placed(g, W, fs, r), g.blocks[after].term.id # "CBRANCH"
  PROVE  AfterAdding(g, AddBlock(g, after), W, fs, r, after)
<1>. DEFINE h == AddBlock(g, after)
<1>1. /\ Sound(g, W, {}) /\ AllUnique(g) /\ LoopsBack(g, fs) /\ Ranked(g, r)
      /\ Stacked(g, fs, r) /\ Covered(g, {})
  BY DEF Placed, Laid
<1>2. g \in IRType /\ g.current \in 1 .. Len(g.blocks)
  BY <1>1 DEF Sound
<1>3. PICK len \in Nat : len = Len(g.blocks)
  BY <1>2, FieldsOfIR DEF IRFields
<1>. DEFINE s == Shift(r, len, r[after])
<1>4. BlockAdded(g, h, after)
  BY <1>2, AddBlockFields
<1>. HIDE DEF h, s
<1>5. Sound(h, W \cup {len + 1}, {}) /\ AllUnique(h)
  BY <1>1, <1>3, <1>4, AddedSound
<1>6. /\ Len(h.blocks) = len + 1 /\ h.current = g.current
      /\ \A b \in 1 .. len : SameContents(g.blocks[b], h.blocks[b])
      /\ \A b \in 1 .. len : b # after => h.blocks[b].next = g.blocks[b].next
      /\ h.blocks[after].next = len + 1
      /\ h.blocks[len + 1].next = g.blocks[after].next
  BY <1>3, <1>4 DEF BlockAdded, Fresh
<1>7. Ranked(h, s) /\ Follows(r, s, len, after)
  BY <1>1, <1>2, <1>3, <1>4, AddedRanked, ShiftFollows DEF Ranked, s
<1>8. Stacked(h, fs, s)
  BY <1>1, <1>2, <1>3, <1>6, <1>7, LinedFollows DEF Stacked
<1>9. LoopsBack(h, fs)
  <2>1. ASSUME NEW i \in 1 .. Len(fs), fs[i].kind = "while"
        PROVE  /\ fs[i].cond \in 1 .. len + 1 /\ h.blocks[fs[i].cond].has_vars
               /\ h.blocks[fs[i].cond].term.id = "CBRANCH"
    <3>1. /\ fs[i].cond \in 1 .. len /\ g.blocks[fs[i].cond].has_vars
          /\ g.blocks[fs[i].cond].term.id = "CBRANCH"
      BY <1>1, <1>3, <2>1 DEF LoopsBack
    <3>2. SameContents(g.blocks[fs[i].cond], h.blocks[fs[i].cond])
      BY <1>6, <3>1
    <3>3. fs[i].cond \in 1 .. len + 1
      BY <3>1
    <3>4. QED
      BY <3>1, <3>2, <3>3 DEF SameContents
  <2>2. QED
    BY <1>6, <2>1 DEF LoopsBack
<1>10. Placed(h, W \cup {len + 1}, fs, s)
  BY <1>1, <1>4, <1>5, <1>7, <1>8, <1>9, AddedCovered DEF Placed, Laid
<1>11. /\ Block(h).vars = Block(g).vars /\ Block(h).instrs = Block(g).instrs
       /\ Block(h).has_vars = Block(g).has_vars
       /\ Open(g) => Open(h)
  <2>1. SameContents(Block(g), Block(h))
    BY <1>2, <1>3, <1>6 DEF Block
  <2>2. QED
    BY <2>1 DEF SameContents, Open
<1>12. AfterAdding(g, h, W, fs, r, after)
  BY <1>3, <1>6, <1>7, <1>10, <1>11 DEF AfterAdding
<1>13. QED
  BY <1>12 DEF h

-----------------------------------------------------------------------------
(***************************************************************************)
(* Leaving a block, and entering one.                                      *)
(***************************************************************************)
\* The current block has branched to t.
BranchedTo(g, h, W, fs, r, t) ==
  /\ Placed(h, W, fs, r)
  /\ h.current = g.current /\ Len(h.blocks) = Len(g.blocks)
  /\ Block(h).term.id # "NONE"
  /\ h.blocks[t].has_vars
  /\ \A b \in 1 .. Len(g.blocks) : g.blocks[b].has_vars => h.blocks[b].has_vars

\* What the terminator leaves to do.
Leaving(g, h, W, fs, r, O) ==
  /\ Sound(h, W, O) /\ AllUnique(h) /\ LoopsBack(h, fs) /\ Ranked(h, r) /\ Stacked(h, fs, r)
  /\ Covered(h, O)
  /\ h.current = g.current /\ Len(h.blocks) = Len(g.blocks)
  /\ \A b \in 1 .. Len(g.blocks) : g.blocks[b].has_vars => h.blocks[b].has_vars

LEMMA MergePlaced ==
  ASSUME NEW g, NEW h, NEW W, NEW fs, NEW r, NEW O, NEW t \in 1 .. Len(h.blocks),
         Leaving(g, h, W, fs, r, O), t # h.current,
         h.blocks[t].has_vars \/ t \in W,
         BranchesTo(h.blocks, h.current, t), h.blocks[t].has_vars \/ r[h.current] < r[t]
  PROVE  /\ Leaving(g, Merged(h, t), W, fs, r, O \ {t})
         /\ Grown(h, Merged(h, t))
         /\ Merged(h, t).blocks[t].has_vars
<1>. DEFINE k == Merged(h, t)
<1>1. /\ Sound(h, W, O) /\ AllUnique(h) /\ LoopsBack(h, fs) /\ Ranked(h, r) /\ Stacked(h, fs, r)
      /\ Covered(h, O)
      /\ h.current = g.current /\ Len(h.blocks) = Len(g.blocks)
      /\ \A b \in 1 .. Len(g.blocks) : g.blocks[b].has_vars => h.blocks[b].has_vars
  BY DEF Leaving
<1>2. h \in IRType /\ h.current \in 1 .. Len(h.blocks)
  BY <1>1 DEF Sound
<1>3. AfterMerge(h, k, t)
  BY <1>2, MergedFields
<1>. HIDE DEF k
<1>4. /\ Grown(h, k) /\ Sound(k, W, O \ {t}) /\ AllUnique(k)
      /\ \A b \in 1 .. Len(h.blocks) : b # t => k.blocks[b].has_vars = h.blocks[b].has_vars
  <2>1. OthersKeep(h, k, t)
    BY <1>1, <1>3, MergeSound
  <2>2. Grown(h, k) /\ Sound(k, W, O \ {t}) /\ (AllUnique(h) => AllUnique(k))
    BY <1>1, <1>3, MergeSound
  <2>3. QED
    BY <1>1, <2>1, <2>2 DEF OthersKeep
<1>5. Stacked(k, fs, r) /\ LoopsBack(k, fs)
  BY <1>1, <1>2, <1>4, GrownStands
<1>6. Ranked(k, r)
  <2>1. ASSUME NEW b \in 1 .. Len(h.blocks), k.blocks[b].has_vars
        PROVE  \/ h.blocks[b].has_vars
               \/ \E q \in 1 .. Len(h.blocks) : BranchesTo(h.blocks, q, b) /\ r[q] < r[b]
    BY <1>2, <1>4, <2>1
  <2>2. QED
    BY <1>1, <1>4, <2>1, GrownRanked
<1>7. /\ k.current = h.current /\ Len(k.blocks) = Len(h.blocks)
      /\ \A b \in 1 .. Len(h.blocks) : h.blocks[b].has_vars => k.blocks[b].has_vars
  BY <1>4 DEF Grown, Grows
<1>8. k.blocks[t].has_vars
  <2>1. CASE h.blocks[t].has_vars
    BY <1>7, <2>1
  <2>2. CASE ~h.blocks[t].has_vars
    BY <1>3, <2>2 DEF AfterMerge, MergedBlocks, Opened
  <2>3. QED
    BY <2>1, <2>2
<1>9. Leaving(g, k, W, fs, r, O \ {t})
  BY <1>1, <1>3, <1>4, <1>5, <1>6, <1>7, MergeCovered DEF Leaving
<1>10. QED
  BY <1>4, <1>8, <1>9 DEF k

\* builder_Branch.
LEMMA BranchPlaced ==
  ASSUME NEW g, NEW W, NEW fs, NEW r, NEW t \in 1 .. Len(g.blocks),
         Placed(g, W, fs, r), Open(g), t # g.current,
         g.blocks[t].has_vars \/ (t \in W /\ r[g.current] < r[t])
  PROVE  BranchedTo(g, Branch(g, t), W, fs, r, t)
<1>. DEFINE term == Term("BRANCH", << >>, <<t>>)
            h == SetTerm(g, term, << >>)
<1>1. /\ Sound(g, W, {}) /\ AllUnique(g) /\ LoopsBack(g, fs) /\ Ranked(g, r)
      /\ Stacked(g, fs, r) /\ Covered(g, {})
  BY DEF Placed, Laid
<1>2. g \in IRType /\ g.current \in 1 .. Len(g.blocks)
  BY <1>1 DEF Sound
<1>3. t \in Nat
  BY <1>2, FieldsOfIR DEF IRFields
<1>4. /\ term \in TermType /\ term.id = "BRANCH" /\ term.ops = << >> /\ term.targets = <<t>>
  BY <1>3 DEF Term, TermType
<1>5. TermSet(g, h, term, << >>)
  BY <1>2, <1>4, TimesOfNone, SetTermFields
<1>6. h.current = g.current /\ h \in IRType
  BY <1>5 DEF TermSet, WithBlocks
<1>7. Branch(g, t) = Merged(h, t)
  BY <1>6, BranchIsMerged
<1>. HIDE DEF term, h
<1>8. /\ Sound(h, W, TargetsOf(term)) /\ AllUnique(h) /\ Ranked(h, r) /\ Stacked(h, fs, r)
      /\ LoopsBack(h, fs)
      /\ \A b \in 1 .. Len(g.blocks) : h.blocks[b].has_vars = g.blocks[b].has_vars
  <2>1. TermShape(Block(h))
    <3>1. Block(h).term = term /\ Len(term.targets) = 1
      BY <1>4, <1>5 DEF TermSet
    <3>2. QED
      BY <1>4, <3>1 DEF TermShape
  <2>2. \A i \in 1 .. Len(term.ops) : Defined(g.current, term.ops[i], Len(Block(g).instrs))
    BY <1>4
  <2>3. QED
    BY <1>1, <1>4, <1>5, <2>1, <2>2, TermSound DEF Open
<1>9. Len(h.blocks) = Len(g.blocks) /\ Block(h).term = term /\ Block(h) = h.blocks[g.current]
  BY <1>5, <1>6 DEF TermSet, Block
<1>10. Leaving(g, h, W, fs, r, TargetsOf(term))
  BY <1>1, <1>4, <1>5, <1>6, <1>8, <1>9, TimesOfNone, TermCovered DEF Leaving
<1>11. BranchesTo(h.blocks, h.current, t)
  <2>1. 1 \in 1 .. Len(term.targets) /\ term.targets[1] = t
    BY <1>4
  <2>2. h.blocks[h.current].term.targets = term.targets
    BY <1>6, <1>9
  <2>3. QED
    BY <2>1, <2>2 DEF BranchesTo
<1>12. /\ Leaving(g, Merged(h, t), W, fs, r, TargetsOf(term) \ {t})
       /\ Grown(h, Merged(h, t)) /\ Merged(h, t).blocks[t].has_vars
  BY <1>6, <1>8, <1>9, <1>10, <1>11, MergePlaced
<1>13. TargetsOf(term) \ {t} = {}
  BY <1>4 DEF TargetsOf
<1>14. Block(Merged(h, t)).term.id = "BRANCH"
  <2>1. Merged(h, t).current = g.current /\ Merged(h, t).blocks[g.current].term.id = h.blocks[g.current].term.id
    BY <1>2, <1>6, <1>9, <1>12 DEF Grown, Grows
  <2>2. QED
    BY <1>4, <1>9, <2>1 DEF Block
<1>15. QED
  BY <1>7, <1>12, <1>13, <1>14 DEF BranchedTo, Leaving, Placed, Laid

\* builder_CBranch: t is the block behind the current one.
LEMMA CBranchPlaced ==
  ASSUME NEW g, NEW W, NEW fs, NEW r, NEW cond \in Value,
         NEW t \in 1 .. Len(g.blocks), NEW f \in 1 .. Len(g.blocks),
         Placed(g, W, fs, r), Open(g), Defined(g.current, cond, Len(Block(g).instrs)),
         t # f, t \in W, f \in W, r[g.current] < r[t], r[g.current] < r[f],
         Block(g).next = t
  PROVE  /\ BranchedTo(g, CBranch(g, cond, t, f), W, fs, r, t)
         /\ Block(CBranch(g, cond, t, f)).term.id = "CBRANCH"
<1>. DEFINE term == Term("CBRANCH", <<cond>>, <<t, f>>)
            h == SetTerm(g, term, <<cond>>)
<1>1. /\ Sound(g, W, {}) /\ AllUnique(g) /\ LoopsBack(g, fs) /\ Ranked(g, r)
      /\ Stacked(g, fs, r) /\ Covered(g, {})
  BY DEF Placed, Laid
<1>2. g \in IRType /\ g.current \in 1 .. Len(g.blocks) /\ g.current \notin W
  BY <1>1 DEF Sound
<1>3. t \in Nat /\ f \in Nat
  BY <1>2, FieldsOfIR DEF IRFields
<1>4. /\ term \in TermType /\ term.id = "CBRANCH" /\ term.ops = <<cond>>
      /\ term.targets = <<t, f>>
  BY <1>3 DEF Term, TermType
<1>5. TermSet(g, h, term, <<cond>>)
  BY <1>2, <1>4, TimesOfOne, SetTermFields
<1>6. h.current = g.current /\ h \in IRType
  BY <1>5 DEF TermSet, WithBlocks
<1>7. CBranch(g, cond, t, f) = Merged(Merged(h, t), f)
  BY <1>6, CBranchIsMerged
<1>. HIDE DEF term, h
<1>8. /\ Sound(h, W, TargetsOf(term)) /\ AllUnique(h) /\ Ranked(h, r) /\ Stacked(h, fs, r)
      /\ LoopsBack(h, fs)
      /\ \A b \in 1 .. Len(g.blocks) : h.blocks[b].has_vars = g.blocks[b].has_vars
  <2>1. TermShape(Block(h))
    <3>1. /\ Block(h).term = term /\ Block(h).next = t
          /\ Len(term.targets) = 2 /\ term.targets[1] = t /\ term.targets[2] = f
      BY <1>4, <1>5 DEF TermSet
    <3>2. QED
      BY <1>4, <3>1 DEF TermShape
  <2>2. \A i \in 1 .. Len(term.ops) : Defined(g.current, term.ops[i], Len(Block(g).instrs))
    BY <1>4
  <2>3. QED
    BY <1>1, <1>4, <1>5, <2>1, <2>2, TermSound DEF Open
<1>9. Len(h.blocks) = Len(g.blocks) /\ Block(h).term = term /\ Block(h) = h.blocks[g.current]
  BY <1>5, <1>6 DEF TermSet, Block
<1>10. Leaving(g, h, W, fs, r, TargetsOf(term))
  BY <1>1, <1>4, <1>5, <1>6, <1>8, <1>9, TimesOfOne, TermCovered DEF Leaving
<1>11. BranchesTo(h.blocks, h.current, t) /\ BranchesTo(h.blocks, h.current, f)
  <2>1. /\ 1 \in 1 .. Len(term.targets) /\ term.targets[1] = t
        /\ 2 \in 1 .. Len(term.targets) /\ term.targets[2] = f
    BY <1>4
  <2>2. h.blocks[h.current].term.targets = term.targets
    BY <1>6, <1>9
  <2>3. QED
    BY <2>1, <2>2 DEF BranchesTo
<1>. DEFINE k == Merged(h, t)
<1>12. /\ Leaving(g, k, W, fs, r, TargetsOf(term) \ {t})
       /\ Grown(h, k) /\ k.blocks[t].has_vars
  BY <1>2, <1>6, <1>8, <1>9, <1>10, <1>11, MergePlaced
<1>. HIDE DEF k
<1>13. /\ k.current = g.current /\ Len(k.blocks) = Len(g.blocks)
       /\ k.blocks[g.current].term.targets = h.blocks[g.current].term.targets
       /\ k.blocks[g.current].term.id = h.blocks[g.current].term.id
  BY <1>2, <1>6, <1>9, <1>12 DEF Grown, Grows
<1>14. BranchesTo(k.blocks, k.current, f)
  BY <1>6, <1>11, <1>13 DEF BranchesTo
<1>. DEFINE m == Merged(k, f)
<1>15. Leaving(g, m, W, fs, r, (TargetsOf(term) \ {t}) \ {f}) /\ Grown(k, m)
  BY <1>2, <1>12, <1>13, <1>14, MergePlaced
<1>. HIDE DEF m
<1>16. (TargetsOf(term) \ {t}) \ {f} = {}
  BY <1>4 DEF TargetsOf
<1>17. /\ m.current = g.current /\ m.blocks[g.current].term.id = "CBRANCH"
       /\ m.blocks[t].has_vars
  <2>1. /\ m.blocks[g.current].term.id = k.blocks[g.current].term.id
        /\ k.blocks[t].has_vars => m.blocks[t].has_vars
        /\ m.current = k.current
    BY <1>2, <1>13, <1>15 DEF Grown, Grows
  <2>2. QED
    BY <1>4, <1>9, <1>12, <1>13, <2>1
<1>18. BranchedTo(g, m, W, fs, r, t) /\ Block(m).term.id = "CBRANCH"
  BY <1>15, <1>16, <1>17 DEF BranchedTo, Leaving, Placed, Laid, Block
<1>19. QED
  BY <1>7, <1>18 DEF m, k

\* builder_enter_block.
LEMMA EnteredPlaced ==
  ASSUME NEW g, NEW W, NEW fs, NEW gs \in Seq(FrameType), NEW r, NEW b \in W,
         Placed(g, W, fs, r), Block(g).term.id # "NONE", CanEnter(g, b),
         LoopsBack(g, gs), WaitingIn(gs) = W \ {b}, Lined(b, Len(g.blocks), gs, r)
  PROVE  /\ Standing(EnterBlock(g, b), gs, r)
         /\ Block(EnterBlock(g, b)).has_vars = g.blocks[b].has_vars
<1>. DEFINE h == EnterBlock(g, b)
            bs == g.blocks
            cs == h.blocks
<1>1. /\ Sound(g, W, {}) /\ AllUnique(g) /\ Ranked(g, r)
      /\ g \in IRType /\ g.current \in 1 .. Len(bs)
      /\ b \in 1 .. Len(bs) /\ Waiting(bs[b]) /\ BlockSound(b, bs[b])
      /\ b # g.current
  BY DEF Placed, Laid, Sound
<1>2. Entered(g, h, b) /\ Enabled(bs[b]) = 1 .. Len(bs[b].instrs)
  BY <1>1, EnterFields
<1>. HIDE DEF h
<1>3. PICK x \in BlockType, y \in BlockType : x = bs[b] /\ y = cs[b]
  BY <1>1, <1>2, FieldsOfIR DEF Entered, IRFields
<1>4. PICK n \in Nat : n = Len(x.instrs) /\ n = Len(y.vars)
  BY <1>2, <1>3, BlockFields DEF FieldsTyped, Entered
<1>5. /\ h \in IRType /\ h.current = b /\ h.last = g.last /\ Len(cs) = Len(bs)
      /\ \A c \in 1 .. Len(bs) : c # b => cs[c] = bs[c]
      /\ OtherVars(x, y)
      /\ \A i \in 1 .. n : y.vars[i].name = x.instrs[i].name /\ y.vars[i].val = <<b, i>>
  BY <1>2, <1>3, <1>4 DEF Entered, OtherVars
<1>6. Grows(x, y) /\ BlockSound(b, y) /\ Unique(y)
  <2>1. Declared(y)
    <3>1. \A i, j \in 1 .. n : x.instrs[i].name = x.instrs[j].name => i = j
      BY <1>1, <1>2, <1>3, <1>4 DEF AllUnique, Unique
    <3>2. QED
      BY <1>4, <1>5, <3>1 DEF Declared
  <2>2. NamesIn(x.vars) \subseteq NamesIn(y.vars)
    BY <1>1, <1>3, BlockFields DEF FieldsTyped, Waiting, NamesIn
  <2>3. \A i \in 1 .. Len(y.vars) : Defined(b, y.vars[i].val, Len(x.instrs))
    BY <1>4, <1>5 DEF Defined
  <2>4. Unique(x)
    BY <1>1, <1>3 DEF AllUnique
  <2>5. BlockSound(b, x)
    BY <1>1, <1>3
  <2>6. QED
    BY <1>5, <2>1, <2>2, <2>3, <2>4, <2>5, VarsBecome
<1>7. \A c \in 1 .. Len(bs) :
        /\ Grows(bs[c], cs[c]) /\ BlockSound(c, cs[c])
        /\ cs[c].has_vars = bs[c].has_vars
  <2>1. \A c \in 1 .. Len(bs) : BlockSound(c, bs[c])
    BY <1>1 DEF Sound
  <2>2. \A c : Grows(bs[c], bs[c])
    BY DEF Grows
  <2>3. y.has_vars = x.has_vars
    BY <1>5 DEF OtherVars
  <2>4. QED
    BY <1>3, <1>5, <1>6, <2>1, <2>2, <2>3
<1>8. Ranked(h, r)
  <2>1. ASSUME NEW c \in 1 .. Len(bs)
        PROVE  Neighbours(cs, r, c) /\ FromAhead(cs, r, c)
    <3>1. Neighbours(bs, r, c) /\ FromAhead(bs, r, c)
      BY <1>1 DEF Ranked
    <3>2. \A d \in 1 .. Len(bs) : cs[d].term.targets = bs[d].term.targets
      BY <1>7 DEF Grows
    <3>3. cs[c].prev = bs[c].prev /\ cs[c].next = bs[c].next
      BY <1>7 DEF Grows
    <3>4. Neighbours(cs, r, c)
      BY <1>5, <3>1, <3>3 DEF Neighbours
    <3>5. \A d \in 1 .. Len(bs) : BranchesTo(cs, d, c) <=> BranchesTo(bs, d, c)
      BY <3>2 DEF BranchesTo
    <3>6. cs[c].has_vars = bs[c].has_vars
      BY <1>7 DEF Grows
    <3>7. FromAhead(cs, r, c)
      BY <1>5, <3>1, <3>5, <3>6 DEF FromAhead
    <3>8. QED
      BY <3>4, <3>7
  <2>2. QED
    BY <1>1, <1>5, <2>1 DEF Ranked
<1>9. EdgesSound(cs, b, {})
  <2>1. ASSUME NEW p \in 1 .. Len(bs), NEW k \in 1 .. Len(cs[p].term.targets)
        PROVE  EdgeSound(cs, p, cs[p].term.targets[k])
    <3>1. cs[p].term.targets = bs[p].term.targets
      BY <1>7 DEF Grows
    <3>2. PICK t : t = bs[p].term.targets[k] /\ EdgeSound(bs, p, t)
      BY <1>1, <2>1, <3>1 DEF Sound, EdgesSound
    <3>3. t \in 1 .. Len(bs) /\ t # p /\ bs[t].has_vars
      BY <3>2 DEF EdgeSound
    <3>4. Enabled(cs[t]) = Enabled(bs[t]) /\ cs[t].instrs = bs[t].instrs
      BY <1>3, <1>5, <3>3, SMTT(20) DEF OtherVars, Enabled, Params
    <3>5. NamesIn(bs[p].vars) \subseteq NamesIn(cs[p].vars)
      BY <1>7 DEF Grows
    <3>6. \A i \in Enabled(bs[t]) : bs[t].instrs[i].name \in NamesIn(bs[p].vars)
      BY <3>2 DEF EdgeSound
    <3>7. t \in 1 .. Len(cs) /\ cs[t].has_vars
      BY <1>5, <1>7, <3>3
    <3>. HIDE DEF bs, cs
    <3>8. EdgeSound(cs, p, t)
      BY <3>3, <3>4, <3>5, <3>6, <3>7 DEF EdgeSound
    <3>9. QED
      BY <3>1, <3>2, <3>8
  <2>2. QED
    BY <1>5, <2>1 DEF EdgesSound
<1>10. Sound(h, WaitingIn(gs), {})
  <2>1. \A c \in W \ {b} : Waiting(cs[c]) /\ c \in 1 .. Len(cs)
    BY <1>1, <1>5 DEF Sound
  <2>2. ASSUME NEW c \in 1 .. Len(bs), cs[c].term.id = "NONE"
        PROVE  c = b \/ c \in W \ {b}
    <3>1. bs[c].term.id = "NONE"
      BY <1>7, <2>2 DEF Grows
    <3>2. c = g.current \/ c \in W
      BY <1>1, <3>1 DEF Sound
    <3>3. c # g.current
      BY <3>1 DEF Block
    <3>4. QED
      BY <3>2, <3>3
  <2>3. QED
    BY <1>1, <1>5, <1>7, <1>9, <2>1, <2>2 DEF Sound
<1>11. AllUnique(h)
  BY <1>1, <1>3, <1>5, <1>6 DEF AllUnique
<1>12. LoopsBack(h, gs)
  BY <1>5, <1>7 DEF LoopsBack, Grows
<1>13. Stacked(h, gs, r)
  BY <1>5 DEF Stacked
<1>14. Open(h) /\ Block(h).has_vars = bs[b].has_vars
  <2>1. Block(h) = cs[b] /\ cs[b].term.targets = bs[b].term.targets
    BY <1>1, <1>5, <1>7 DEF Block, Grows
  <2>2. Len(bs[b].term.targets) = 0
    BY <1>1 DEF Waiting, BlockSound, TermShape
  <2>3. QED
    BY <1>1, <1>7, <2>1, <2>2 DEF Open
<1>15. Covered(h, {})
  BY <1>1, <1>2, EnteredCovered DEF Placed
<1>16. QED
  BY <1>8, <1>10, <1>11, <1>12, <1>13, <1>14, <1>15 DEF Standing, Placed, Laid, h

-----------------------------------------------------------------------------
(***************************************************************************)
(* The stack of statements.                                                *)
(***************************************************************************)
\* One more statement, one less.
Pushed(fs, gs, f) ==
  /\ gs \in Seq(FrameType) /\ Len(gs) = Len(fs) + 1 /\ gs[Len(fs) + 1] = f
  /\ \A i \in 1 .. Len(fs) : gs[i] = fs[i]

LEMMA AppendPushes ==
  ASSUME NEW fs \in Seq(FrameType), NEW f \in FrameType
  PROVE  Pushed(fs, Append(fs, f), f)
BY DEF Pushed

LEMMA PopPushes ==
  ASSUME NEW fs \in Seq(FrameType), Len(fs) > 0
  PROVE  /\ Pop(fs, 1) \in Seq(FrameType) /\ Top(fs) \in FrameType
         /\ Len(Pop(fs, 1)) = Len(fs) - 1
         /\ Pushed(Pop(fs, 1), fs, Top(fs))
<1>1. PICK n \in Nat : n = Len(fs) - 1
  OBVIOUS
<1>2. Pop(fs, 1) = [i \in 1 .. n |-> fs[i]]
  BY <1>1 DEF Pop
<1>3. \A i \in 1 .. n : fs[i] \in FrameType
  BY <1>1
<1>4. Pop(fs, 1) \in Seq(FrameType) /\ Len(Pop(fs, 1)) = n
  BY <1>2, <1>3
<1>5. Top(fs) = fs[n + 1] /\ fs[n + 1] \in FrameType
  BY <1>1 DEF Top
<1>6. QED
  BY <1>1, <1>2, <1>4, <1>5 DEF Pushed

LEMMA PushedWaiting ==
  ASSUME NEW fs \in Seq(FrameType), NEW gs, NEW f, Pushed(fs, gs, f)
  PROVE  WaitingIn(gs) = WaitingIn(fs) \cup Awaits(f)
<1>1. PICK n \in Nat : n = Len(fs)
  OBVIOUS
<1>2. /\ Len(gs) = n + 1 /\ gs[n + 1] = f
      /\ \A i \in 1 .. n : gs[i] = fs[i]
  BY <1>1 DEF Pushed
<1>3. \A i \in 1 .. n + 1 : i \in 1 .. n \/ i = n + 1
  OBVIOUS
<1>4. \A i \in 1 .. n : i \in 1 .. n + 1
  OBVIOUS
<1>5. n + 1 \in 1 .. n + 1
  OBVIOUS
<1>6. \A b : b \in WaitingIn(gs) <=> \E i \in 1 .. n + 1 : b \in Awaits(gs[i])
  BY <1>2 DEF WaitingIn
<1>7. \A b : b \in WaitingIn(fs) <=> \E i \in 1 .. n : b \in Awaits(fs[i])
  BY <1>1 DEF WaitingIn
<1>8. \A b : b \in WaitingIn(gs) <=> b \in WaitingIn(fs) \/ b \in Awaits(f)
  BY <1>2, <1>3, <1>4, <1>5, <1>6, <1>7
<1>9. QED
  BY <1>8

LEMMA PushedLined ==
  ASSUME NEW c, NEW len, NEW r, NEW fs \in Seq(FrameType), NEW gs, NEW f, Pushed(fs, gs, f)
  PROVE  Lined(c, len, gs, r) <=>
           /\ Lined(c, len, fs, r)
           /\ \A b \in Awaits(f) : /\ b \in 1 .. len /\ r[c] < r[b]
                                   /\ \A d \in WaitingIn(fs) : r[b] < r[d]
           /\ f.kind = "then" => r[f.else] < r[f.after]
<1>1. PICK n \in Nat : n = Len(fs)
  OBVIOUS
<1>2. /\ Len(gs) = n + 1 /\ gs[n + 1] = f
      /\ \A i \in 1 .. n : gs[i] = fs[i]
  BY <1>1 DEF Pushed
<1>3. \A d : d \in WaitingIn(fs) <=> \E i \in 1 .. n : d \in Awaits(fs[i])
  BY <1>1 DEF WaitingIn
<1>4. ASSUME Lined(c, len, gs, r) PROVE Lined(c, len, fs, r)
  <2>1. \A i \in 1 .. n : i \in 1 .. n + 1 /\ \A j \in 1 .. i - 1 : j \in 1 .. n
    OBVIOUS
  <2>2. \A i \in 1 .. n + 1 :
          /\ \A b \in Awaits(gs[i]) : b \in 1 .. len /\ r[c] < r[b]
          /\ \A j \in 1 .. i - 1 : \A b \in Awaits(gs[i]), d \in Awaits(gs[j]) : r[b] < r[d]
          /\ gs[i].kind = "then" => r[gs[i].else] < r[gs[i].after]
    BY <1>2, <1>4 DEF Lined
  <2>3. \A i \in 1 .. n :
          /\ \A b \in Awaits(fs[i]) : b \in 1 .. len /\ r[c] < r[b]
          /\ \A j \in 1 .. i - 1 : \A b \in Awaits(fs[i]), d \in Awaits(fs[j]) : r[b] < r[d]
          /\ fs[i].kind = "then" => r[fs[i].else] < r[fs[i].after]
    BY <1>2, <2>1, <2>2
  <2>4. QED
    BY <1>1, <2>3 DEF Lined
<1>5. ASSUME Lined(c, len, gs, r)
      PROVE  /\ \A b \in Awaits(f) : /\ b \in 1 .. len /\ r[c] < r[b]
                                     /\ \A d \in WaitingIn(fs) : r[b] < r[d]
             /\ f.kind = "then" => r[f.else] < r[f.after]
  BY <1>2, <1>3, <1>5 DEF Lined
<1>6. ASSUME Lined(c, len, fs, r),
             \A b \in Awaits(f) : /\ b \in 1 .. len /\ r[c] < r[b]
                                  /\ \A d \in WaitingIn(fs) : r[b] < r[d],
             f.kind = "then" => r[f.else] < r[f.after]
      PROVE  Lined(c, len, gs, r)
  <2>1. ASSUME NEW i \in 1 .. n + 1
        PROVE  /\ \A b \in Awaits(gs[i]) : b \in 1 .. len /\ r[c] < r[b]
               /\ \A j \in 1 .. i - 1 : \A b \in Awaits(gs[i]), d \in Awaits(gs[j]) : r[b] < r[d]
               /\ gs[i].kind = "then" => r[gs[i].else] < r[gs[i].after]
    <3>1. CASE i \in 1 .. n
      BY <1>1, <1>2, <1>6, <3>1 DEF Lined
    <3>2. CASE i = n + 1
      BY <1>2, <1>3, <1>6, <3>2
    <3>3. QED
      BY <3>1, <3>2
  <2>2. QED
    BY <1>2, <2>1 DEF Lined
<1>7. QED
  BY <1>4, <1>5, <1>6

\* The blocks of statements from another block on.
LEMMA LinedFrom ==
  ASSUME NEW c, NEW d, NEW len, NEW r, NEW fs, Lined(c, len, fs, r),
         \A b \in WaitingIn(fs) : r[d] < r[b]
  PROVE  Lined(d, len, fs, r)
<1>1. \A i \in 1 .. Len(fs) : \A b \in Awaits(fs[i]) : b \in WaitingIn(fs)
  BY DEF WaitingIn
<1>2. QED
  BY <1>1 DEF Lined

LEMMA LinedBlocks ==
  ASSUME NEW c, NEW len, NEW r, NEW fs, Lined(c, len, fs, r)
  PROVE  \A b \in WaitingIn(fs) : b \in 1 .. len /\ r[c] < r[b]
BY DEF Lined, WaitingIn

LEMMA PushedLoops ==
  ASSUME NEW g, NEW fs \in Seq(FrameType), NEW gs, NEW f, Pushed(fs, gs, f)
  PROVE  LoopsBack(g, gs) <=>
           /\ LoopsBack(g, fs)
           /\ f.kind = "while" => /\ f.cond \in 1 .. Len(g.blocks)
                                  /\ g.blocks[f.cond].has_vars
                                  /\ g.blocks[f.cond].term.id = "CBRANCH"
<1>1. PICK n \in Nat : n = Len(fs)
  OBVIOUS
<1>2. /\ Len(gs) = n + 1 /\ gs[n + 1] = f
      /\ \A i \in 1 .. n : gs[i] = fs[i]
  BY <1>1 DEF Pushed
<1>3. \A i \in 1 .. n + 1 : i \in 1 .. n \/ i = n + 1
  OBVIOUS
<1>4. \A i \in 1 .. n : i \in 1 .. n + 1
  OBVIOUS
<1>5. n + 1 \in 1 .. n + 1
  OBVIOUS
<1>6. QED
  BY <1>1, <1>2, <1>3, <1>4, <1>5 DEF LoopsBack

LEMMA StatementsPushed ==
  ASSUME NEW fs, Statements(fs), NEW f \in FrameType
  PROVE  Statements(Append(fs, f)) /\ Pushed(fs, Append(fs, f), f)
<1>1. Pushed(fs, Append(fs, f), f)
  BY AppendPushes DEF Statements
<1>2. Len(fs) \in Nat
  BY DEF Statements
<1>3. QED
  BY <1>1, <1>2 DEF Pushed, Statements

LEMMA StatementsPopped ==
  ASSUME NEW fs, Statements(fs), Top(fs).kind # "func"
  PROVE  Statements(Pop(fs, 1)) /\ Pushed(Pop(fs, 1), fs, Top(fs)) /\ Top(fs) \in FrameType
<1>1. PICK n \in Nat : n = Len(fs) - 1 /\ Len(fs) = n + 1 /\ fs \in Seq(FrameType)
  BY DEF Statements
<1>2. /\ Pop(fs, 1) \in Seq(FrameType) /\ Top(fs) \in FrameType /\ Len(Pop(fs, 1)) = n
      /\ Pushed(Pop(fs, 1), fs, Top(fs))
  BY <1>1, PopPushes
<1>3. n > 0
  BY <1>1 DEF Top, Statements
<1>4. Pop(fs, 1)[1] = fs[1]
  BY <1>2, <1>3 DEF Pushed
<1>5. QED
  BY <1>2, <1>3, <1>4 DEF Statements

-----------------------------------------------------------------------------
(***************************************************************************)
(* The steps of the parser.                                                *)
(***************************************************************************)
LEMMA InitSound ==
  Init => ParserInv
<1>. SUFFICES ASSUME Init PROVE ParserInv
  OBVIOUS
<1>1. /\ ir = NewFunction /\ frames = <<[kind |-> "func"]>> /\ mode = "params" /\ want = "none"
      /\ vals = << >> /\ text \in Sources /\ status = "parsing"
  BY DEF Init
<1>2. /\ NewBlock.instrs = << >> /\ NewBlock.num_params = 0 /\ NewBlock.vars = << >>
      /\ NewBlock.has_vars = FALSE /\ NewBlock.prev = 0 /\ NewBlock.next = 0
      /\ NewBlock.term = Term("NONE", << >>, << >>)
  BY DEF NewBlock
<1>3. NewBlock.term.id = "NONE" /\ NewBlock.term.ops = << >> /\ NewBlock.term.targets = << >>
  BY <1>2 DEF Term
<1>4. NewBlock \in BlockType
  <2>1. Term("NONE", << >>, << >>) \in TermType
    BY DEF Term, TermType
  <2>2. << >> \in Seq(InstrType) /\ << >> \in Seq(VarType)
    OBVIOUS
  <2>3. QED
    BY <2>1, <2>2 DEF NewBlock, BlockType
<1>5. Params(NewBlock) = {} /\ Enabled(NewBlock) = {}
  BY <1>2 DEF Params, Enabled
<1>6. BlockSound(1, NewBlock) /\ Unique(NewBlock)
  BY <1>2, <1>3, <1>5, FS_EmptySet
    DEF BlockSound, LocalBlock, Declared, TermShape, Assignments, Unique
<1>. HIDE DEF NewBlock
<1>7. /\ ir.blocks = <<NewBlock>> /\ ir.current = 1 /\ ir.last = 1
      /\ Len(ir.blocks) = 1 /\ ir.blocks[1] = NewBlock
  BY <1>1 DEF NewFunction
<1>8. ir \in IRType
  BY <1>1, <1>4 DEF NewFunction, IRType
<1>9. WaitingIn(frames) = {}
  BY <1>1 DEF Awaits, WaitingIn
<1>10. Sound(ir, WaitingIn(frames), {})
  BY <1>3, <1>6, <1>7, <1>8, <1>9 DEF EdgesSound, Sound
<1>. DEFINE r == [b \in 1 .. 1 |-> 1]
<1>11. Ranked(ir, r)
  <2>1. r[1] = 1 /\ r \in [1 .. 1 -> 1 .. 1] /\ \A b \in 1 .. 1 : b = 1
    OBVIOUS
  <2>. HIDE DEF r
  <2>2. Positions(r, 1)
    BY <2>1 DEF Positions
  <2>3. Neighbours(ir.blocks, r, 1) /\ FromAhead(ir.blocks, r, 1)
    BY <1>2, <1>7, <2>1 DEF Neighbours, FromAhead
  <2>4. QED
    BY <1>7, <2>1, <2>2, <2>3 DEF Ranked
<1>12. Standing(ir, frames, r)
  <2>1. Len(frames) = 1 /\ frames[1].kind = "func" /\ \A i \in 1 .. Len(frames) : i = 1
    BY <1>1
  <2>2. Awaits(frames[1]) = {}
    BY <2>1 DEF Awaits
  <2>3. LoopsBack(ir, frames) /\ Stacked(ir, frames, r)
    BY <2>1, <2>2 DEF LoopsBack, Stacked, Lined
  <2>4. AllUnique(ir)
    BY <1>6, <1>7 DEF AllUnique
  <2>5. Open(ir)
    BY <1>3, <1>7 DEF Open, Block
  <2>6. Covered(ir, {})
    BY <1>2, <1>7 DEF Covered, CoveredBlock
  <2>7. QED
    BY <1>10, <1>11, <2>3, <2>4, <2>5, <2>6 DEF Standing, Placed, Laid
<1>13. OnlyParameters(ir)
  BY <1>2, <1>7 DEF OnlyParameters, Block
<1>14. Shape
  <2>1. Statements(frames)
    BY <1>1 DEF FrameType, Statements
  <2>2. \E t \in Sources, n \in Int : text = TextOf(t, n)
    BY <1>1, SourcesAssumption DEF TextOf
  <2>3. QED
    BY <1>1, <2>1, <2>2 DEF Shape
<1>15. vals \in Seq(Operands(ir))
  BY <1>1
<1>16. QED
  BY <1>1, <1>12, <1>13, <1>14, <1>15 DEF ParserInv

\* The current block has more, and what is waiting in an expression still holds.
Advanced(g, h) ==
  /\ \A fs, r : Standing(g, fs, r) => Standing(h, fs, r)
  /\ Block(g).has_vars => Block(h).has_vars
  /\ h.current = g.current
  /\ Operands(g) \subseteq Operands(h)

LEMMA ExpressionKeeps ==
  ASSUME ParserInv, Expression, Advanced(ir, ir'), vals' \in Seq(Operands(ir'))
  PROVE  ParserInv'
<1>1. /\ status = "parsing" /\ mode = "expression"
      /\ frames' = frames /\ mode' = mode /\ want' = want /\ text' = text /\ status' = status
  BY DEF Expression, Parsing
<1>2. PICK r : Standing(ir, frames, r)
  BY <1>1 DEF ParserInv
<1>3. Standing(ir', frames', r)
  BY <1>1, <1>2 DEF Advanced
<1>4. Shape'
  BY <1>1 DEF ParserInv, Shape
<1>5. want' = "while" => Block(ir').has_vars
  BY <1>1 DEF ParserInv, Advanced
<1>6. QED
  BY <1>1, <1>3, <1>4, <1>5 DEF ParserInv

\* What the builder adds to the current block.
LEMMA GrownAdvanced ==
  ASSUME NEW g, NEW h, Grown(g, h), AllUnique(h), Covered(h, {}),
         \A b \in 1 .. Len(g.blocks) : h.blocks[b].has_vars => g.blocks[b].has_vars,
         g.current \in 1 .. Len(g.blocks),
         NEW n \in Nat, n = Len(Block(g).instrs), n <= Len(Block(h).instrs),
         \A i \in 1 .. n : Block(h).instrs[i].id = Block(g).instrs[i].id,
         Len(Block(h).instrs) \in Nat
  PROVE  Advanced(g, h)
<1>1. \A fs, r : Standing(g, fs, r) => Standing(h, fs, r)
  BY GrownStanding
<1>2. h.current = g.current /\ (Block(g).has_vars => Block(h).has_vars)
  BY DEF Grown, Grows, Block
<1>3. ASSUME NEW v, Defined(g.current, v, n)
      PROVE  Defined(h.current, v, Len(Block(h).instrs)) /\ v[2] \in 1 .. n
  BY <1>2, <1>3 DEF Defined
<1>4. ASSUME NEW v \in OperandType, OperandSound(g, v) PROVE OperandSound(h, v)
  BY <1>3, <1>4 DEF OperandSound
<1>5. QED
  BY <1>1, <1>2, <1>4 DEF Advanced, Operands

\* One more instruction, and its value.
Computed(g, h, instr) ==
  LET n == Len(Block(g).instrs)
  IN  /\ Advanced(g, h)
      /\ n \in Nat /\ Len(Block(h).instrs) = n + 1 /\ Block(h).instrs[n + 1] = instr
      /\ LastValue(h) = <<g.current, n + 1>>
      /\ Defined(g.current, LastValue(h), n + 1) /\ LastValue(h) \in Value

LEMMA EmitAdvances ==
  ASSUME NEW g, NEW fs, NEW r, Standing(g, fs, r), NEW instr \in InstrType,
         Usable(g.current, Block(g), instr), instr.id # "PARAM", NEW uses, Family(uses),
         Paid(instr, uses), instr.refs >= 0
  PROVE  Computed(g, Emit(g, instr, uses), instr)
<1>. DEFINE h == Emit(g, instr, uses)
            x == Block(g)
            y == Block(h)
<1>1. Sound(g, WaitingIn(fs), {}) /\ AllUnique(g) /\ Covered(g, {}) /\ Open(g)
  BY DEF Standing, Placed, Laid
<1>2. g \in IRType /\ g.current \in 1 .. Len(g.blocks) /\ BlockSound(g.current, x)
  BY <1>1 DEF Sound, Block
<1>3. Emitted(g, h, instr, uses)
  BY <1>2, EmitFields
<1>. HIDE DEF h
<1>4. h \in IRType /\ h.current = g.current /\ Len(h.blocks) = Len(g.blocks)
  BY <1>3 DEF Emitted, WithBlocks
<1>5. x \in BlockType /\ y \in BlockType
  BY <1>2, <1>4, FieldsOfIR DEF IRFields, Block
<1>. HIDE DEF x, y
<1>6. PICK n \in Nat : n = Len(x.instrs)
  BY <1>5, BlockFields DEF FieldsTyped
<1>7. /\ Extended(x, y, instr) /\ y.num_params = x.num_params
      /\ y.has_vars = x.has_vars
  BY <1>3, <1>6 DEF Emitted, Extended, SameRest, x, y
<1>8. Grows(x, y) /\ BlockSound(g.current, y) /\ (Unique(x) => Unique(y))
  BY <1>2, <1>5, <1>7, EmitBecomes DEF x
<1>9. Unique(x)
  BY <1>1, <1>2 DEF AllUnique, Block, x
<1>10. \A b \in 1 .. Len(g.blocks) : b # g.current => SameBlock(g.blocks[b], h.blocks[b])
  BY <1>3 DEF Emitted
<1>11. WithBlocks(g, h, h.blocks)
  BY <1>3 DEF Emitted
<1>12. /\ Grown(g, h) /\ AllUnique(h)
       /\ \A b \in 1 .. Len(g.blocks) : h.blocks[b].has_vars => g.blocks[b].has_vars
  BY <1>1, <1>4, <1>7, <1>8, <1>9, <1>10, <1>11, OneGrown DEF x, y
<1>13. /\ Len(y.instrs) = n + 1 /\ y.instrs[n + 1] = instr
       /\ \A i \in 1 .. n : y.instrs[i].id = x.instrs[i].id
  BY <1>6, <1>7 DEF Extended, SameInstr
<1>14. Advanced(g, h)
  <2>1. Covered(h, {})
    BY <1>1, <1>3, <1>12, GrownKeepsParameters, EmitCovered
  <2>2. QED
    BY <1>2, <1>6, <1>12, <1>13, <2>1, GrownAdvanced DEF x, y
<1>15. LastValue(h) = <<g.current, n + 1>>
  BY <1>4, <1>13 DEF LastValue, y
<1>16. g.current \in Nat
  BY <1>2, FieldsOfIR DEF IRFields
<1>17. Defined(g.current, <<g.current, n + 1>>, n + 1) /\ <<g.current, n + 1>> \in Value
  BY <1>16 DEF Defined, Value
<1>18. QED
  BY <1>6, <1>13, <1>14, <1>15, <1>17 DEF Computed, h, x, y

\* The operands of an expression.
LEMMA OperandsPopped ==
  ASSUME NEW S, NEW s \in Seq(S), NEW k \in Nat, k <= Len(s)
  PROVE  Pop(s, k) \in Seq(S)
<1>1. PICK m \in Nat : m = Len(s) - k /\ m <= Len(s)
  OBVIOUS
<1>2. Pop(s, k) = [i \in 1 .. m |-> s[i]]
  BY <1>1 DEF Pop
<1>3. \A i \in 1 .. m : s[i] \in S
  BY <1>1
<1>4. QED
  BY <1>2, <1>3

LEMMA OperandReplaced ==
  ASSUME NEW S, NEW s \in Seq(S), NEW x \in S, Len(s) > 0
  PROVE  [s EXCEPT ![Len(s)] = x] \in Seq(S)
OBVIOUS

LEMMA OperandsCombined ==
  ASSUME NEW S, NEW s \in Seq(S), NEW x \in S, Len(s) >= 2
  PROVE  Append(Pop(s, 2), x) \in Seq(S)
<1>1. Pop(s, 2) \in Seq(S)
  BY OperandsPopped
<1>2. QED
  BY <1>1

LEMMA ExpressionContext ==
  ASSUME ParserInv, status = "parsing"
  PROVE  /\ \E r : Standing(ir, frames, r)
         /\ Sound(ir, WaitingIn(frames), {}) /\ AllUnique(ir)
         /\ ir \in IRType /\ ir.current \in 1 .. Len(ir.blocks)
         /\ Block(ir) \in BlockType /\ BlockSound(ir.current, Block(ir))
         /\ vals \in Seq(Operands(ir))
         /\ text.names \subseteq AllNames
<1>1. PICK r : Standing(ir, frames, r)
  BY DEF ParserInv
<1>2. Sound(ir, WaitingIn(frames), {}) /\ AllUnique(ir)
  BY <1>1 DEF Standing, Placed, Laid
<1>3. /\ ir \in IRType /\ ir.current \in 1 .. Len(ir.blocks)
      /\ BlockSound(ir.current, Block(ir))
  BY <1>2 DEF Sound, Block
<1>4. Block(ir) \in BlockType
  BY <1>3, FieldsOfIR DEF IRFields, Block
<1>5. text.names \subseteq AllNames
  BY DEF ParserInv, Shape, TextOf, AllNames
<1>6. vals \in Seq(Operands(ir))
  BY DEF ParserInv
<1>7. QED
  BY <1>1, <1>2, <1>3, <1>4, <1>5, <1>6

LEMMA InstrTyped ==
  ASSUME NEW id \in Ids, NEW ops \in Seq(Value)
  PROVE  /\ Instr(id, Null, ops) \in InstrType
         /\ Instr(id, Null, ops).id = id /\ Instr(id, Null, ops).ops = ops
         /\ Instr(id, Null, ops).refs = 0
BY DEF Instr, InstrType

LEMMA OperandMade ==
  ASSUME NEW g, NEW val \in Value, NEW lvalue \in LValueType,
         Defined(g.current, val, Len(Block(g).instrs)),
         lvalue.kind = "attr" => Defined(g.current, lvalue.loc, Len(Block(g).instrs))
  PROVE  Operand(val, lvalue) \in Operands(g)
BY DEF Operand, Operands, OperandType, OperandSound

LEMMA ValueMade ==
  ASSUME NEW g, NEW h, NEW instr, Computed(g, h, instr), NEW lvalue \in LValueType,
         lvalue.kind = "attr" => Defined(h.current, lvalue.loc, Len(Block(h).instrs))
  PROVE  Operand(LastValue(h), lvalue) \in Operands(h)
BY OperandMade DEF Computed, Advanced

LEMMA OperandParts ==
  ASSUME NEW g, NEW v \in Operands(g)
  PROVE  /\ v \in OperandType /\ v.val \in Value /\ v.lvalue \in LValueType /\ v.open \in BOOLEAN
         /\ Defined(g.current, v.val, Len(Block(g).instrs))
         /\ v.lvalue.kind = "attr" => Defined(g.current, v.lvalue.loc, Len(Block(g).instrs))
         /\ v.open => Block(g).instrs[v.val[2]].id = "CALL"
BY DEF Operands, OperandType, OperandSound

LEMMA NoLValueTyped ==
  NoLValue \in LValueType /\ NoLValue.kind = "none"
BY DEF NoLValue, LValueType

LEMMA SelfAdvanced ==
  ASSUME NEW g
  PROVE  Advanced(g, g)
BY DEF Advanced

LEMMA VariableSound ==
  ASSUME ParserInv, NEW x \in text.names, Variable(x)
  PROVE  ParserInv'
<1>1. /\ Expression /\ HasVar(ir, x) /\ ir' = ir
      /\ vals' = Append(vals, Operand(GetVar(ir, x), [kind |-> "var", name |-> x]))
  BY DEF Variable
<1>2. /\ Block(ir) \in BlockType /\ BlockSound(ir.current, Block(ir))
      /\ vals \in Seq(Operands(ir)) /\ x \in AllNames
  BY <1>1, ExpressionContext DEF Expression, Parsing
<1>. DEFINE lvalue == [kind |-> "var", name |-> x]
<1>3. lvalue \in LValueType /\ lvalue.kind = "var"
  BY <1>2 DEF LValueType
<1>. HIDE DEF lvalue
<1>4. GetVar(ir, x) \in Value /\ Defined(ir.current, GetVar(ir, x), Len(Block(ir).instrs))
  <2>1. PICK vs \in Seq(VarType) : vs = Block(ir).vars
    BY <1>2, BlockFields DEF FieldsTyped
  <2>2. /\ \E i \in DOMAIN vs : vs[i].name = x
        /\ \A i \in 1 .. Len(vs) : vs[i] \in VarType
    BY <1>1, <2>1 DEF HasVar, NamesIn
  <2>3. PICK i \in 1 .. Len(vs) : i = CHOOSE j \in DOMAIN vs : vs[j].name = x
    BY <2>1, <2>2
  <2>4. GetVar(ir, x) = vs[i].val
    BY <2>1, <2>3 DEF GetVar, ValueIn
  <2>5. vs[i] \in VarType
    BY <2>2
  <2>6. vs[i].val \in Value
    BY <2>5 DEF VarType
  <2>7. Defined(ir.current, vs[i].val, Len(Block(ir).instrs))
    BY <1>2, <2>1, <2>5 DEF BlockSound, LocalBlock
  <2>8. QED
    BY <2>4, <2>6, <2>7
<1>5. Operand(GetVar(ir, x), lvalue) \in Operands(ir)
  BY <1>3, <1>4, OperandMade
<1>6. vals' \in Seq(Operands(ir'))
  BY <1>1, <1>2, <1>5 DEF lvalue
<1>7. QED
  BY <1>1, <1>6, SelfAdvanced, ExpressionKeeps

LEMMA LeafSound ==
  ASSUME ParserInv, NEW id \in {"INT", "GLOBAL", "NEW_OBJECT"}, Leaf(id)
  PROVE  ParserInv'
<1>. DEFINE instr == Instr(id, Null, << >>)
<1>1. /\ Expression /\ ir' = Emit(ir, instr, << >>)
      /\ vals' = Append(vals, Operand(LastValue(ir'), NoLValue))
  BY DEF Leaf
<1>2. PICK r : Standing(ir, frames, r)
  BY <1>1, ExpressionContext DEF Expression, Parsing
<1>3. instr \in InstrType /\ instr.id = id /\ instr.ops = << >> /\ instr.refs = 0
  <2>1. id \in Ids /\ << >> \in Seq(Value)
    BY DEF Ids
  <2>2. QED
    BY <2>1, InstrTyped
<1>. HIDE DEF instr
<1>4. Usable(ir.current, Block(ir), instr) /\ instr.id # "PARAM"
  BY <1>3 DEF Usable
<1>5. Computed(ir, ir', instr)
  BY <1>1, <1>2, <1>3, <1>4, TimesOfNone, EmitAdvances DEF Paid
<1>6. Operand(LastValue(ir'), NoLValue) \in Operands(ir')
  BY <1>5, ValueMade, NoLValueTyped
<1>7. vals' \in Seq(Operands(ir'))
  BY <1>1, <1>5, <1>6 DEF ParserInv, Computed, Advanced
<1>8. QED
  BY <1>1, <1>5, <1>7, ExpressionKeeps DEF Computed

LEMMA TwoUses ==
  ASSUME NEW u \in Value, NEW v \in Value
  PROVE  Family(<<u, v>>) /\ <<u, v>> \in Seq(Value)
<1>1. DOMAIN <<u, v>> \subseteq 1 .. 2
  OBVIOUS
<1>2. QED
  BY <1>1 DEF Family

\* The last operand and the one before it.
LEMMA LastOperands ==
  ASSUME NEW g, NEW s \in Seq(Operands(g))
  PROVE  /\ Len(s) > 0 => Top(s) \in Operands(g)
         /\ Len(s) >= 2 => s[Len(s) - 1] \in Operands(g) /\ Top(s) \in Operands(g)
<1>1. PICK n \in Nat : n = Len(s)
  OBVIOUS
<1>2. \A i \in 1 .. n : s[i] \in Operands(g)
  BY <1>1
<1>3. QED
  BY <1>1, <1>2 DEF Top

LEMMA CombineSound ==
  ASSUME ParserInv, NEW id \in {"ADD", "SUB", "CMP"}, Combine(id)
  PROVE  ParserInv'
<1>1. Expression /\ TwoOperands
  BY DEF Combine
<1>2. PICK r : Standing(ir, frames, r)
  BY <1>1, ExpressionContext DEF Expression, Parsing
<1>3. vals \in Seq(Operands(ir)) /\ Len(vals) >= 2
  BY <1>1 DEF ParserInv, TwoOperands
<1>4. PICK a \in Operands(ir), b \in Operands(ir) : a = vals[Len(vals) - 1] /\ b = Top(vals)
  BY <1>3, LastOperands
<1>5. PICK lvalue : lvalue = IF b.lvalue = NoLValue THEN a.lvalue ELSE b.lvalue
  OBVIOUS
<1>6. PICK instr : instr = Instr(id, Null, <<a.val, b.val>>)
  OBVIOUS
<1>7. /\ ir' = Emit(ir, instr, <<a.val, b.val>>)
      /\ vals' = Append(Pop(vals, 2), Operand(LastValue(ir'), lvalue))
  BY <1>4, <1>5, <1>6 DEF Combine
<1>8. /\ a.val \in Value /\ b.val \in Value
      /\ Defined(ir.current, a.val, Len(Block(ir).instrs))
      /\ Defined(ir.current, b.val, Len(Block(ir).instrs))
  BY OperandParts
<1>9. instr \in InstrType /\ instr.id = id /\ instr.ops = <<a.val, b.val>> /\ instr.refs = 0
  <2>1. id \in Ids /\ <<a.val, b.val>> \in Seq(Value)
    BY <1>8 DEF Ids
  <2>2. QED
    BY <1>6, <2>1, InstrTyped
<1>10. Usable(ir.current, Block(ir), instr) /\ instr.id # "PARAM"
  BY <1>8, <1>9 DEF Usable
<1>11. Computed(ir, ir', instr)
  BY <1>2, <1>7, <1>8, <1>9, <1>10, TwoUses, EmitAdvances DEF Paid
<1>12. a \in Operands(ir') /\ b \in Operands(ir')
  BY <1>11 DEF Computed, Advanced
<1>13. /\ lvalue \in LValueType
       /\ lvalue.kind = "attr" => Defined(ir'.current, lvalue.loc, Len(Block(ir').instrs))
  BY <1>5, <1>12, OperandParts
<1>14. Operand(LastValue(ir'), lvalue) \in Operands(ir')
  BY <1>11, <1>13, ValueMade
<1>15. vals' \in Seq(Operands(ir'))
  <2>1. vals \in Seq(Operands(ir'))
    BY <1>3, <1>11 DEF Computed, Advanced
  <2>2. QED
    BY <1>3, <1>7, <1>14, <2>1, OperandsCombined
<1>16. QED
  BY <1>1, <1>11, <1>15, ExpressionKeeps DEF Computed

LEMMA AdvancedTwice ==
  ASSUME NEW g, NEW h, NEW k, Advanced(g, h), Advanced(h, k)
  PROVE  Advanced(g, k)
BY DEF Advanced

LEMMA AttributeSound ==
  ASSUME ParserInv, Attribute
  PROVE  ParserInv'
<1>1. Expression /\ vals # << >>
  BY DEF Attribute
<1>2. PICK r : Standing(ir, frames, r)
  BY <1>1, ExpressionContext DEF Expression, Parsing
<1>3. vals \in Seq(Operands(ir)) /\ Len(vals) > 0
  BY <1>1 DEF ParserInv
<1>4. PICK v \in Operands(ir) : v = Top(vals)
  BY <1>3, LastOperands
<1>5. PICK first, second, located, loc :
        /\ first = Instr("GET_ATTR", Null, <<v.val>>) /\ located = Emit(ir, first, <<v.val>>)
        /\ loc = LastValue(located) /\ second = Instr("GET_LOC", Null, <<loc>>)
  OBVIOUS
<1>6. /\ ir' = Emit(located, second, <<loc>>)
      /\ vals' = [vals EXCEPT ![Len(vals)] =
                    Operand(LastValue(ir'), [kind |-> "attr", loc |-> loc])]
  BY <1>4, <1>5 DEF Attribute
<1>7. v.val \in Value /\ Defined(ir.current, v.val, Len(Block(ir).instrs))
  BY OperandParts
<1>8. Computed(ir, located, first)
  <2>1. first \in InstrType /\ first.id = "GET_ATTR" /\ first.ops = <<v.val>> /\ first.refs = 0
    <3>1. "GET_ATTR" \in Ids /\ <<v.val>> \in Seq(Value)
      BY <1>7 DEF Ids
    <3>2. QED
      BY <1>5, <3>1, InstrTyped
  <2>2. Usable(ir.current, Block(ir), first)
    BY <1>7, <2>1 DEF Usable
  <2>3. QED
    BY <1>2, <1>5, <1>7, <2>1, <2>2, TimesOfOne, EmitAdvances DEF Paid
<1>9. PICK n \in Nat : /\ n = Len(Block(located).instrs) /\ loc \in Value
                       /\ Defined(located.current, loc, n)
  BY <1>5, <1>8 DEF Computed, Advanced
<1>10. Computed(located, ir', second)
  <2>1. second \in InstrType /\ second.id = "GET_LOC" /\ second.ops = <<loc>> /\ second.refs = 0
    <3>1. "GET_LOC" \in Ids /\ <<loc>> \in Seq(Value)
      BY <1>9 DEF Ids
    <3>2. QED
      BY <1>5, <3>1, InstrTyped
  <2>2. Usable(located.current, Block(located), second)
    BY <1>9, <2>1 DEF Usable
  <2>3. Standing(located, frames, r)
    BY <1>2, <1>8 DEF Computed, Advanced
  <2>4. QED
    BY <1>6, <1>9, <2>1, <2>2, <2>3, TimesOfOne, EmitAdvances DEF Paid
<1>11. Advanced(ir, ir')
  BY <1>8, <1>10, AdvancedTwice DEF Computed
<1>. DEFINE lvalue == [kind |-> "attr", loc |-> loc]
<1>12. lvalue \in LValueType /\ lvalue.loc = loc
  BY <1>9 DEF LValueType
<1>13. Defined(ir'.current, loc, Len(Block(ir').instrs))
  BY <1>9, <1>10 DEF Computed, Advanced, Defined
<1>. HIDE DEF lvalue
<1>14. Operand(LastValue(ir'), lvalue) \in Operands(ir')
  BY <1>10, <1>12, <1>13, ValueMade
<1>15. vals' \in Seq(Operands(ir'))
  BY <1>3, <1>6, <1>11, <1>14, OperandReplaced DEF Advanced, lvalue
<1>16. QED
  BY <1>1, <1>11, <1>15, ExpressionKeeps

LEMMA ParenthesisedSound ==
  ASSUME ParserInv, Parenthesised
  PROVE  ParserInv'
<1>1. /\ Expression /\ vals # << >> /\ ir' = ir
      /\ vals' = [vals EXCEPT ![Len(vals)].lvalue = NoLValue]
  BY DEF Parenthesised
<1>2. vals \in Seq(Operands(ir)) /\ Len(vals) > 0
  BY <1>1 DEF ParserInv
<1>3. PICK v \in Operands(ir) : v = Top(vals)
  BY <1>2, LastOperands
<1>. DEFINE w == [v EXCEPT !.lvalue = NoLValue]
<1>4. v \in OperandType /\ OperandSound(ir, v)
  BY DEF Operands
<1>5. w \in OperandType /\ w.val = v.val /\ w.lvalue = NoLValue /\ w.open = v.open
  BY <1>4, NoLValueTyped DEF OperandType
<1>. HIDE DEF w
<1>6. w \in Operands(ir)
  BY <1>4, <1>5, NoLValueTyped DEF Operands, OperandSound
<1>7. vals' = [vals EXCEPT ![Len(vals)] = w]
  BY <1>1, <1>3 DEF w, Top
<1>8. vals' \in Seq(Operands(ir'))
  <2>1. [vals EXCEPT ![Len(vals)] = w] \in Seq(Operands(ir))
    BY <1>2, <1>6, OperandReplaced
  <2>2. ir' = ir
    BY <1>1
  <2>3. QED
    BY <1>7, <2>1, <2>2
<1>9. QED
  BY <1>1, <1>8, SelfAdvanced, ExpressionKeeps

LEMMA BeginCallSound ==
  ASSUME ParserInv, BeginCall
  PROVE  ParserInv'
<1>1. Expression /\ vals # << >>
  BY DEF BeginCall
<1>2. PICK r : Standing(ir, frames, r)
  BY <1>1, ExpressionContext DEF Expression, Parsing
<1>3. vals \in Seq(Operands(ir)) /\ Len(vals) > 0
  BY <1>1 DEF ParserInv
<1>4. PICK v \in Operands(ir) : v = Top(vals)
  BY <1>3, LastOperands
<1>4a. PICK instr : instr = Instr("CALL", Null, <<v.val>>)
  OBVIOUS
<1>5. /\ ir' = Emit(ir, instr, << >>)
      /\ vals' = [vals EXCEPT ![Len(vals)].val = LastValue(ir'), ![Len(vals)].open = TRUE]
  BY <1>4, <1>4a DEF BeginCall
<1>6. v.val \in Value /\ Defined(ir.current, v.val, Len(Block(ir).instrs))
  BY OperandParts
<1>7. instr \in InstrType /\ instr.id = "CALL" /\ instr.ops = <<v.val>> /\ instr.refs = 0
  <2>1. "CALL" \in Ids /\ <<v.val>> \in Seq(Value)
    BY <1>6 DEF Ids
  <2>2. QED
    BY <1>4a, <2>1, InstrTyped
<1>8. Computed(ir, ir', instr)
  <2>1. Usable(ir.current, Block(ir), instr)
    BY <1>6, <1>7 DEF Usable
  <2>2. Paid(instr, << >>)
    BY <1>7 DEF Paid
  <2>3. QED
    BY <1>2, <1>5, <1>7, <2>1, <2>2, TimesOfNone, EmitAdvances
<1>9. v \in Operands(ir')
  BY <1>8 DEF Computed, Advanced
<1>10. PICK value \in Value : value = LastValue(ir')
  BY <1>8 DEF Computed
<1>. DEFINE w == [v EXCEPT !.val = value, !.open = TRUE]
<1>11. v \in OperandType /\ OperandSound(ir', v)
  BY <1>9 DEF Operands
<1>12. w \in OperandType /\ w.val = value /\ w.lvalue = v.lvalue /\ w.open = TRUE
  BY <1>11 DEF OperandType
<1>13. vals' = [vals EXCEPT ![Len(vals)] = w]
  BY <1>3, <1>4, <1>5, <1>10 DEF Top
<1>. HIDE DEF w
<1>14. w \in Operands(ir')
  <2>1. PICK n \in Nat : /\ n = Len(Block(ir).instrs) /\ Len(Block(ir').instrs) = n + 1
                         /\ Block(ir').instrs[n + 1] = instr
                         /\ value = <<ir.current, n + 1>> /\ ir'.current = ir.current
    BY <1>8, <1>10 DEF Computed, Advanced
  <2>2. Defined(ir'.current, value, Len(Block(ir').instrs))
    BY <2>1 DEF Defined
  <2>3. Block(ir').instrs[value[2]].id = "CALL"
    BY <1>7, <2>1
  <2>4. QED
    BY <1>11, <1>12, <2>2, <2>3 DEF Operands, OperandSound
<1>15. vals' \in Seq(Operands(ir'))
  BY <1>3, <1>8, <1>13, <1>14, OperandReplaced DEF Computed, Advanced
<1>16. QED
  BY <1>1, <1>8, <1>15, ExpressionKeeps DEF Computed

LEMMA ArgumentSound ==
  ASSUME ParserInv, Argument
  PROVE  ParserInv'
<1>1. /\ Expression /\ Len(vals) >= 2
      /\ vals' = Pop(vals, 1)
  BY DEF Argument
<1>2. PICK r : Standing(ir, frames, r)
  BY <1>1, ExpressionContext DEF Expression, Parsing
<1>3. vals \in Seq(Operands(ir))
  BY DEF ParserInv
<1>4. PICK a \in Operands(ir), b \in Operands(ir) : a = vals[Len(vals) - 1] /\ b = Top(vals)
  BY <1>1, <1>3, LastOperands
<1>5. a.open /\ ir' = AddArgument(ir, a.val, b.val)
  BY <1>4 DEF Argument
<1>6. /\ a.val \in Value /\ b.val \in Value
      /\ Defined(ir.current, a.val, Len(Block(ir).instrs))
      /\ Defined(ir.current, b.val, Len(Block(ir).instrs))
      /\ Block(ir).instrs[a.val[2]].id = "CALL"
  BY <1>5, OperandParts
<1>7. PICK k \in 1 .. Len(Block(ir).instrs) : a.val = <<ir.current, k>>
  BY <1>6 DEF Defined, Value
<1>. DEFINE x == Block(ir)
            y == Block(ir')
<1>8. /\ Sound(ir, WaitingIn(frames), {}) /\ AllUnique(ir)
      /\ ir \in IRType /\ ir.current \in 1 .. Len(ir.blocks)
      /\ x \in BlockType /\ BlockSound(ir.current, x)
  BY <1>1, ExpressionContext DEF Expression, Parsing
<1>9. ArgumentAdded(ir, ir', k, b.val)
  BY <1>5, <1>6, <1>7, <1>8, AddArgumentFields
<1>10. /\ WithBlocks(ir, ir', ir'.blocks) /\ Len(ir'.blocks) = Len(ir.blocks)
       /\ \A c \in 1 .. Len(ir.blocks) : c # ir.current => SameBlock(ir.blocks[c], ir'.blocks[c])
       /\ MoreArguments(x, y, k, b.val)
  BY <1>9 DEF ArgumentAdded, MoreArguments
<1>11. y \in BlockType
  BY <1>8, <1>10, FieldsOfIR DEF IRFields, WithBlocks, Block
<1>. HIDE DEF x, y
<1>12. /\ Grows(x, y) /\ BlockSound(ir.current, y) /\ (Unique(x) => Unique(y))
       /\ \A i \in 1 .. Len(x.instrs) : y.instrs[i].id = x.instrs[i].id
  BY <1>6, <1>7, <1>8, <1>10, <1>11, ArgumentBecomes DEF x
<1>13. Unique(x) /\ y.has_vars = x.has_vars
  BY <1>8, <1>10 DEF AllUnique, Block, x, MoreArguments, SameRest
<1>14. /\ Grown(ir, ir') /\ AllUnique(ir')
       /\ \A c \in 1 .. Len(ir.blocks) : ir'.blocks[c].has_vars => ir.blocks[c].has_vars
  BY <1>8, <1>10, <1>12, <1>13, OneGrown DEF x, y
<1>15. PICK n \in Nat : n = Len(x.instrs) /\ Len(y.instrs) = n
  BY <1>8, <1>10, BlockFields DEF FieldsTyped, MoreArguments
<1>16. Advanced(ir, ir')
  <2>1. Covered(ir, {}) /\ Open(ir)
    BY <1>2 DEF Standing, Placed
  <2>2. Covered(ir', {})
    BY <1>6, <1>8, <1>9, <1>14, <2>1, GrownKeepsParameters, ArgumentCovered
  <2>3. QED
    BY <1>8, <1>12, <1>14, <1>15, <2>2, GrownAdvanced DEF x, y
<1>17. vals' \in Seq(Operands(ir'))
  BY <1>1, <1>3, <1>16, OperandsPopped DEF Advanced
<1>18. QED
  BY <1>1, <1>16, <1>17, ExpressionKeeps

LEMMA EndCallSound ==
  ASSUME ParserInv, EndCall
  PROVE  ParserInv'
<1>1. /\ Expression /\ vals # << >> /\ ir' = ir
      /\ vals' = [vals EXCEPT ![Len(vals)].open = FALSE]
  BY DEF EndCall
<1>2. vals \in Seq(Operands(ir)) /\ Len(vals) > 0
  BY <1>1 DEF ParserInv
<1>3. PICK v \in Operands(ir) : v = Top(vals)
  BY <1>2, LastOperands
<1>. DEFINE w == [v EXCEPT !.open = FALSE]
<1>4. v \in OperandType /\ OperandSound(ir, v)
  BY DEF Operands
<1>5. w \in OperandType /\ w.val = v.val /\ w.lvalue = v.lvalue /\ w.open = FALSE
  BY <1>4 DEF OperandType
<1>. HIDE DEF w
<1>6. w \in Operands(ir)
  BY <1>4, <1>5 DEF Operands, OperandSound
<1>7. vals' = [vals EXCEPT ![Len(vals)] = w]
  BY <1>1, <1>3 DEF w, Top
<1>8. vals' \in Seq(Operands(ir'))
  <2>1. [vals EXCEPT ![Len(vals)] = w] \in Seq(Operands(ir))
    BY <1>2, <1>6, OperandReplaced
  <2>2. ir' = ir
    BY <1>1
  <2>3. QED
    BY <1>7, <2>1, <2>2
<1>9. QED
  BY <1>1, <1>8, SelfAdvanced, ExpressionKeeps

LEMMA AssignVariableSound ==
  ASSUME ParserInv, AssignVariable
  PROVE  ParserInv'
<1>1. Expression /\ Len(vals) >= 2
  BY DEF AssignVariable, TwoOperands
<1>2. vals \in Seq(Operands(ir))
  BY DEF ParserInv
<1>3. PICK a \in Operands(ir), b \in Operands(ir) : a = vals[Len(vals) - 1] /\ b = Top(vals)
  BY <1>1, <1>2, LastOperands
<1>4. /\ a.lvalue.kind = "var" /\ ir' = SetVar(ir, a.lvalue.name, b.val)
      /\ vals' = Append(Pop(vals, 2), Operand(b.val, NoLValue))
  BY <1>3 DEF AssignVariable
<1>5. /\ a.lvalue \in LValueType /\ b.val \in Value
      /\ Defined(ir.current, b.val, Len(Block(ir).instrs))
  BY OperandParts
<1>6. a.lvalue.name \in AllNames
  BY <1>4, <1>5 DEF LValueType
<1>. DEFINE x == Block(ir)
            y == Block(ir')
<1>7. /\ Sound(ir, WaitingIn(frames), {}) /\ AllUnique(ir)
      /\ ir \in IRType /\ ir.current \in 1 .. Len(ir.blocks)
      /\ x \in BlockType /\ BlockSound(ir.current, x)
  BY <1>1, ExpressionContext DEF Expression, Parsing
<1>8. VarChanged(ir, ir', b.val)
  BY <1>4, <1>5, <1>6, <1>7, VarFields
<1>9. /\ WithBlocks(ir, ir', ir'.blocks) /\ Len(ir'.blocks) = Len(ir.blocks)
      /\ \A c \in 1 .. Len(ir.blocks) : c # ir.current => ir'.blocks[c] = ir.blocks[c]
      /\ OtherVars(x, y)
  BY <1>8 DEF VarChanged, VarsSet, OtherVars
<1>10. y \in BlockType
  BY <1>7, <1>9, FieldsOfIR DEF IRFields, WithBlocks, Block
<1>11. PICK n \in Nat : /\ n = Len(x.vars) /\ Len(y.vars) = n
                        /\ DOMAIN x.vars = 1 .. n /\ DOMAIN y.vars = 1 .. n
                        /\ \A i \in 1 .. n : /\ y.vars[i].name = x.vars[i].name
                                             /\ y.vars[i].val \in {b.val, x.vars[i].val}
  <2>1. /\ x.vars \in Seq(VarType) /\ y.vars \in Seq(VarType) /\ Len(y.vars) = Len(x.vars)
        /\ \A i \in 1 .. Len(x.vars) : /\ y.vars[i].name = x.vars[i].name
                                       /\ y.vars[i].val \in {b.val, x.vars[i].val}
    BY <1>7, <1>8, BlockFields DEF VarChanged, FieldsTyped
  <2>2. DOMAIN x.vars = 1 .. Len(x.vars) /\ DOMAIN y.vars = 1 .. Len(y.vars) /\ Len(x.vars) \in Nat
    BY <2>1
  <2>3. QED
    BY <2>1, <2>2
<1>. HIDE DEF x, y
<1>12. Grows(x, y) /\ BlockSound(ir.current, y) /\ (Unique(x) => Unique(y))
  <2>1. Declared(y)
    BY <1>7, <1>11 DEF BlockSound, Declared
  <2>2. NamesIn(x.vars) \subseteq NamesIn(y.vars)
    BY <1>11 DEF NamesIn
  <2>3. \A i \in 1 .. Len(y.vars) : Defined(ir.current, y.vars[i].val, Len(x.instrs))
    BY <1>5, <1>7, <1>11 DEF BlockSound, LocalBlock, x
  <2>4. QED
    BY <1>7, <1>9, <1>10, <2>1, <2>2, <2>3, VarsBecome
<1>13. Unique(x) /\ y.has_vars = x.has_vars /\ y.instrs = x.instrs
  BY <1>7, <1>9 DEF AllUnique, Block, x, OtherVars
<1>14. \A c \in 1 .. Len(ir.blocks) : c # ir.current => SameBlock(ir.blocks[c], ir'.blocks[c])
  BY <1>9 DEF SameBlock, SameInstrs, SameInstr, SameRest
<1>15. /\ Grown(ir, ir') /\ AllUnique(ir')
       /\ \A c \in 1 .. Len(ir.blocks) : ir'.blocks[c].has_vars => ir.blocks[c].has_vars
  BY <1>7, <1>9, <1>12, <1>13, <1>14, OneGrown DEF x, y
<1>16. PICK m \in Nat : m = Len(x.instrs) /\ Len(y.instrs) = m
  BY <1>7, <1>13, BlockFields DEF FieldsTyped
<1>17. Advanced(ir, ir')
  <2>1. PICK r : Standing(ir, frames, r)
    BY <1>1, ExpressionContext DEF Expression, Parsing
  <2>2. Covered(ir, {}) /\ Open(ir)
    BY <2>1 DEF Standing, Placed
  <2>3. VarsSet(ir, ir', Block(ir').vars)
    BY <1>8 DEF VarChanged
  <2>4. Covered(ir', {})
    BY <1>7, <2>2, <2>3, VarsCovered
  <2>5. QED
    BY <1>7, <1>13, <1>15, <1>16, <2>4, GrownAdvanced DEF x, y
<1>18. Operand(b.val, NoLValue) \in Operands(ir')
  BY <1>5, <1>17, OperandParts, OperandMade, NoLValueTyped DEF Advanced
<1>19. vals' \in Seq(Operands(ir'))
  BY <1>1, <1>2, <1>4, <1>17, <1>18, OperandsCombined DEF Advanced
<1>20. QED
  BY <1>1, <1>17, <1>19, ExpressionKeeps

LEMMA AssignAttributeSound ==
  ASSUME ParserInv, AssignAttribute
  PROVE  ParserInv'
<1>1. Expression /\ Len(vals) >= 2
  BY DEF AssignAttribute, TwoOperands
<1>2. PICK r : Standing(ir, frames, r)
  BY <1>1, ExpressionContext DEF Expression, Parsing
<1>3. vals \in Seq(Operands(ir))
  BY DEF ParserInv
<1>4. PICK a \in Operands(ir), b \in Operands(ir) : a = vals[Len(vals) - 1] /\ b = Top(vals)
  BY <1>1, <1>3, LastOperands
<1>5. PICK instr : instr = [Instr("SET_LOC", Null, <<a.lvalue.loc, b.val>>) EXCEPT !.refs = 1]
  OBVIOUS
<1>6. /\ a.lvalue.kind = "attr"
      /\ ir' = Emit(ir, instr, <<a.lvalue.loc, b.val>>)
      /\ vals' = Append(Pop(vals, 2), Operand(LastValue(ir'), NoLValue))
  BY <1>4, <1>5 DEF AssignAttribute
<1>7. /\ a.lvalue \in LValueType /\ b.val \in Value
      /\ Defined(ir.current, a.lvalue.loc, Len(Block(ir).instrs))
      /\ Defined(ir.current, b.val, Len(Block(ir).instrs))
  BY <1>6, OperandParts
<1>8. PICK loc \in Value : loc = a.lvalue.loc
  BY <1>6, <1>7 DEF LValueType
<1>9. instr \in InstrType /\ instr.id = "SET_LOC" /\ instr.ops = <<loc, b.val>> /\ instr.refs = 1
  <2>1. "SET_LOC" \in Ids /\ <<loc, b.val>> \in Seq(Value)
    BY <1>7 DEF Ids
  <2>2. PICK set \in InstrType : /\ set = Instr("SET_LOC", Null, <<loc, b.val>>)
                                 /\ set.id = "SET_LOC" /\ set.ops = <<loc, b.val>>
    BY <2>1, InstrTyped, ZenonT(40)
  <2>3. PICK used : used = [set EXCEPT !.refs = 1]
    OBVIOUS
  <2>4. used \in InstrType /\ used.id = set.id /\ used.ops = set.ops /\ used.refs = 1
    BY <2>3 DEF InstrType
  <2>5. instr = used
    BY <1>5, <1>8, <2>2, <2>3
  <2>6. QED
    BY <2>2, <2>4, <2>5
<1>10. Usable(ir.current, Block(ir), instr) /\ instr.id # "PARAM"
  BY <1>7, <1>8, <1>9 DEF Usable
<1>11. Computed(ir, ir', instr)
  BY <1>2, <1>6, <1>7, <1>8, <1>9, <1>10, TwoUses, EmitAdvances DEF Paid
<1>12. Operand(LastValue(ir'), NoLValue) \in Operands(ir')
  BY <1>11, ValueMade, NoLValueTyped
<1>13. vals' \in Seq(Operands(ir'))
  <2>1. vals \in Seq(Operands(ir'))
    BY <1>3, <1>11 DEF Computed, Advanced
  <2>2. QED
    BY <1>1, <1>6, <1>12, <2>1, OperandsCombined
<1>14. QED
  BY <1>1, <1>11, <1>13, ExpressionKeeps DEF Computed

LEMMA AssignNothingSound ==
  ASSUME ParserInv, AssignNothing
  PROVE  ParserInv'
<1>1. /\ status = "parsing" /\ mode = "expression" /\ status' = "exit"
      /\ ir' = ir /\ frames' = frames /\ mode' = mode /\ want' = want /\ vals' = vals
      /\ text' = text
  BY DEF AssignNothing, Parsing
<1>2. PICK r : Standing(ir, frames, r)
  BY <1>1 DEF ParserInv
<1>3. Sound(ir', WaitingIn(frames'), {}) /\ Ranked(ir', r) /\ Covered(ir', {})
  BY <1>1, <1>2 DEF Standing, Placed, Laid
<1>4. Shape'
  BY <1>1 DEF ParserInv, Shape
<1>5. vals' \in Seq(Operands(ir'))
  BY <1>1 DEF ParserInv
<1>6. QED
  BY <1>1, <1>3, <1>4, <1>5 DEF ParserInv

\* A variable is declared.
VarStands(g, h, x, fs, r) ==
  /\ Standing(h, fs, r)
  /\ h.current = g.current
  /\ Block(h).instrs = Block(g).instrs
  /\ NamesIn(Block(g).vars) \subseteq NamesIn(Block(h).vars)
  /\ x \in NamesIn(Block(h).vars)

LEMMA AddVarStands ==
  ASSUME NEW g, NEW fs, NEW r, Standing(g, fs, r), NEW name \in AllNames, ~HasVar(g, name),
         NEW v \in Value, Defined(g.current, v, Len(Block(g).instrs))
  PROVE  VarStands(g, AddVar(g, name, v), name, fs, r)
<1>. DEFINE h == AddVar(g, name, v)
            x == Block(g)
            y == Block(h)
<1>1. Sound(g, WaitingIn(fs), {}) /\ AllUnique(g)
  BY DEF Standing, Placed, Laid
<1>2. /\ g \in IRType /\ g.current \in 1 .. Len(g.blocks) /\ BlockSound(g.current, x)
  BY <1>1 DEF Sound, Block
<1>3. VarAdded(g, h, name, v)
  BY <1>2, VarFields
<1>. HIDE DEF h
<1>4. /\ WithBlocks(g, h, h.blocks) /\ Len(h.blocks) = Len(g.blocks)
      /\ \A c \in 1 .. Len(g.blocks) : c # g.current => h.blocks[c] = g.blocks[c]
      /\ OtherVars(x, y)
  BY <1>3 DEF VarAdded, VarsSet, OtherVars
<1>5. x \in BlockType /\ y \in BlockType
  BY <1>2, <1>4, FieldsOfIR DEF IRFields, WithBlocks, Block
<1>6. PICK n \in Nat : /\ n = Len(x.vars) /\ Len(y.vars) = n + 1
                       /\ DOMAIN x.vars = 1 .. n /\ DOMAIN y.vars = 1 .. n + 1
                       /\ \A i \in 1 .. n : y.vars[i] = x.vars[i]
                       /\ y.vars[n + 1].name = name /\ y.vars[n + 1].val = v
  BY <1>3, <1>5, BlockFields DEF VarAdded, FieldsTyped
<1>7. \A i \in 1 .. n : x.vars[i].name # name
  BY <1>6 DEF HasVar, NamesIn
<1>. HIDE DEF x, y
<1>8. \A i \in 1 .. n + 1 : i \in 1 .. n \/ i = n + 1
  OBVIOUS
<1>9. NamesIn(x.vars) \subseteq NamesIn(y.vars) /\ name \in NamesIn(y.vars)
  <2>1. n + 1 \in 1 .. n + 1 /\ \A i \in 1 .. n : i \in 1 .. n + 1
    OBVIOUS
  <2>2. QED
    BY <1>6, <2>1 DEF NamesIn
<1>10. Grows(x, y) /\ BlockSound(g.current, y) /\ (Unique(x) => Unique(y))
  <2>1. Declared(y)
    <3>1. \A i, j \in 1 .. n : x.vars[i].name = x.vars[j].name => i = j
      BY <1>2, <1>6 DEF BlockSound, Declared
    <3>2. QED
      BY <1>6, <1>7, <1>8, <3>1 DEF Declared
  <2>2. \A i \in 1 .. Len(y.vars) : Defined(g.current, y.vars[i].val, Len(x.instrs))
    BY <1>2, <1>6, <1>8 DEF BlockSound, LocalBlock, x
  <2>3. QED
    BY <1>2, <1>4, <1>5, <1>9, <2>1, <2>2, VarsBecome
<1>11. Unique(x) /\ y.has_vars = x.has_vars /\ y.instrs = x.instrs
  BY <1>1, <1>2, <1>4 DEF AllUnique, Block, x, OtherVars
<1>12. \A c \in 1 .. Len(g.blocks) : c # g.current => SameBlock(g.blocks[c], h.blocks[c])
  BY <1>4 DEF SameBlock, SameInstrs, SameInstr, SameRest
<1>13. /\ Grown(g, h) /\ AllUnique(h)
       /\ \A c \in 1 .. Len(g.blocks) : h.blocks[c].has_vars => g.blocks[c].has_vars
  BY <1>1, <1>4, <1>10, <1>11, <1>12, OneGrown DEF x, y
<1>14. Standing(h, fs, r)
  BY <1>1, <1>3, <1>13, VarsCovered, GrownStanding DEF Standing, Placed, VarAdded
<1>15. h.current = g.current
  BY <1>4 DEF WithBlocks
<1>16. QED
  BY <1>9, <1>11, <1>14, <1>15 DEF VarStands, h, x, y

\* Steps that stay in the same statements.
LEMMA StandingKeeps ==
  ASSUME ParserInv, NEW r, Standing(ir', frames', r), Shape', vals' = << >>,
         status' = "parsing",
         mode' = "params" => OnlyParameters(ir'),
         mode' = "expression" /\ want' = "while" => Block(ir').has_vars
  PROVE  ParserInv'
<1>1. vals' \in Seq(Operands(ir'))
  OBVIOUS
<1>2. status' \notin {"done", "exit", "crash"}
  OBVIOUS
<1>3. QED
  BY <1>1, <1>2 DEF ParserInv

\* A block with its parameters has a predecessor in front; the first block has none.
LEMMA FirstHasNone ==
  ASSUME NEW g, NEW r, Ranked(g, r), Len(g.blocks) \in Nat
  PROVE  ~g.blocks[1].has_vars
<1>1. 1 \in 1 .. Len(g.blocks)
  BY DEF Ranked
<1>2. r[1] = 1 /\ \A q \in 1 .. Len(g.blocks) : r[q] \in 1 .. Len(g.blocks)
  BY DEF Ranked, Positions
<1>3. FromAhead(g.blocks, r, 1)
  BY <1>1 DEF Ranked
<1>4. QED
  BY <1>2, <1>3 DEF FromAhead

LEMMA ParameterSound ==
  ASSUME ParserInv, NEW name \in text.names, Parameter(name)
  PROVE  ParserInv'
<1>. DEFINE h == AddParameter(ir, name)
            x == Block(ir)
            y == Block(h)
            instr == Instr("PARAM", name, << >>)
<1>1. /\ status = "parsing" /\ mode = "params"
      /\ frames' = frames /\ mode' = mode /\ want' = want /\ vals' = vals /\ text' = text
  BY DEF Parameter, Parsing
<1>2. IF HasVar(ir, name) THEN ir' = h /\ status' = "exit"
      ELSE ir' = AddVar(h, name, LastValue(h)) /\ status' = status
  BY DEF Parameter
<1>3. PICK r : Standing(ir, frames, r)
  BY <1>1 DEF ParserInv
<1>4. /\ Sound(ir, WaitingIn(frames), {}) /\ AllUnique(ir)
      /\ ir \in IRType /\ ir.current \in 1 .. Len(ir.blocks)
      /\ x \in BlockType /\ BlockSound(ir.current, x) /\ name \in AllNames
  BY <1>1, ExpressionContext
<1>5. /\ ir.current = 1
      /\ \A i \in 1 .. Len(x.instrs) :
           /\ x.instrs[i].id = "PARAM" /\ x.instrs[i].name # Null
           /\ x.instrs[i].name \in NamesIn(x.vars)
  BY <1>1 DEF ParserInv, OnlyParameters
<1>6. ~x.has_vars
  BY <1>3, <1>4, <1>5, FieldsOfIR, FirstHasNone DEF Standing, Placed, Laid, IRFields, Block
<1>7. ParameterAdded(ir, h, instr)
  BY <1>4, AddParameterFields
<1>8. instr.id = "PARAM" /\ instr.name = name
  BY DEF Instr
<1>8a. Covered(h, {})
  BY <1>3, <1>4, <1>6, <1>7, ParameterCovered DEF Standing, Placed
<1>. HIDE DEF h, instr
<1>9. /\ WithBlocks(ir, h, h.blocks) /\ Len(h.blocks) = Len(ir.blocks)
      /\ \A c \in 1 .. Len(ir.blocks) : c # ir.current => SameBlock(ir.blocks[c], h.blocks[c])
      /\ y.num_params = x.num_params + 1
      /\ Extended(x, y, instr)
  BY <1>7 DEF ParameterAdded, Extended
<1>10. y \in BlockType /\ h.current = 1 /\ h \in IRType
  BY <1>4, <1>5, <1>9, FieldsOfIR DEF IRFields, WithBlocks, Block
<1>11. PICK n \in Nat : /\ n = Len(x.instrs) /\ Len(y.instrs) = n + 1
                        /\ y.instrs[n + 1] = instr
                        /\ \A i \in 1 .. n : SameInstr(x.instrs[i], y.instrs[i])
                        /\ y.vars = x.vars
  BY <1>4, <1>9, BlockFields DEF FieldsTyped, Extended
<1>. HIDE DEF x, y
<1>12. /\ Grows(x, y) /\ BlockSound(ir.current, y)
       /\ (Unique(x) /\ \A i \in 1 .. Len(x.instrs) : x.instrs[i].name # name) => Unique(y)
  BY <1>4, <1>5, <1>6, <1>9, <1>10, NullIsNoName, ParameterBecomes DEF instr
<1>13. y.has_vars = x.has_vars
  BY <1>9 DEF Extended
<1>14. /\ Grown(ir, h) /\ (Unique(y) => AllUnique(h))
       /\ \A c \in 1 .. Len(ir.blocks) : h.blocks[c].has_vars => ir.blocks[c].has_vars
  BY <1>4, <1>9, <1>12, <1>13, OneGrown DEF x, y
<1>15. \A i \in 1 .. n + 1 : i \in 1 .. n \/ i = n + 1
  OBVIOUS
<1>16. \A i \in 1 .. n + 1 :
         /\ y.instrs[i].id = "PARAM" /\ y.instrs[i].name # Null
         /\ y.instrs[i].name \in NamesIn(x.vars) \/ y.instrs[i].name = name
  BY <1>4, <1>5, <1>8, <1>11, <1>15, NullIsNoName, SMTT(20) DEF SameInstr
<1>17. Shape'
  BY <1>1, <1>2 DEF ParserInv, Shape
<1>18. vals' = << >>
  BY <1>1 DEF ParserInv, Shape
<1>19. CASE HasVar(ir, name)
  <2>1. ir' = h /\ status' = "exit"
    BY <1>2, <1>19
  <2>2. name \in NamesIn(x.vars)
    BY <1>19 DEF HasVar, x
  <2>3. OnlyParameters(ir')
    BY <1>10, <1>11, <1>16, <2>1, <2>2 DEF OnlyParameters, y
  <2>4. Sound(ir', WaitingIn(frames'), {}) /\ Ranked(ir', r)
    BY <1>1, <1>3, <1>4, <1>14, <2>1, GrownRanked, GrownSound DEF Standing, Placed, Laid
  <2>5. vals' \in Seq(Operands(ir'))
    BY <1>18
  <2>6. QED
    BY <1>1, <1>8a, <1>17, <2>1, <2>3, <2>4, <2>5 DEF ParserInv
<1>20. CASE ~HasVar(ir, name)
  <2>1. ir' = AddVar(h, name, LastValue(h)) /\ status' = "parsing"
    BY <1>1, <1>2, <1>20
  <2>2. name \notin NamesIn(x.vars)
    BY <1>20 DEF HasVar, x
  <2>3. Unique(y)
    BY <1>4, <1>5, <1>12, <2>2 DEF AllUnique, Block, x
  <2>4. Standing(h, frames, r)
    BY <1>3, <1>4, <1>8a, <1>14, <2>3, GrownStanding
  <2>5. LastValue(h) = <<1, n + 1>>
    BY <1>10, <1>11 DEF LastValue, y
  <2>6. LastValue(h) \in Value /\ Defined(h.current, LastValue(h), Len(Block(h).instrs))
    BY <1>10, <1>11, <2>5 DEF Value, Defined, y
  <2>7. ~HasVar(h, name)
    BY <1>11, <2>2 DEF HasVar, y
  <2>8. VarStands(h, ir', name, frames, r)
    BY <1>4, <2>1, <2>4, <2>6, <2>7, AddVarStands
  <2>9. OnlyParameters(ir')
    BY <1>10, <1>11, <1>16, <2>8 DEF VarStands, y, OnlyParameters
  <2>10. Standing(ir', frames', r)
    BY <1>1, <2>8 DEF VarStands
  <2>11. QED
    BY <1>1, <1>17, <1>18, <2>1, <2>9, <2>10, StandingKeeps
<1>21. QED
  BY <1>19, <1>20

LEMMA OpenBodySound ==
  ASSUME ParserInv, OpenBody
  PROVE  ParserInv'
<1>1. /\ status = "parsing" /\ mode = "params" /\ mode' = "statement"
      /\ ir' = ir /\ frames' = frames /\ want' = want /\ vals' = vals /\ text' = text
      /\ status' = status
  BY DEF OpenBody, Parsing
<1>2. PICK r : Standing(ir', frames', r)
  BY <1>1 DEF ParserInv
<1>3. Shape' /\ vals' = << >>
  BY <1>1 DEF ParserInv, Shape
<1>4. QED
  BY <1>1, <1>2, <1>3, StandingKeeps

\* A statement less to come.
LEMMA OneStatement ==
  ASSUME \E t \in Sources, n \in Int : text = TextOf(t, n),
         text' = [text EXCEPT !.statements = @ - 1]
  PROVE  \E t \in Sources, n \in Int : text' = TextOf(t, n)
<1>1. PICK t \in Sources, n \in Int : text = TextOf(t, n)
  OBVIOUS
<1>2. text.statements = n
  BY <1>1 DEF TextOf
<1>3. text' = TextOf(t, n - 1)
  BY <1>1, <1>2 DEF TextOf
<1>4. QED
  BY <1>3

LEMMA BeginExpressionSound ==
  ASSUME ParserInv, NEW w \in {"value", "let", "return", "if"}, BeginExpression(w)
  PROVE  ParserInv'
<1>1. /\ status = "parsing" /\ mode = "statement" /\ mode' = "expression" /\ want' = w
      /\ ir' = ir /\ frames' = frames /\ vals' = vals /\ status' = status
      /\ text' = [text EXCEPT !.statements = @ - 1]
  BY DEF BeginExpression, Statement, Parsing
<1>2. PICK r : Standing(ir', frames', r)
  BY <1>1 DEF ParserInv
<1>3. Shape
  BY DEF ParserInv
<1>4. vals' = << >>
  BY <1>1, <1>3 DEF Shape
<1>5. \E t \in Sources, n \in Int : text' = TextOf(t, n)
  BY <1>1, <1>3, OneStatement DEF Shape
<1>6. Shape'
  BY <1>1, <1>3, <1>5 DEF Shape
<1>7. QED
  BY <1>1, <1>2, <1>4, <1>6, StandingKeeps

\* What a completed expression leaves.
LEMMA CompleteContext ==
  ASSUME ParserInv, NEW w, Complete(w)
  PROVE  /\ status = "parsing" /\ mode = "expression" /\ want = w
         /\ want' = "none" /\ vals' = << >> /\ text' = text
         /\ Shape
         /\ Top(vals).val \in Value
         /\ Defined(ir.current, Top(vals).val, Len(Block(ir).instrs))
<1>1. /\ status = "parsing" /\ mode = "expression" /\ want = w /\ Len(vals) = 1
      /\ want' = "none" /\ vals' = << >> /\ text' = text
  BY DEF Complete, Parsing
<1>2. vals \in Seq(Operands(ir)) /\ Shape
  BY DEF ParserInv
<1>3. Top(vals) \in Operands(ir)
  BY <1>1, <1>2, LastOperands
<1>4. Top(vals).val \in Value /\ Defined(ir.current, Top(vals).val, Len(Block(ir).instrs))
  BY <1>3, OperandParts
<1>5. QED
  BY <1>1, <1>2, <1>4

LEMMA NextModes ==
  ASSUME NEW fs
  PROVE  NextMode(fs) \in {"statement", "ended"}
BY DEF NextMode

LEMMA EndExpressionSound ==
  ASSUME ParserInv, EndExpression
  PROVE  ParserInv'
<1>1. Complete("value") /\ mode' = NextMode(frames) /\ UNCHANGED <<ir, frames, status>>
  BY DEF EndExpression
<1>2. /\ status = "parsing" /\ want' = "none" /\ vals' = << >> /\ text' = text /\ Shape
      /\ mode' \in {"statement", "ended"}
  BY <1>1, CompleteContext, NextModes
<1>3. PICK r : Standing(ir', frames', r)
  BY <1>1, <1>2 DEF ParserInv
<1>4. Shape'
  BY <1>1, <1>2 DEF Shape
<1>5. QED
  BY <1>1, <1>2, <1>3, <1>4, StandingKeeps

LEMMA EndLetSound ==
  ASSUME ParserInv, NEW name \in text.names, EndLet(name)
  PROVE  ParserInv'
<1>1. /\ Complete("let") /\ mode' = NextMode(frames) /\ frames' = frames
      /\ IF HasVar(ir, name) THEN status' = "exit" /\ ir' = ir
         ELSE ir' = AddVar(ir, name, Top(vals).val) /\ status' = status
  BY DEF EndLet
<1>2. /\ status = "parsing" /\ want' = "none" /\ vals' = << >> /\ text' = text /\ Shape
      /\ Top(vals).val \in Value
      /\ Defined(ir.current, Top(vals).val, Len(Block(ir).instrs))
      /\ mode' \in {"statement", "ended"}
  BY <1>1, CompleteContext, NextModes
<1>3. PICK r : Standing(ir, frames, r)
  BY <1>2 DEF ParserInv
<1>4. Shape'
  BY <1>1, <1>2 DEF Shape
<1>5. CASE HasVar(ir, name)
  BY <1>1, <1>2, <1>3, <1>4, <1>5 DEF Standing, Placed, Laid, ParserInv
<1>6. CASE ~HasVar(ir, name)
  BY <1>1, <1>2, <1>3, <1>4, <1>6, ExpressionContext, AddVarStands, StandingKeeps DEF VarStands
<1>7. QED
  BY <1>5, <1>6

LEMMA EndReturnSound ==
  ASSUME ParserInv, EndReturn
  PROVE  ParserInv'
<1>1. /\ Complete("return") /\ mode' = NextMode(frames) /\ frames' = frames /\ status' = status
      /\ ir' = Return(ir, Top(vals).val)
  BY DEF EndReturn
<1>2. /\ status = "parsing" /\ want' = "none" /\ vals' = << >> /\ text' = text /\ Shape
      /\ mode' \in {"statement", "ended"}
  BY <1>1, CompleteContext, NextModes
<1>3. PICK v \in Value : v = Top(vals).val /\ Defined(ir.current, v, Len(Block(ir).instrs))
  BY <1>1, CompleteContext
<1>4. PICK r : Standing(ir, frames, r)
  BY <1>2 DEF ParserInv
<1>. DEFINE term == Term("RETURN", <<v>>, << >>)
<1>5. /\ Sound(ir, WaitingIn(frames), {}) /\ AllUnique(ir) /\ LoopsBack(ir, frames)
      /\ Ranked(ir, r) /\ Stacked(ir, frames, r) /\ Open(ir) /\ Covered(ir, {})
  BY <1>4 DEF Standing, Placed, Laid
<1>6. term \in TermType /\ term.id = "RETURN" /\ term.ops = <<v>> /\ term.targets = << >>
  BY DEF Term, TermType
<1>7. TermSet(ir, ir', term, <<v>>)
  <2>1. ir \in IRType /\ ir.current \in 1 .. Len(ir.blocks)
    BY <1>5 DEF Sound
  <2>2. ir' = SetTerm(ir, term, <<v>>)
    BY <1>1, <1>3 DEF Return
  <2>. HIDE DEF term
  <2>3. QED
    BY <1>6, <2>1, <2>2, TimesOfOne, SetTermFields
<1>. HIDE DEF term
<1>8. Block(ir').term = term
  BY <1>7 DEF TermSet
<1>9. /\ Sound(ir', WaitingIn(frames), TargetsOf(term)) /\ AllUnique(ir') /\ Ranked(ir', r)
      /\ Stacked(ir', frames, r) /\ LoopsBack(ir', frames)
  <2>1. TermShape(Block(ir'))
    <3>1. Len(term.targets) = 0 /\ Len(term.ops) = 1
      BY <1>6
    <3>2. QED
      BY <1>6, <1>8, <3>1 DEF TermShape
  <2>2. \A i \in 1 .. Len(term.ops) : Defined(ir.current, term.ops[i], Len(Block(ir).instrs))
    BY <1>3, <1>6
  <2>3. QED
    BY <1>5, <1>6, <1>7, <2>1, <2>2, TermSound DEF Open
<1>10. TargetsOf(term) = {} /\ Open(ir')
  BY <1>6, <1>8 DEF TargetsOf, Open
<1>11. Standing(ir', frames', r)
  BY <1>1, <1>5, <1>6, <1>7, <1>9, <1>10, TimesOfOne, TermCovered DEF Standing, Placed, Laid
<1>12. Shape'
  BY <1>1, <1>2 DEF Shape
<1>13. QED
  BY <1>1, <1>2, <1>11, <1>12, StandingKeeps

LEMMA CloseFunctionSound ==
  ASSUME ParserInv, CloseFunction
  PROVE  ParserInv' /\ ir' = ir
<1>1. /\ status = "parsing" /\ mode = "statement" /\ status' = "done"
      /\ ir' = ir /\ frames' = frames /\ mode' = mode /\ want' = want /\ vals' = vals
      /\ text' = text
  BY DEF CloseFunction, Parsing
<1>2. PICK r : Standing(ir', frames', r)
  BY <1>1 DEF ParserInv
<1>3. Resting(ir', frames', r)
  BY <1>2 DEF Standing, Resting, Placed
<1>4. Shape' /\ vals' = << >>
  BY <1>1 DEF ParserInv, Shape
<1>5. vals' \in Seq(Operands(ir'))
  BY <1>4
<1>6. QED
  BY <1>1, <1>3, <1>4, <1>5 DEF ParserInv

-----------------------------------------------------------------------------
(***************************************************************************)
(* The steps that go on to another block.                                  *)
(***************************************************************************)
\* h is g with n new blocks in a row behind the current one.
InRow(g, h, fs, s, len, n) ==
  /\ Placed(h, WaitingIn(fs) \cup (len + 1 .. len + n), fs, s)
  /\ Open(h)
  /\ len = Len(g.blocks) /\ Len(h.blocks) = len + n
  /\ h.current = g.current /\ g.current \in 1 .. len
  /\ WaitingIn(fs) \subseteq 1 .. len
  /\ Block(h).instrs = Block(g).instrs /\ Block(h).has_vars = Block(g).has_vars
  /\ Block(h).next = len + 1
  /\ \A b \in len + 1 .. len + n :
       /\ s[g.current] < s[b]
       /\ \A c \in len + 1 .. len + n : b < c => s[b] < s[c]
       /\ \A d \in WaitingIn(fs) : s[b] < s[d]

LEMMA FirstInRow ==
  ASSUME NEW g, NEW fs \in Seq(FrameType), NEW r, Standing(g, fs, r),
         NEW len \in Nat, len = Len(g.blocks)
  PROVE  \E s : InRow(g, AddBlock(g, g.current), fs, s, len, 1)
<1>. DEFINE h == AddBlock(g, g.current)
            W == WaitingIn(fs)
<1>1. Placed(g, W, fs, r) /\ Open(g) /\ Sound(g, W, {}) /\ Stacked(g, fs, r)
  BY DEF Standing, Placed, Laid
<1>2. g.current \in 1 .. len /\ W \subseteq 1 .. len
  BY <1>1 DEF Sound
<1>3. Block(g).term.id # "CBRANCH"
  BY <1>1, <1>2 DEF Sound, BlockSound, Block, TermShape, Open
<1>4. AfterAdding(g, h, W, fs, r, g.current)
  BY <1>1, <1>2, <1>3, AddedPlaced DEF Block
<1>. HIDE DEF h
<1>5. PICK s : Placed(h, W \cup {len + 1}, fs, s) /\ Follows(r, s, len, g.current)
  BY <1>4 DEF AfterAdding
<1>6. len + 1 .. len + 1 = {len + 1}
  OBVIOUS
<1>7. /\ Len(h.blocks) = len + 1 /\ h.current = g.current /\ Open(h)
      /\ Block(h).instrs = Block(g).instrs /\ Block(h).has_vars = Block(g).has_vars
      /\ Block(h).next = len + 1
  BY <1>1, <1>4 DEF AfterAdding, Block
<1>8. s[g.current] < s[len + 1]
  BY <1>5 DEF Follows
<1>9. ASSUME NEW d \in W PROVE s[len + 1] < s[d]
  BY <1>1, <1>2, <1>5, LinedBlocks DEF Stacked, Follows
<1>10. \A b, c \in len + 1 .. len + 1 : ~(b < c)
  OBVIOUS
<1>11. InRow(g, h, fs, s, len, 1)
  BY <1>2, <1>5, <1>6, <1>7, <1>8, <1>9, <1>10 DEF InRow
<1>12. QED
  BY <1>11 DEF h

LEMMA NextInRow ==
  ASSUME NEW g, NEW h, NEW fs \in Seq(FrameType), NEW r, NEW len \in Nat,
         NEW n \in Nat \ {0}, InRow(g, h, fs, r, len, n)
  PROVE  \E s : InRow(g, AddBlock(h, len + n), fs, s, len, n + 1)
<1>. DEFINE k == AddBlock(h, len + n)
            W == WaitingIn(fs)
            V == W \cup (len + 1 .. len + n)
<1>1. /\ Placed(h, V, fs, r) /\ Open(h) /\ Sound(h, V, {})
      /\ Len(h.blocks) = len + n /\ h.current = g.current /\ g.current \in 1 .. len
      /\ W \subseteq 1 .. len /\ len = Len(g.blocks)
      /\ Block(h).next = len + 1
      /\ Block(h).instrs = Block(g).instrs /\ Block(h).has_vars = Block(g).has_vars
  BY DEF InRow, Placed, Laid
<1>2. /\ len + n \in len + 1 .. len + n /\ len + n \in 1 .. len + n
      /\ \A b \in 1 .. len : b \in 1 .. len + n
      /\ \A b \in len + 1 .. len + n : b \in 1 .. len + n
  OBVIOUS
<1>3. h.blocks[len + n].term.id = "NONE"
  BY <1>1, <1>2 DEF Sound, Waiting
<1>4. AfterAdding(h, k, V, fs, r, len + n)
  BY <1>1, <1>2, <1>3, AddedPlaced
<1>. HIDE DEF k, V
<1>5. PICK s : Placed(k, V \cup {len + n + 1}, fs, s) /\ Follows(r, s, len + n, len + n)
  BY <1>1, <1>4 DEF AfterAdding
<1>6. V \cup {len + n + 1} = W \cup (len + 1 .. len + (n + 1))
  BY DEF V
<1>7. /\ Len(k.blocks) = len + (n + 1) /\ k.current = g.current /\ Open(k)
      /\ Block(k).instrs = Block(g).instrs /\ Block(k).has_vars = Block(g).has_vars
      /\ Block(k).next = len + 1
  <2>1. Len(k.blocks) = len + (n + 1)
    <3>1. Len(k.blocks) = (len + n) + 1
      BY <1>1, <1>4 DEF AfterAdding
    <3>2. (len + n) + 1 = len + (n + 1)
      OBVIOUS
    <3>3. QED
      BY <3>1, <3>2
  <2>2. g.current # len + n /\ g.current \in 1 .. len + n
    BY <1>1
  <2>3. Block(k).next = Block(h).next
    BY <1>1, <1>4, <2>2 DEF AfterAdding, Block
  <2>4. QED
    BY <1>1, <1>4, <2>1, <2>3 DEF AfterAdding
<1>8. /\ \A b \in 1 .. len + n : s[b] \in 1 .. len + n + 1
      /\ \A b, c \in 1 .. len + n : r[b] < r[c] => s[b] < s[c]
      /\ s[len + n + 1] \in 1 .. len + n + 1
      /\ s[len + n] < s[len + n + 1]
      /\ \A b \in 1 .. len + n : r[len + n] < r[b] => s[len + n + 1] < s[b]
  BY <1>5 DEF Follows
<1>9. \A b \in len + 1 .. len + n :
        /\ r[g.current] < r[b]
        /\ \A c \in len + 1 .. len + n : b < c => r[b] < r[c]
        /\ \A d \in W : r[b] < r[d]
  BY DEF InRow
<1>10. g.current \in 1 .. len + n /\ \A d \in W : d \in 1 .. len + n
  BY <1>1, <1>2
<1>11. ASSUME NEW b \in len + 1 .. len + n
       PROVE  /\ s[g.current] < s[b]
              /\ \A c \in len + 1 .. len + n : b < c => s[b] < s[c]
              /\ \A d \in W : s[b] < s[d]
  <2>1. b \in 1 .. len + n /\ \A c \in len + 1 .. len + n : c \in 1 .. len + n
    OBVIOUS
  <2>2. QED
    BY <1>8, <1>9, <1>10, <2>1
<1>12. ASSUME NEW b \in len + 1 .. len + n PROVE s[b] < s[len + n + 1]
  <2>1. b = len + n \/ b < len + n
    OBVIOUS
  <2>2. CASE b = len + n
    BY <1>8, <2>2
  <2>3. CASE b < len + n
    <3>1. s[b] < s[len + n]
      BY <1>2, <1>11, <2>3
    <3>2. /\ s[b] \in 1 .. len + n + 1 /\ s[len + n] \in 1 .. len + n + 1
          /\ s[len + n + 1] \in 1 .. len + n + 1
      BY <1>2, <1>8
    <3>3. QED
      BY <1>8, <3>1, <3>2
  <2>4. QED
    BY <2>1, <2>2, <2>3
<1>13. s[g.current] < s[len + n + 1]
  <2>1. s[g.current] < s[len + n]
    BY <1>2, <1>11
  <2>2. /\ s[g.current] \in 1 .. len + n + 1 /\ s[len + n] \in 1 .. len + n + 1
        /\ s[len + n + 1] \in 1 .. len + n + 1
    BY <1>2, <1>8, <1>10
  <2>3. QED
    BY <1>8, <2>1, <2>2
<1>14. \A d \in W : s[len + n + 1] < s[d]
  BY <1>2, <1>8, <1>9, <1>10
<1>15. \A b \in len + 1 .. len + (n + 1) :
         /\ s[g.current] < s[b]
         /\ \A c \in len + 1 .. len + (n + 1) : b < c => s[b] < s[c]
         /\ \A d \in W : s[b] < s[d]
  <2>1. ASSUME NEW b \in len + 1 .. len + (n + 1)
        PROVE  b \in len + 1 .. len + n \/ b = len + n + 1
    OBVIOUS
  <2>2. \A c \in len + 1 .. len + (n + 1) : ~(len + n + 1 < c)
    OBVIOUS
  <2>3. QED
    BY <1>11, <1>12, <1>13, <1>14, <2>1, <2>2
<1>16. InRow(g, k, fs, s, len, n + 1)
  BY <1>1, <1>5, <1>6, <1>7, <1>15 DEF InRow
<1>17. QED
  BY <1>16 DEF k

\* builder_enter_block, which also may crash.
LEMMA EnterKeeps ==
  ASSUME ParserInv, status = "parsing", NEW new, NEW b, NEW gs, NEW m, Enter(new, b, gs, m),
         NEW W, NEW fs, NEW r, Placed(new, W, fs, r), b \in W, Block(new).term.id # "NONE",
         Statements(gs), LoopsBack(new, gs), WaitingIn(gs) = W \ {b},
         Lined(b, Len(new.blocks), gs, r), m \in {"statement", "expression", "ended"},
         vals' = << >>, \E t \in Sources, n \in Int : text' = TextOf(t, n),
         m = "expression" /\ want' = "while" => new.blocks[b].has_vars
  PROVE  ParserInv'
<1>1. frames' = gs /\ mode' = m
  BY DEF Enter
<1>2. mode' # "params" /\ vals' \in Seq(Operands(ir'))
  BY <1>1
<1>3. CASE CanEnter(new, b)
  <2>1. ir' = EnterBlock(new, b) /\ status' = "parsing"
    BY <1>3 DEF Enter
  <2>2. /\ Standing(EnterBlock(new, b), gs, r)
        /\ Block(EnterBlock(new, b)).has_vars = new.blocks[b].has_vars
    BY <1>3, EnteredPlaced DEF Statements
  <2>3. Standing(ir', frames', r) /\ Block(ir').has_vars = new.blocks[b].has_vars
    BY <1>1, <2>1, <2>2
  <2>4. Shape'
    BY <1>1, <2>1 DEF Shape
  <2>5. QED
    BY <1>1, <1>2, <2>1, <2>3, <2>4, StandingKeeps
<1>4. CASE ~CanEnter(new, b)
  BY <1>1, <1>2, <1>4 DEF Enter, Placed, Laid, Shape, ParserInv
<1>5. QED
  BY <1>3, <1>4

\* The current block has branched to the new block b right behind it.
Behind(h, fs, b, s) ==
  /\ Placed(h, WaitingIn(fs) \cup {b}, fs, s)
  /\ b \notin WaitingIn(fs)
  /\ Block(h).term.id # "NONE"
  /\ h.blocks[b].has_vars
  /\ Lined(b, Len(h.blocks), fs, s)
  /\ LoopsBack(h, fs)

LEMMA BranchBehind ==
  ASSUME NEW g, NEW fs \in Seq(FrameType), NEW r, Standing(g, fs, r)
  PROVE  \E s : Behind(Branch(AddBlock(g, g.current), Len(g.blocks) + 1), fs,
                       Len(g.blocks) + 1, s)
<1>1. PICK len \in Nat : len = Len(g.blocks)
  BY FieldsOfIR DEF Standing, Placed, Laid, Sound, IRFields
<1>2. PICK k : k = AddBlock(g, g.current)
  OBVIOUS
<1>3. PICK s : InRow(g, k, fs, s, len, 1)
  BY <1>1, <1>2, FirstInRow
<1>4. len + 1 .. len + 1 = {len + 1} /\ len + 1 \notin 1 .. len
  OBVIOUS
<1>5. /\ Placed(k, WaitingIn(fs) \cup {len + 1}, fs, s) /\ Open(k) /\ Len(k.blocks) = len + 1
      /\ k.current \in 1 .. len /\ WaitingIn(fs) \subseteq 1 .. len
      /\ s[k.current] < s[len + 1] /\ \A d \in WaitingIn(fs) : s[len + 1] < s[d]
  BY <1>3, <1>4 DEF InRow
<1>. DEFINE h == Branch(k, len + 1)
<1>6. BranchedTo(k, h, WaitingIn(fs) \cup {len + 1}, fs, s, len + 1)
  BY <1>5, BranchPlaced
<1>. HIDE DEF h
<1>7. Lined(len + 1, Len(h.blocks), fs, s) /\ LoopsBack(h, fs)
  BY <1>5, <1>6, LinedFrom DEF BranchedTo, Placed, Laid, Stacked
<1>8. Behind(h, fs, len + 1, s)
  BY <1>4, <1>5, <1>6, <1>7 DEF BranchedTo, Behind
<1>9. QED
  BY <1>1, <1>2, <1>8 DEF h

LEMMA BeginWhileSound ==
  ASSUME ParserInv, BeginWhile
  PROVE  ParserInv'
<1>. DEFINE cond == Len(ir.blocks) + 1
            h == Branch(AddBlock(ir, ir.current), cond)
<1>1. /\ status = "parsing" /\ mode = "statement" /\ Enter(h, cond, frames, "expression")
      /\ vals' = vals /\ text' = [text EXCEPT !.statements = @ - 1]
  BY DEF BeginWhile, Statement, Parsing
<1>2. Shape
  BY DEF ParserInv
<1>3. PICK r : Standing(ir, frames, r)
  BY <1>1 DEF ParserInv
<1>4. Statements(frames) /\ frames \in Seq(FrameType)
  BY <1>2 DEF Shape, Statements
<1>5. PICK s : Behind(h, frames, cond, s)
  BY <1>3, <1>4, BranchBehind
<1>. HIDE DEF h, cond
<1>6. vals' = << >>
  BY <1>1, <1>2 DEF Shape
<1>7. \E t \in Sources, n \in Int : text' = TextOf(t, n)
  BY <1>1, <1>2, OneStatement DEF Shape
<1>8. WaitingIn(frames) = (WaitingIn(frames) \cup {cond}) \ {cond}
  BY <1>5 DEF Behind
<1>9. QED
  BY <1>1, <1>4, <1>5, <1>6, <1>7, <1>8, EnterKeeps DEF Behind

\* A statement that waits for no block and is no loop comes or goes.
LEMMA SameWaiting ==
  ASSUME NEW fs \in Seq(FrameType), NEW gs, NEW f, Pushed(fs, gs, f), f.kind = "block"
  PROVE  /\ WaitingIn(gs) = WaitingIn(fs)
         /\ \A g : LoopsBack(g, gs) <=> LoopsBack(g, fs)
         /\ \A c, len, r : Lined(c, len, gs, r) <=> Lined(c, len, fs, r)
<1>1. Awaits(f) = {}
  BY DEF Awaits
<1>2. WaitingIn(gs) = WaitingIn(fs)
  <2>1. WaitingIn(gs) = WaitingIn(fs) \cup Awaits(f)
    BY PushedWaiting
  <2>2. QED
    BY <1>1, <2>1
<1>3. ASSUME NEW g PROVE LoopsBack(g, gs) <=> LoopsBack(g, fs)
  BY PushedLoops
<1>4. ASSUME NEW c, NEW len, NEW r PROVE Lined(c, len, gs, r) <=> Lined(c, len, fs, r)
  BY <1>1, PushedLined
<1>5. QED
  BY <1>2, <1>3, <1>4

LEMMA OpenBlockSound ==
  ASSUME ParserInv, OpenBlock
  PROVE  ParserInv'
<1>. DEFINE b == Len(ir.blocks) + 1
            h == Branch(AddBlock(ir, ir.current), b)
            f == [kind |-> "block"]
            gs == Append(frames, f)
<1>1. /\ status = "parsing" /\ mode = "statement" /\ Enter(h, b, gs, "statement")
      /\ vals' = vals /\ text' = [text EXCEPT !.statements = @ - 1]
  BY DEF OpenBlock, Statement, Parsing
<1>2. Shape
  BY DEF ParserInv
<1>3. PICK r : Standing(ir, frames, r)
  BY <1>1 DEF ParserInv
<1>4. Statements(frames) /\ frames \in Seq(FrameType)
  BY <1>2 DEF Shape, Statements
<1>5. PICK s : Behind(h, frames, b, s)
  BY <1>3, <1>4, BranchBehind
<1>6. f \in FrameType /\ f.kind = "block"
  BY DEF FrameType
<1>. HIDE DEF h, b, f
<1>7. Statements(gs) /\ Pushed(frames, gs, f)
  BY <1>4, <1>6, StatementsPushed
<1>. HIDE DEF gs
<1>8. vals' = << >>
  BY <1>1, <1>2 DEF Shape
<1>9. \E t \in Sources, n \in Int : text' = TextOf(t, n)
  BY <1>1, <1>2, OneStatement DEF Shape
<1>10. /\ WaitingIn(gs) = (WaitingIn(frames) \cup {b}) \ {b}
       /\ LoopsBack(h, gs) /\ Lined(b, Len(h.blocks), gs, s)
  BY <1>4, <1>5, <1>6, <1>7, SameWaiting DEF Behind
<1>11. QED
  BY <1>1, <1>5, <1>7, <1>8, <1>9, <1>10, EnterKeeps DEF Behind

LEMMA CloseBlockSound ==
  ASSUME ParserInv, CloseBlock
  PROVE  ParserInv'
<1>. DEFINE b == Len(ir.blocks) + 1
            h == Branch(AddBlock(ir, ir.current), b)
            gs == Pop(frames, 1)
            m == NextMode(gs)
<1>1. /\ status = "parsing" /\ mode = "statement" /\ Top(frames).kind = "block"
      /\ Enter(h, b, gs, m) /\ vals' = vals /\ text' = text
  BY DEF CloseBlock, Innermost, Parsing
<1>2. Shape
  BY DEF ParserInv
<1>3. PICK r : Standing(ir, frames, r)
  BY <1>1 DEF ParserInv
<1>4. Statements(frames) /\ frames \in Seq(FrameType)
  BY <1>2 DEF Shape, Statements
<1>5. PICK s : Behind(h, frames, b, s)
  BY <1>3, <1>4, BranchBehind
<1>. HIDE DEF h, b
<1>6. Statements(gs) /\ gs \in Seq(FrameType) /\ Pushed(gs, frames, Top(frames))
  BY <1>1, <1>4, StatementsPopped DEF Statements
<1>7. m \in {"statement", "ended"}
  BY NextModes
<1>. HIDE DEF gs, m
<1>8. vals' = << >>
  BY <1>1, <1>2 DEF Shape
<1>9. \E t \in Sources, n \in Int : text' = TextOf(t, n)
  BY <1>1, <1>2 DEF Shape
<1>10. /\ WaitingIn(gs) = (WaitingIn(frames) \cup {b}) \ {b}
       /\ LoopsBack(h, gs) /\ Lined(b, Len(h.blocks), gs, s)
  BY <1>1, <1>5, <1>6, SameWaiting DEF Behind
<1>11. m \in {"statement", "expression", "ended"}
  BY <1>7
<1>12. m = "expression" /\ want' = "while" => h.blocks[b].has_vars
  BY <1>7
<1>13. Placed(h, WaitingIn(frames) \cup {b}, frames, s) /\ Block(h).term.id # "NONE"
  BY <1>5 DEF Behind
<1>14. QED
  BY <1>1, <1>6, <1>8, <1>9, <1>10, <1>11, <1>12, <1>13, EnterKeeps

\* The condition of an if or a loop is complete: the current block branches to
\* the first block of a row and to another one, which waits.
CBranched(g, h, W, fs, s, t) ==
  /\ BranchedTo(g, h, W, fs, s, t)
  /\ Block(h).term.id = "CBRANCH"

LEMMA CBranchBehind ==
  ASSUME NEW g, NEW k, NEW fs \in Seq(FrameType), NEW s, NEW len \in Nat, NEW n \in Nat \ {0, 1},
         InRow(g, k, fs, s, len, n), NEW cond \in Value,
         Defined(g.current, cond, Len(Block(g).instrs))
  PROVE  CBranched(k, CBranch(k, cond, len + 1, len + 2),
                   WaitingIn(fs) \cup (len + 1 .. len + n), fs, s, len + 1)
<1>. DEFINE W == WaitingIn(fs) \cup (len + 1 .. len + n)
<1>1. /\ len + 1 \in 1 .. len + n /\ len + 2 \in 1 .. len + n /\ len + 1 # len + 2
      /\ len + 1 \in len + 1 .. len + n /\ len + 2 \in len + 1 .. len + n
  OBVIOUS
<1>2. /\ Placed(k, W, fs, s) /\ Open(k) /\ Len(k.blocks) = len + n
      /\ k.current = g.current /\ Block(k).instrs = Block(g).instrs
      /\ Block(k).next = len + 1
      /\ s[k.current] < s[len + 1] /\ s[k.current] < s[len + 2]
  BY <1>1 DEF InRow
<1>3. Defined(k.current, cond, Len(Block(k).instrs))
  BY <1>2
<1>4. len + 1 \in W /\ len + 2 \in W /\ len + 1 \in 1 .. Len(k.blocks) /\ len + 2 \in 1 .. Len(k.blocks)
  BY <1>1, <1>2
<1>. HIDE DEF W
<1>5. /\ BranchedTo(k, CBranch(k, cond, len + 1, len + 2), W, fs, s, len + 1)
      /\ Block(CBranch(k, cond, len + 1, len + 2)).term.id = "CBRANCH"
  BY <1>1, <1>2, <1>3, <1>4, CBranchPlaced
<1>6. QED
  BY <1>5 DEF CBranched, W

\* A frame that waits for blocks of the row behind its first one.
LEMMA RowLined ==
  ASSUME NEW g, NEW k, NEW fs \in Seq(FrameType), NEW s, NEW len \in Nat, NEW n \in Nat \ {0, 1},
         InRow(g, k, fs, s, len, n), NEW gs, NEW f, Pushed(fs, gs, f),
         Awaits(f) = len + 2 .. len + n,
         f.kind = "then" => f.else = len + 2 /\ f.after = len + 3 /\ n = 3
  PROVE  Lined(len + 1, Len(k.blocks), gs, s)
<1>1. /\ Placed(k, WaitingIn(fs) \cup (len + 1 .. len + n), fs, s) /\ Len(k.blocks) = len + n
      /\ WaitingIn(fs) \subseteq 1 .. len
      /\ \A b \in len + 1 .. len + n :
           /\ \A c \in len + 1 .. len + n : b < c => s[b] < s[c]
           /\ \A d \in WaitingIn(fs) : s[b] < s[d]
  BY DEF InRow
<1>2. len + 1 \in len + 1 .. len + n
  OBVIOUS
<1>3. Lined(len + 1, Len(k.blocks), fs, s)
  BY <1>1, <1>2, LinedFrom DEF Placed, Laid, Stacked
<1>4. ASSUME NEW b \in Awaits(f)
      PROVE  /\ b \in 1 .. Len(k.blocks) /\ s[len + 1] < s[b]
             /\ \A d \in WaitingIn(fs) : s[b] < s[d]
  BY <1>1, <1>2
<1>5. f.kind = "then" => s[f.else] < s[f.after]
  <2>1. SUFFICES ASSUME f.kind = "then" PROVE s[f.else] < s[f.after]
    OBVIOUS
  <2>2. f.else = len + 2 /\ f.after = len + 3 /\ n = 3
    BY <2>1
  <2>3. len + 2 \in len + 1 .. len + n /\ len + 3 \in len + 1 .. len + n /\ len + 2 < len + 3
    BY <2>2
  <2>4. QED
    BY <1>1, <2>2, <2>3
<1>6. QED
  BY <1>3, <1>4, <1>5, PushedLined

LEMMA RowWaiting ==
  ASSUME NEW fs \in Seq(FrameType), NEW gs, NEW f, Pushed(fs, gs, f),
         NEW len \in Nat, NEW last \in Nat, WaitingIn(fs) \subseteq 1 .. len,
         last >= len + 1, Awaits(f) = len + 2 .. last
  PROVE  WaitingIn(gs) = (WaitingIn(fs) \cup (len + 1 .. last)) \ {len + 1}
<1>1. WaitingIn(gs) = WaitingIn(fs) \cup (len + 2 .. last)
  BY PushedWaiting
<1>2. len + 2 .. last = (len + 1 .. last) \ {len + 1} /\ len + 1 \notin 1 .. len
  OBVIOUS
<1>3. QED
  BY <1>1, <1>2

LEMMA BeginThenSound ==
  ASSUME ParserInv, BeginThen
  PROVE  ParserInv'
<1>1. PICK cond : cond = Top(vals).val
  OBVIOUS
<1>2. Complete("if")
  BY DEF BeginThen
<1>3. /\ status = "parsing" /\ vals' = << >> /\ text' = text /\ Shape
      /\ cond \in Value /\ Defined(ir.current, cond, Len(Block(ir).instrs))
  BY <1>1, <1>2, CompleteContext
<1>4. PICK r : Standing(ir, frames, r)
  BY <1>3 DEF ParserInv
<1>5. PICK len \in Nat : len = Len(ir.blocks)
  BY <1>4, FieldsOfIR DEF Standing, Placed, Laid, Sound, IRFields
<1>6. Statements(frames) /\ frames \in Seq(FrameType)
  BY <1>3 DEF Shape, Statements
<1>. DEFINE k1 == AddBlock(ir, ir.current)
            k2 == AddBlock(k1, len + 1)
            k == AddBlock(k2, len + 2)
            h == CBranch(k, cond, len + 1, len + 2)
            f == [kind |-> "then", else |-> len + 2, after |-> len + 3]
            gs == Append(frames, f)
<1>7. Enter(h, len + 1, gs, "statement")
  BY <1>1, <1>5 DEF BeginThen
<1>. HIDE DEF k1, k2, k
<1>8. \E s : InRow(ir, k1, frames, s, len, 1)
  BY <1>4, <1>5, <1>6, FirstInRow DEF k1
<1>9. \E s : InRow(ir, k2, frames, s, len, 2)
  BY <1>6, <1>8, NextInRow DEF k2
<1>10. PICK s : InRow(ir, k, frames, s, len, 3)
  BY <1>6, <1>9, NextInRow DEF k
<1>. DEFINE W == WaitingIn(frames) \cup (len + 1 .. len + 3)
<1>11. CBranched(k, h, W, frames, s, len + 1)
  BY <1>3, <1>6, <1>10, CBranchBehind
<1>12. /\ f \in FrameType /\ f.kind = "then" /\ f.else = len + 2 /\ f.after = len + 3
       /\ Awaits(f) = len + 2 .. len + 3
  BY DEF FrameType, Awaits
<1>. HIDE DEF h, f
<1>13. Statements(gs) /\ Pushed(frames, gs, f)
  BY <1>6, <1>12, StatementsPushed
<1>. HIDE DEF gs
<1>14. Lined(len + 1, Len(k.blocks), gs, s) /\ WaitingIn(gs) = W \ {len + 1}
  <2>1. 3 \in Nat \ {0, 1} /\ (f.kind = "then" => f.else = len + 2 /\ f.after = len + 3 /\ 3 = 3)
    BY <1>12
  <2>2. Lined(len + 1, Len(k.blocks), gs, s)
    BY <1>6, <1>10, <1>12, <1>13, <2>1, RowLined
  <2>3. WaitingIn(gs) = W \ {len + 1}
    <3>1. PICK last \in Nat : last = len + 3
      OBVIOUS
    <3>2. WaitingIn(frames) \subseteq 1 .. len /\ last >= len + 1
      BY <1>10, <3>1 DEF InRow
    <3>3. Awaits(f) = len + 2 .. last
      BY <1>12, <3>1
    <3>4. WaitingIn(gs) = (WaitingIn(frames) \cup (len + 1 .. last)) \ {len + 1}
      BY <1>6, <1>13, <3>2, <3>3, RowWaiting
    <3>5. QED
      BY <3>1, <3>4
  <2>4. QED
    BY <2>2, <2>3
<1>15. len + 1 \in W
  BY DEF W
<1>. HIDE DEF W
<1>16. Placed(h, W, frames, s) /\ Block(h).term.id # "NONE" /\ Len(h.blocks) = Len(k.blocks)
  BY <1>11 DEF CBranched, BranchedTo
<1>17. LoopsBack(h, gs)
  BY <1>6, <1>12, <1>13, <1>16, PushedLoops DEF Placed, Laid
<1>18. \E t \in Sources, n \in Int : text' = TextOf(t, n)
  BY <1>3 DEF Shape
<1>19. QED
  BY <1>3, <1>7, <1>13, <1>14, <1>15, <1>16, <1>17, <1>18, EnterKeeps

LEMMA BeginDoSound ==
  ASSUME ParserInv, BeginDo
  PROVE  ParserInv'
<1>1. PICK cond : cond = Top(vals).val
  OBVIOUS
<1>2. Complete("while")
  BY DEF BeginDo
<1>3. /\ status = "parsing" /\ vals' = << >> /\ text' = text /\ Shape
      /\ cond \in Value /\ Defined(ir.current, cond, Len(Block(ir).instrs))
      /\ mode = "expression" /\ want = "while"
  BY <1>1, <1>2, CompleteContext
<1>4. PICK r : Standing(ir, frames, r)
  BY <1>3 DEF ParserInv
<1>5. PICK len \in Nat : len = Len(ir.blocks)
  BY <1>4, FieldsOfIR DEF Standing, Placed, Laid, Sound, IRFields
<1>6. Statements(frames) /\ frames \in Seq(FrameType)
  BY <1>3 DEF Shape, Statements
<1>6a. Block(ir).has_vars /\ ir.current \in 1 .. len
  BY <1>3, <1>4, <1>5 DEF ParserInv, Standing, Placed, Laid, Sound
<1>. DEFINE k1 == AddBlock(ir, ir.current)
            k == AddBlock(k1, len + 1)
            h == CBranch(k, cond, len + 1, len + 2)
            f == [kind |-> "while", cond |-> ir.current, after |-> len + 2]
            gs == Append(frames, f)
<1>7. Enter(h, len + 1, gs, "statement")
  BY <1>1, <1>5 DEF BeginDo
<1>. HIDE DEF k1, k
<1>8. PICK s1 : InRow(ir, k1, frames, s1, len, 1)
  BY <1>4, <1>5, <1>6, FirstInRow DEF k1
<1>9. PICK s : InRow(ir, k, frames, s, len, 2)
  BY <1>6, <1>8, NextInRow DEF k
<1>. DEFINE W == WaitingIn(frames) \cup (len + 1 .. len + 2)
<1>10. CBranched(k, h, W, frames, s, len + 1)
  BY <1>3, <1>6, <1>9, CBranchBehind
<1>11. /\ f \in FrameType /\ f.kind = "while" /\ f.cond = ir.current
       /\ Awaits(f) = len + 2 .. len + 2
  BY <1>6a DEF FrameType, Awaits
<1>. HIDE DEF h, f
<1>12. Statements(gs) /\ Pushed(frames, gs, f)
  BY <1>6, <1>11, StatementsPushed
<1>. HIDE DEF gs
<1>13. Lined(len + 1, Len(k.blocks), gs, s) /\ WaitingIn(gs) = W \ {len + 1}
  <2>1. 2 \in Nat \ {0, 1} /\ f.kind # "then"
    BY <1>11
  <2>2. Lined(len + 1, Len(k.blocks), gs, s)
    BY <1>6, <1>9, <1>11, <1>12, <2>1, RowLined
  <2>3. WaitingIn(gs) = W \ {len + 1}
    <3>1. PICK last \in Nat : last = len + 2
      OBVIOUS
    <3>2. WaitingIn(frames) \subseteq 1 .. len /\ last >= len + 1
      BY <1>9, <3>1 DEF InRow
    <3>3. Awaits(f) = len + 2 .. last
      BY <1>11, <3>1
    <3>4. WaitingIn(gs) = (WaitingIn(frames) \cup (len + 1 .. last)) \ {len + 1}
      BY <1>6, <1>12, <3>2, <3>3, RowWaiting
    <3>5. QED
      BY <3>1, <3>4
  <2>4. QED
    BY <2>2, <2>3
<1>14. len + 1 \in W
  BY DEF W
<1>. HIDE DEF W
<1>15. Placed(h, W, frames, s) /\ Block(h).term.id # "NONE" /\ Len(h.blocks) = Len(k.blocks)
  BY <1>10 DEF CBranched, BranchedTo
<1>16. LoopsBack(h, gs)
  <2>1. /\ k.current = ir.current /\ Len(k.blocks) = len + 2 /\ k.blocks[ir.current].has_vars
    BY <1>6a, <1>9 DEF InRow, Block
  <2>2. ir.current \in 1 .. Len(k.blocks)
    BY <1>6a, <2>1
  <2>3. /\ h.current = ir.current /\ h.blocks[ir.current].has_vars
        /\ h.blocks[ir.current].term.id = "CBRANCH"
    BY <1>10, <2>1, <2>2 DEF CBranched, BranchedTo, Block
  <2>4. QED
    BY <1>6, <1>11, <1>12, <1>15, <2>2, <2>3, PushedLoops DEF Placed, Laid
<1>17. \E t \in Sources, n \in Int : text' = TextOf(t, n)
  BY <1>3 DEF Shape
<1>18. QED
  BY <1>3, <1>7, <1>12, <1>13, <1>14, <1>15, <1>16, <1>17, EnterKeeps

\* What the innermost statement waits for comes before the rest.
LEMMA InnermostWaits ==
  ASSUME NEW fs, Statements(fs), Top(fs).kind # "func", NEW g, NEW r, Standing(g, fs, r)
  PROVE  /\ WaitingIn(fs) = WaitingIn(Pop(fs, 1)) \cup Awaits(Top(fs))
         /\ Lined(g.current, Len(g.blocks), Pop(fs, 1), r)
         /\ \A b \in Awaits(Top(fs)) :
              /\ b \in 1 .. Len(g.blocks) /\ r[g.current] < r[b] /\ ~(r[b] < r[b])
              /\ \A d \in WaitingIn(Pop(fs, 1)) : r[b] < r[d]
         /\ Top(fs).kind = "then" => r[Top(fs).else] < r[Top(fs).after]
<1>. DEFINE gs == Pop(fs, 1)
            f == Top(fs)
<1>1. gs \in Seq(FrameType) /\ Pushed(gs, fs, f)
  BY StatementsPopped DEF Statements
<1>. HIDE DEF gs, f
<1>2. /\ Lined(g.current, Len(g.blocks), fs, r) /\ Positions(r, Len(g.blocks))
      /\ Len(g.blocks) \in Nat
  BY FieldsOfIR DEF Standing, Placed, Laid, Stacked, Ranked, Sound, IRFields
<1>3. /\ Lined(g.current, Len(g.blocks), gs, r)
      /\ \A b \in Awaits(f) : /\ b \in 1 .. Len(g.blocks) /\ r[g.current] < r[b]
                              /\ \A d \in WaitingIn(gs) : r[b] < r[d]
      /\ f.kind = "then" => r[f.else] < r[f.after]
  BY <1>1, <1>2, PushedLined
<1>4. WaitingIn(fs) = WaitingIn(gs) \cup Awaits(f)
  BY <1>1, PushedWaiting
<1>5. ASSUME NEW b \in 1 .. Len(g.blocks) PROVE ~(r[b] < r[b])
  <2>1. PICK n \in 1 .. Len(g.blocks) : n = r[b]
    BY <1>2 DEF Positions
  <2>2. ~(n < n)
    BY <1>2
  <2>3. QED
    BY <2>1, <2>2
<1>6. QED
  BY <1>3, <1>4, <1>5 DEF gs, f

\* The current block goes on to t unless it has ended in a return.
LEMMA UnlessEnded ==
  ASSUME NEW r, Standing(ir, frames, r), NEW t \in WaitingIn(frames), r[ir.current] < r[t]
  PROVE  /\ Placed(BranchUnlessEnded(t), WaitingIn(frames), frames, r)
         /\ Block(BranchUnlessEnded(t)).term.id # "NONE"
         /\ Len(BranchUnlessEnded(t).blocks) = Len(ir.blocks)
<1>1. /\ Placed(ir, WaitingIn(frames), frames, r) /\ Open(ir)
      /\ t \in 1 .. Len(ir.blocks) /\ t # ir.current
  BY DEF Standing, Placed, Laid, Sound
<1>2. CASE Block(ir).term.id = "NONE"
  <2>1. BranchedTo(ir, Branch(ir, t), WaitingIn(frames), frames, r, t)
    BY <1>1, BranchPlaced
  <2>2. QED
    BY <1>2, <2>1 DEF BranchUnlessEnded, BranchedTo
<1>3. CASE Block(ir).term.id # "NONE"
  BY <1>1, <1>3 DEF BranchUnlessEnded
<1>4. QED
  BY <1>2, <1>3

LEMMA BeginElseSound ==
  ASSUME ParserInv, BeginElse
  PROVE  ParserInv'
<1>. DEFINE f == Top(frames)
            h == BranchUnlessEnded(f.after)
            rest == Pop(frames, 1)
            e == [kind |-> "else", after |-> f.after]
            gs == Append(rest, e)
            W == WaitingIn(frames)
<1>1. /\ status = "parsing" /\ mode = "ended" /\ f.kind = "then"
      /\ Enter(h, f.else, gs, "statement") /\ vals' = vals /\ text' = text
  BY DEF BeginElse, Innermost, Parsing
<1>2. Shape
  BY DEF ParserInv
<1>3. PICK r : Standing(ir, frames, r)
  BY <1>1 DEF ParserInv
<1>4. Statements(frames) /\ Statements(rest) /\ Pushed(rest, frames, f) /\ f \in FrameType
  BY <1>1, <1>2, StatementsPopped DEF Shape
<1>5. f.after \in Nat /\ Awaits(f) = {f.else, f.after}
  BY <1>1, <1>4 DEF FrameType, Awaits
<1>6. e \in FrameType /\ e.kind = "else" /\ e.after = f.after /\ Awaits(e) = {f.after}
  BY <1>5 DEF FrameType, Awaits
<1>. HIDE DEF e
<1>7. Statements(gs) /\ Pushed(rest, gs, e)
  BY <1>4, <1>6, StatementsPushed
<1>. HIDE DEF gs
<1>8. /\ W = WaitingIn(rest) \cup {f.else, f.after}
      /\ Lined(ir.current, Len(ir.blocks), rest, r)
      /\ \A b \in {f.else, f.after} :
           /\ b \in 1 .. Len(ir.blocks) /\ r[ir.current] < r[b] /\ ~(r[b] < r[b])
           /\ \A d \in WaitingIn(rest) : r[b] < r[d]
      /\ r[f.else] < r[f.after]
  BY <1>1, <1>3, <1>4, <1>5, InnermostWaits
<1>9. f.else \in W /\ f.after \in W
  BY <1>8
<1>. HIDE DEF f, rest, W
<1>10. Placed(h, W, frames, r) /\ Block(h).term.id # "NONE" /\ Len(h.blocks) = Len(ir.blocks)
  BY <1>3, <1>8, <1>9, UnlessEnded DEF W
<1>. HIDE DEF h
<1>11. WaitingIn(gs) = W \ {f.else}
  <2>1. WaitingIn(gs) = WaitingIn(rest) \cup {f.after}
    BY <1>4, <1>6, <1>7, PushedWaiting DEF Statements
  <2>2. f.else \notin WaitingIn(rest) /\ f.else # f.after
    BY <1>8
  <2>3. QED
    BY <1>8, <2>1, <2>2
<1>12. Lined(f.else, Len(h.blocks), gs, r)
  <2>1. Lined(f.else, Len(ir.blocks), rest, r)
    BY <1>8, LinedFrom
  <2>2. \A b \in Awaits(e) : /\ b \in 1 .. Len(ir.blocks) /\ r[f.else] < r[b]
                             /\ \A d \in WaitingIn(rest) : r[b] < r[d]
    BY <1>6, <1>8
  <2>3. e.kind # "then" /\ rest \in Seq(FrameType)
    BY <1>4, <1>6 DEF Statements
  <2>4. Lined(f.else, Len(ir.blocks), gs, r)
    BY <1>7, <2>1, <2>2, <2>3, PushedLined
  <2>5. QED
    BY <1>10, <2>4
<1>13. LoopsBack(h, gs)
  BY <1>4, <1>6, <1>7, <1>10, PushedLoops DEF Placed, Laid, Statements
<1>14. vals' = << >> /\ \E t \in Sources, n \in Int : text' = TextOf(t, n)
  BY <1>1, <1>2 DEF Shape
<1>15. QED
  BY <1>1, <1>7, <1>9, <1>10, <1>11, <1>12, <1>13, <1>14, EnterKeeps

\* The innermost statement ends, and the block behind it is entered.
LEMMA StatementEnds ==
  ASSUME ParserInv, status = "parsing", mode = "ended", NEW r, Standing(ir, frames, r),
         Top(frames).kind \in {"else", "while"}, NEW h,
         Placed(h, WaitingIn(frames), frames, r), Block(h).term.id # "NONE",
         Len(h.blocks) = Len(ir.blocks),
         Enter(h, Top(frames).after, Pop(frames, 1), NextMode(Pop(frames, 1))),
         vals' = vals, text' = text
  PROVE  ParserInv'
<1>. DEFINE f == Top(frames)
            gs == Pop(frames, 1)
            W == WaitingIn(frames)
            m == NextMode(gs)
<1>1. Shape
  BY DEF ParserInv
<1>2. Statements(frames) /\ f.kind # "func" /\ Awaits(f) = {f.after}
  BY <1>1 DEF Shape, Awaits
<1>3. Statements(gs) /\ Pushed(gs, frames, f) /\ gs \in Seq(FrameType)
  BY <1>2, StatementsPopped DEF Statements
<1>4. /\ W = WaitingIn(gs) \cup {f.after}
      /\ Lined(ir.current, Len(ir.blocks), gs, r)
      /\ \A d \in WaitingIn(gs) : r[f.after] < r[d]
      /\ ~(r[f.after] < r[f.after])
  BY <1>2, InnermostWaits
<1>5. m \in {"statement", "ended"}
  BY NextModes
<1>. HIDE DEF f, gs, W, m
<1>6. WaitingIn(gs) = W \ {f.after} /\ f.after \in W
  BY <1>4
<1>7. Lined(f.after, Len(h.blocks), gs, r)
  BY <1>4, LinedFrom
<1>8. LoopsBack(h, gs)
  BY <1>3, PushedLoops DEF Placed, Laid
<1>9. vals' = << >> /\ \E t \in Sources, n \in Int : text' = TextOf(t, n)
  BY <1>1 DEF Shape
<1>10. /\ m \in {"statement", "expression", "ended"}
       /\ (m = "expression" /\ want' = "while") => h.blocks[f.after].has_vars
  BY <1>5
<1>11. Enter(h, f.after, gs, m) /\ Placed(h, W, frames, r)
  BY DEF f, gs, W, m
<1>12. QED
  BY <1>3, <1>6, <1>7, <1>8, <1>9, <1>10, <1>11, EnterKeeps

LEMMA EndIfSound ==
  ASSUME ParserInv, EndIf
  PROVE  ParserInv'
<1>. DEFINE f == Top(frames)
            h == BranchUnlessEnded(f.after)
<1>1. /\ status = "parsing" /\ mode = "ended" /\ f.kind = "else"
      /\ Enter(h, f.after, Pop(frames, 1), NextMode(Pop(frames, 1)))
      /\ vals' = vals /\ text' = text
  BY DEF EndIf, Innermost, Parsing
<1>2. PICK r : Standing(ir, frames, r)
  BY <1>1 DEF ParserInv
<1>3. Statements(frames) /\ Awaits(f) = {f.after}
  BY <1>1 DEF ParserInv, Shape, Awaits
<1>4. f.after \in WaitingIn(frames) /\ r[ir.current] < r[f.after]
  BY <1>1, <1>2, <1>3, InnermostWaits
<1>5. /\ Placed(h, WaitingIn(frames), frames, r) /\ Block(h).term.id # "NONE"
      /\ Len(h.blocks) = Len(ir.blocks)
  BY <1>2, <1>4, UnlessEnded
<1>. HIDE DEF h
<1>6. QED
  BY <1>1, <1>2, <1>5, StatementEnds

LEMMA EndWhileSound ==
  ASSUME ParserInv, EndWhile
  PROVE  ParserInv'
<1>. DEFINE f == Top(frames)
            h == Branch(ir, f.cond)
<1>1. /\ status = "parsing" /\ mode = "ended" /\ f.kind = "while"
      /\ Enter(h, f.after, Pop(frames, 1), NextMode(Pop(frames, 1)))
      /\ vals' = vals /\ text' = text
  BY DEF EndWhile, Innermost, Parsing
<1>2. PICK r : Standing(ir, frames, r)
  BY <1>1 DEF ParserInv
<1>3. Placed(ir, WaitingIn(frames), frames, r) /\ Open(ir) /\ LoopsBack(ir, frames)
  BY <1>2 DEF Standing, Placed, Laid
<1>4. Pushed(Pop(frames, 1), frames, f) /\ Pop(frames, 1) \in Seq(FrameType)
  BY <1>1, StatementsPopped DEF ParserInv, Shape, Statements
<1>5. /\ f.cond \in 1 .. Len(ir.blocks) /\ ir.blocks[f.cond].has_vars
      /\ ir.blocks[f.cond].term.id = "CBRANCH"
  BY <1>1, <1>3, <1>4, PushedLoops
<1>6. f.cond # ir.current
  <2>1. TermShape(ir.blocks[f.cond])
    BY <1>3, <1>5 DEF Placed, Laid, Sound, BlockSound
  <2>2. Len(ir.blocks[f.cond].term.targets) = 2
    BY <1>5, <2>1 DEF TermShape
  <2>3. Len(ir.blocks[ir.current].term.targets) = 0
    BY <1>3 DEF Open, Block
  <2>4. SUFFICES ASSUME f.cond = ir.current PROVE FALSE
    OBVIOUS
  <2>5. 2 = 0
    BY <2>2, <2>3, <2>4
  <2>6. QED
    BY <2>5
<1>7. BranchedTo(ir, h, WaitingIn(frames), frames, r, f.cond)
  BY <1>3, <1>5, <1>6, BranchPlaced
<1>. HIDE DEF h
<1>8. /\ Placed(h, WaitingIn(frames), frames, r) /\ Block(h).term.id # "NONE"
      /\ Len(h.blocks) = Len(ir.blocks)
  BY <1>7 DEF BranchedTo
<1>9. QED
  BY <1>1, <1>2, <1>8, StatementEnds

\* No step of the parser breaks it, and the texts do not change while it rests.
LEMMA NextSound ==
  ASSUME ParserInv, Next
  PROVE  ParserInv'
<1>1. ASSUME NEW x \in text.names, Parameter(x) \/ Variable(x) \/ EndLet(x) PROVE ParserInv'
  BY <1>1, ParameterSound, VariableSound, EndLetSound
<1>2. ASSUME NEW id \in {"INT", "GLOBAL", "NEW_OBJECT"}, Leaf(id) PROVE ParserInv'
  BY <1>2, LeafSound
<1>3. ASSUME NEW id \in {"ADD", "SUB", "CMP"}, Combine(id) PROVE ParserInv'
  BY <1>3, CombineSound
<1>4. ASSUME NEW w \in {"value", "let", "return", "if"}, BeginExpression(w) PROVE ParserInv'
  BY <1>4, BeginExpressionSound
<1>5. OpenBody => ParserInv'
  BY OpenBodySound
<1>6. Parenthesised \/ Attribute \/ BeginCall \/ Argument \/ EndCall => ParserInv'
  BY ParenthesisedSound, AttributeSound, BeginCallSound, ArgumentSound, EndCallSound
<1>7. AssignVariable \/ AssignAttribute \/ AssignNothing => ParserInv'
  BY AssignVariableSound, AssignAttributeSound, AssignNothingSound
<1>8. EndExpression \/ EndReturn \/ CloseFunction => ParserInv'
  BY EndExpressionSound, EndReturnSound, CloseFunctionSound
<1>9. BeginThen \/ BeginElse \/ EndIf => ParserInv'
  BY BeginThenSound, BeginElseSound, EndIfSound
<1>10. BeginWhile \/ BeginDo \/ EndWhile => ParserInv'
  BY BeginWhileSound, BeginDoSound, EndWhileSound
<1>11. OpenBlock \/ CloseBlock => ParserInv'
  BY OpenBlockSound, CloseBlockSound
<1>12. QED
  BY <1>1, <1>2, <1>3, <1>4, <1>5, <1>6, <1>7, <1>8, <1>9, <1>10, <1>11 DEF Next

-----------------------------------------------------------------------------
(***************************************************************************)
(* The passes over the finished function.                                  *)
(***************************************************************************)
\* Only counts are changed.
Recounted(blocks, result) ==
  /\ result \in Seq(BlockType)
  /\ Len(result) = Len(blocks)
  /\ \A b \in 1 .. Len(blocks) : SameBlock(blocks[b], result[b])

\* The arguments of the parameters that nobody uses.
Passed(blocks, to, from) ==
  {<<i, ValueIn(blocks[from].vars, blocks[to].instrs[i].name)>> : i \in Unused(blocks[to])}
TimesPassed(blocks, to, from, i) ==
  Cardinality({a \in Passed(blocks, to, from) : a[2] = <<from, i>>})

LEMMA PassedFinite ==
  ASSUME NEW blocks \in Seq(BlockType), NEW to \in 1 .. Len(blocks), NEW from, NEW i
  PROVE  TimesPassed(blocks, to, from, i) \in Nat
<1>. DEFINE U == Unused(blocks[to])
            A == Passed(blocks, to, from)
            f == [k \in U |-> <<k, ValueIn(blocks[from].vars, blocks[to].instrs[k].name)>>]
<1>1. IsFiniteSet(U)
  BY EnabledFinite, FS_Subset DEF Unused
<1>. HIDE DEF U
<1>2. f \in Surjection(U, A)
  <2>1. A = {f[k] : k \in U}
    BY DEF Passed, U
  <2>2. f \in [U -> A]
    BY <2>1
  <2>. HIDE DEF A, f
  <2>3. QED
    BY <2>1, <2>2 DEF Surjection
<1>. HIDE DEF A, f
<1>3. IsFiniteSet(A)
  BY <1>1, <1>2, FS_Surjection
<1>4. PICK S : S = {a \in A : a[2] = <<from, i>>}
  OBVIOUS
<1>5. IsFiniteSet(S)
  BY <1>3, <1>4, FS_Subset
<1>6. Cardinality(S) \in Nat
  BY <1>5, FS_CardinalityType
<1>7. QED
  BY <1>4, <1>6 DEF TimesPassed, A

\* Only the counts of block from are changed.
Released(blocks, result, to, from) ==
  /\ Recounted(blocks, result)
  /\ \A b \in 1 .. Len(blocks) : b # from => result[b] = blocks[b]
  /\ \A i \in 1 .. Len(blocks[from].instrs) :
       result[from].instrs[i].refs =
         blocks[from].instrs[i].refs - TimesPassed(blocks, to, from, i)

LEMMA ReleaseFields ==
  ASSUME NEW blocks \in Seq(BlockType), NEW to \in 1 .. Len(blocks), NEW from \in 1 .. Len(blocks)
  PROVE  Released(blocks, Release(blocks, to, from), to, from)
<1>. DEFINE x == blocks[from]
            Less(i) == [x.instrs[i] EXCEPT !.refs = @ - TimesPassed(blocks, to, from, i)]
            is == [i \in DOMAIN x.instrs |-> Less(i)]
            y == [x EXCEPT !.instrs = is]
            result == [blocks EXCEPT ![from] = y]
<1>1. Release(blocks, to, from) = result
  BY DEF Release, TimesPassed, Passed
<1>2. x \in BlockType
  OBVIOUS
<1>3. PICK n \in Nat : n = Len(x.instrs) /\ x.instrs \in Seq(InstrType) /\ DOMAIN x.instrs = 1 .. n
  BY <1>2, BlockFields DEF FieldsTyped
<1>4. ASSUME NEW i \in 1 .. n
      PROVE  /\ Less(i) \in InstrType /\ SameInstr(x.instrs[i], Less(i))
             /\ Less(i).refs = x.instrs[i].refs - TimesPassed(blocks, to, from, i)
  <2>1. PICK instr \in InstrType : instr = x.instrs[i]
    BY <1>3
  <2>2. PICK m \in Nat : m = TimesPassed(blocks, to, from, i)
    BY PassedFinite
  <2>3. Less(i) = [instr EXCEPT !.refs = @ - m]
    BY <2>1, <2>2
  <2>. HIDE DEF Less
  <2>4. /\ [instr EXCEPT !.refs = @ - m] \in InstrType
        /\ [instr EXCEPT !.refs = @ - m].id = instr.id
        /\ [instr EXCEPT !.refs = @ - m].name = instr.name
        /\ [instr EXCEPT !.refs = @ - m].ops = instr.ops
        /\ [instr EXCEPT !.refs = @ - m].refs = instr.refs - m
    BY SMTT(20) DEF InstrType
  <2>5. QED
    BY <2>1, <2>2, <2>3, <2>4 DEF SameInstr
<1>. HIDE DEF Less
<1>5. is = [i \in 1 .. n |-> Less(i)]
  BY <1>3
<1>6. is \in Seq(InstrType) /\ Len(is) = n /\ \A i \in 1 .. n : is[i] = Less(i)
  BY <1>4, <1>5
<1>. HIDE DEF is
<1>7. Fields(y, is, x.num_params, x.term, x.has_vars, x.vars, x.prev, x.next)
  BY <1>2, <1>6, InstrsChanged
<1>8. SameBlock(x, y)
  BY <1>3, <1>4, <1>6, <1>7 DEF Fields, SameBlock, SameInstrs, SameRest
<1>9. y \in BlockType
  BY <1>7 DEF Fields
<1>. HIDE DEF y
<1>10. OneChanged(blocks, result, from, y)
  BY <1>9, ChangedBlock
<1>. HIDE DEF result
<1>11. \A b \in 1 .. Len(blocks) : SameBlock(blocks[b], blocks[b])
  BY DEF SameBlock, SameInstrs, SameInstr, SameRest
<1>12. Recounted(blocks, result)
  BY <1>8, <1>10, <1>11 DEF OneChanged, Recounted
<1>13. /\ \A b \in 1 .. Len(blocks) : b # from => result[b] = blocks[b]
       /\ result[from].instrs = is
  BY <1>7, <1>10 DEF OneChanged, Fields
<1>14. \A i \in 1 .. n :
         result[from].instrs[i].refs =
           blocks[from].instrs[i].refs - TimesPassed(blocks, to, from, i)
  BY <1>4, <1>6, <1>13
<1>15. QED
  BY <1>1, <1>3, <1>12, <1>13, <1>14 DEF Released

LEMMA RecountedTwice ==
  ASSUME NEW bs, NEW cs, NEW ds, Recounted(bs, cs), Recounted(cs, ds)
  PROVE  Recounted(bs, ds)
<1>1. ASSUME NEW x, NEW y, NEW z, SameBlock(x, y), SameBlock(y, z) PROVE SameBlock(x, z)
  BY <1>1 DEF SameBlock, SameInstrs, SameInstr, SameRest
<1>2. QED
  BY <1>1 DEF Recounted

LEMMA ReleaseAllFields ==
  ASSUME NEW g, NEW W, NEW b \in 1 .. Len(g.blocks), Sound(g, W, {})
  PROVE  Recounted(g.blocks, ReleaseAll(g.blocks, b))
<1>. DEFINE bs == g.blocks
            ts == bs[b].term.targets
<1>1. bs \in Seq(BlockType) /\ Len(bs) \in Nat /\ bs[b] \in BlockType
  BY FieldsOfIR DEF Sound, IRFields
<1>2. \A k \in 1 .. Len(ts) : ts[k] \in 1 .. Len(bs)
  BY DEF Sound, EdgesSound, EdgeSound
<1>3. Len(ts) \in {0, 1, 2}
  BY <1>1 DEF Sound, BlockSound, BlockType, TermType, TermShape
<1>4. ReleaseAll(bs, b) = CASE Len(ts) = 0 -> bs
                            [] Len(ts) = 1 -> Release(bs, ts[1], b)
                            [] Len(ts) = 2 -> Release(Release(bs, ts[1], b), ts[2], b)
  BY DEF ReleaseAll
<1>5. CASE Len(ts) = 0
  BY <1>1, <1>4, <1>5 DEF SameBlock, SameInstrs, SameInstr, SameRest, Recounted
<1>6. CASE Len(ts) = 1
  BY <1>1, <1>2, <1>4, <1>6, ReleaseFields DEF Released
<1>7. CASE Len(ts) = 2
  <2>1. /\ ReleaseAll(bs, b) = Release(Release(bs, ts[1], b), ts[2], b)
        /\ ts[1] \in 1 .. Len(bs) /\ ts[2] \in 1 .. Len(bs)
    BY <1>2, <1>4, <1>7
  <2>. HIDE DEF bs, ts
  <2>2. PICK cs : cs = Release(bs, ts[1], b)
    OBVIOUS
  <2>3. Recounted(bs, cs)
    BY <1>1, <2>1, <2>2, ReleaseFields DEF bs, Released
  <2>4. cs \in Seq(BlockType) /\ Len(cs) = Len(bs) /\ b \in 1 .. Len(bs)
    BY <2>3 DEF Recounted, bs
  <2>5. Recounted(cs, Release(cs, ts[2], b))
    BY <2>1, <2>4, ReleaseFields DEF Released
  <2>6. Recounted(bs, ReleaseAll(bs, b))
    BY <2>1, <2>2, <2>3, <2>5, RecountedTwice
  <2>7. QED
    BY <2>6 DEF bs
<1>8. QED
  BY <1>3, <1>5, <1>6, <1>7

LEMMA RecountedStands ==
  ASSUME NEW g, NEW h, NEW fs, NEW r, Resting(g, fs, r),
         Recounted(g.blocks, h.blocks), WithBlocks(g, h, h.blocks)
  PROVE  Resting(h, fs, r)
<1>1. Sound(g, WaitingIn(fs), {}) /\ AllUnique(g)
  BY DEF Resting, Laid
<1>2. /\ g.blocks \in Seq(BlockType) /\ h.blocks \in Seq(BlockType)
      /\ Len(h.blocks) = Len(g.blocks) /\ Len(g.blocks) \in Nat
  BY <1>1, FieldsOfIR DEF Sound, IRFields, Recounted
<1>3. ASSUME NEW b \in 1 .. Len(g.blocks)
      PROVE  /\ Grows(g.blocks[b], h.blocks[b]) /\ BlockSound(b, h.blocks[b])
             /\ Waiting(g.blocks[b]) => Waiting(h.blocks[b])
             /\ Unique(h.blocks[b])
             /\ h.blocks[b].has_vars = g.blocks[b].has_vars
  <2>1. SameBlock(g.blocks[b], h.blocks[b])
    BY DEF Recounted
  <2>2. g.blocks[b] \in BlockType /\ h.blocks[b] \in BlockType
    BY <1>2
  <2>3. BlockSound(b, g.blocks[b]) /\ Unique(g.blocks[b])
    BY <1>1 DEF Sound, AllUnique
  <2>4. QED
    BY <2>1, <2>2, <2>3, SameBecomes DEF SameBlock, SameRest
<1>4. Grown(g, h)
  BY <1>2, <1>3 DEF Grown, WithBlocks
<1>5. AllUnique(h)
  BY <1>2, <1>3 DEF AllUnique
<1>6. g.current \in 1 .. Len(g.blocks) /\ LoopsBack(g, fs) /\ Ranked(g, r) /\ Stacked(g, fs, r)
      /\ Open(g)
  BY <1>1 DEF Sound, Resting, Laid
<1>7. Sound(h, WaitingIn(fs), {}) /\ Ranked(h, r)
  BY <1>1, <1>3, <1>4, <1>6, GrownSound, GrownRanked
<1>8. Stacked(h, fs, r) /\ LoopsBack(h, fs) /\ Open(h)
  BY <1>4, <1>6, GrownStands
<1>9. QED
  BY <1>5, <1>7, <1>8 DEF Resting, Laid

\* Only counts are changed, and none becomes higher.
Lessened(blocks, result) ==
  /\ Recounted(blocks, result)
  /\ \A b \in 1 .. Len(blocks) : \A i \in 1 .. Len(blocks[b].instrs) :
       result[b].instrs[i].refs <= blocks[b].instrs[i].refs

\* The arguments of v which are still counted when those for the parameters
\* of the blocks R that nobody uses are not.
LeftFor(blocks, R, b, v) ==
  {u \in ArgumentsIn(blocks, TargetsOf(blocks[b].term), blocks[b].vars, v) :
     u[1] \in R => blocks[u[1]].instrs[u[2]].refs > 0}
ServedBlock(blocks, R, b) ==
  \A i \in 1 .. Len(blocks[b].instrs) :
    blocks[b].instrs[i].refs >=
      OwnUses(blocks[b], <<b, i>>) + Cardinality(LeftFor(blocks, R, b, <<b, i>>))

\* The targets of b whose unused parameters were taken back when block n is next.
Gone(blocks, r, n, b) ==
  IF n = 0 \/ r[b] > r[n] THEN TargetsOf(blocks[b].term) ELSE {}

IsLeft(blocks, R, b, v, t, j) ==
  /\ t \in TargetsOf(blocks[b].term) /\ j \in Enabled(blocks[t])
  /\ blocks[t].instrs[j].name \in NamesIn(blocks[b].vars)
  /\ ValueIn(blocks[b].vars, blocks[t].instrs[j].name) = v
  /\ t \in R => blocks[t].instrs[j].refs > 0

LEMMA LeftAre ==
  ASSUME NEW blocks, NEW R, NEW b, NEW v
  PROVE  /\ \A u \in LeftFor(blocks, R, b, v) :
              \E t, j : u = <<t, j>> /\ IsLeft(blocks, R, b, v, t, j)
         /\ \A t, j : IsLeft(blocks, R, b, v, t, j) => <<t, j>> \in LeftFor(blocks, R, b, v)
<1>1. ASSUME NEW u \in LeftFor(blocks, R, b, v)
      PROVE  \E t, j : u = <<t, j>> /\ IsLeft(blocks, R, b, v, t, j)
  BY DEF LeftFor, ArgumentsIn, IsLeft
<1>2. ASSUME NEW t, NEW j, IsLeft(blocks, R, b, v, t, j)
      PROVE  <<t, j>> \in LeftFor(blocks, R, b, v)
  <2>. DEFINE u == <<t, j>>
  <2>1. u[1] = t /\ u[2] = j
    OBVIOUS
  <2>2. u \in UNION {{s} \X Enabled(blocks[s]) : s \in TargetsOf(blocks[b].term)}
    BY <1>2 DEF IsLeft
  <2>. HIDE DEF u
  <2>3. u \in ArgumentsIn(blocks, TargetsOf(blocks[b].term), blocks[b].vars, v)
    BY <1>2, <2>1, <2>2 DEF IsLeft, ArgumentsIn
  <2>4. QED
    BY <1>2, <2>1, <2>3 DEF IsLeft, LeftFor, u
<1>3. QED
  BY <1>1, <1>2

LEMMA LeftFinite ==
  ASSUME NEW blocks \in Seq(BlockType), NEW b, TargetsOf(blocks[b].term) \subseteq 1 .. Len(blocks),
         NEW R, NEW v
  PROVE  /\ IsFiniteSet(LeftFor(blocks, R, b, v))
         /\ Cardinality(LeftFor(blocks, R, b, v)) \in Nat
<1>. DEFINE A == ArgumentsIn(blocks, TargetsOf(blocks[b].term), blocks[b].vars, v)
<1>1. IsFiniteSet(A)
  BY ArgumentsAre
<1>2. LeftFor(blocks, R, b, v) \in SUBSET A
  BY DEF LeftFor
<1>. HIDE DEF A
<1>3. IsFiniteSet(LeftFor(blocks, R, b, v))
  BY <1>1, <1>2, FS_Subset
<1>4. QED
  BY <1>3, FS_CardinalityType

LEMMA RecountedBlock ==
  ASSUME NEW blocks \in Seq(BlockType), NEW result, Recounted(blocks, result),
         NEW b \in 1 .. Len(blocks)
  PROVE  /\ result[b] \in BlockType /\ SameBlock(blocks[b], result[b])
         /\ Enabled(result[b]) = Enabled(blocks[b])
         /\ \A i \in Enabled(blocks[b]) : result[b].instrs[i].name = blocks[b].instrs[i].name
         /\ \A v : OwnUses(result[b], v) = OwnUses(blocks[b], v)
<1>1. PICK x \in BlockType, y \in BlockType : x = blocks[b] /\ y = result[b]
  BY DEF Recounted
<1>2. SameBlock(x, y)
  BY <1>1 DEF Recounted
<1>3. Len(y.instrs) = Len(x.instrs) /\ \A i \in 1 .. Len(x.instrs) : SameInstr(x.instrs[i], y.instrs[i])
  BY <1>2 DEF SameBlock, SameInstrs
<1>4. Params(y) = Params(x)
  BY <1>3, SameParameters DEF SameInstr
<1>5. Params(x) \subseteq 1 .. Len(x.instrs) /\ Enabled(x) \subseteq 1 .. Len(x.instrs)
  BY EnabledFinite
<1>6. \A i \in 1 .. Len(x.instrs) : y.instrs[i].name = x.instrs[i].name
  BY <1>3 DEF SameInstr
<1>7. Enabled(y) = Enabled(x)
  BY <1>4, <1>5, <1>6 DEF Enabled
<1>8. ASSUME NEW v PROVE OwnUses(y, v) = OwnUses(x, v)
  <2>1. ASSUME NEW i, NEW j PROVE IsOperand(x, v, i, j) <=> IsOperand(y, v, i, j)
    BY <1>3 DEF IsOperand, SameInstr
  <2>2. OperandsIn(y, v) = OperandsIn(x, v)
    <3>1. ASSUME NEW u \in OperandsIn(x, v) PROVE u \in OperandsIn(y, v)
      BY <2>1, OperandsAre
    <3>2. ASSUME NEW u \in OperandsIn(y, v) PROVE u \in OperandsIn(x, v)
      BY <2>1, OperandsAre
    <3>3. QED
      BY <3>1, <3>2
  <2>3. y.term = x.term
    BY <1>2 DEF SameBlock, SameRest
  <2>4. QED
    BY <2>2, <2>3 DEF OwnUses
<1>9. QED
  BY <1>1, <1>2, <1>5, <1>6, <1>7, <1>8

\* No argument comes back.
LEMMA LeftShrinks ==
  ASSUME NEW blocks \in Seq(BlockType), NEW result, Lessened(blocks, result),
         NEW b \in 1 .. Len(blocks), TargetsOf(blocks[b].term) \subseteq 1 .. Len(blocks),
         NEW R, NEW S, R \subseteq S, NEW v,
         NEW t, NEW j, IsLeft(result, S, b, v, t, j)
  PROVE  IsLeft(blocks, R, b, v, t, j)
<1>1. Recounted(blocks, result)
  BY DEF Lessened
<1>2. result[b].term = blocks[b].term /\ result[b].vars = blocks[b].vars
  BY <1>1, RecountedBlock DEF SameBlock, SameRest
<1>3. t \in TargetsOf(blocks[b].term) /\ t \in 1 .. Len(blocks)
  BY <1>2 DEF IsLeft
<1>4. /\ Enabled(result[t]) = Enabled(blocks[t])
      /\ \A i \in Enabled(blocks[t]) : result[t].instrs[i].name = blocks[t].instrs[i].name
  BY <1>1, <1>3, RecountedBlock
<1>5. j \in Enabled(blocks[t]) /\ result[t].instrs[j].name = blocks[t].instrs[j].name
  BY <1>4 DEF IsLeft
<1>6. t \in R => blocks[t].instrs[j].refs > 0
  <2>1. SUFFICES ASSUME t \in R PROVE blocks[t].instrs[j].refs > 0
    OBVIOUS
  <2>2. result[t].instrs[j].refs > 0
    BY <2>1 DEF IsLeft
  <2>3. blocks[t] \in BlockType /\ result[t] \in BlockType
    BY <1>1, <1>3, RecountedBlock
  <2>4. j \in 1 .. Len(blocks[t].instrs)
    BY <1>5, <2>3, EnabledFinite
  <2>5. result[t].instrs[j].refs <= blocks[t].instrs[j].refs
    BY <1>3, <2>4 DEF Lessened
  <2>6. blocks[t].instrs[j].refs \in Int /\ result[t].instrs[j].refs \in Int
    <3>1. Len(result[t].instrs) = Len(blocks[t].instrs)
      BY <1>1, <1>3, RecountedBlock DEF SameBlock, SameInstrs
    <3>2. blocks[t].instrs \in Seq(InstrType) /\ result[t].instrs \in Seq(InstrType)
      BY <2>3, BlockFields DEF FieldsTyped
    <3>3. blocks[t].instrs[j] \in InstrType /\ result[t].instrs[j] \in InstrType
      BY <2>4, <3>1, <3>2
    <3>4. QED
      BY <3>3 DEF InstrType
  <2>7. QED
    BY <2>2, <2>5, <2>6
<1>7. QED
  BY <1>2, <1>3, <1>5, <1>6 DEF IsLeft

\* A block whose counts stay has no more uses than before.
LEMMA ServedStays ==
  ASSUME NEW blocks \in Seq(BlockType), NEW result, Lessened(blocks, result),
         NEW b \in 1 .. Len(blocks), TargetsOf(blocks[b].term) \subseteq 1 .. Len(blocks),
         result[b] = blocks[b], NEW R, ServedBlock(blocks, R, b)
  PROVE  ServedBlock(result, R, b)
<1>1. ASSUME NEW i \in 1 .. Len(blocks[b].instrs)
      PROVE  blocks[b].instrs[i].refs >=
               OwnUses(blocks[b], <<b, i>>) + Cardinality(LeftFor(result, R, b, <<b, i>>))
  <2>. DEFINE v == <<b, i>>
              A == LeftFor(blocks, R, b, v)
              B == LeftFor(result, R, b, v)
  <2>1. B \in SUBSET A
    <3>1. ASSUME NEW u \in B PROVE u \in A
      BY LeftAre, LeftShrinks
    <3>2. QED
      BY <3>1
  <2>2. IsFiniteSet(A) /\ Cardinality(A) \in Nat
    BY LeftFinite
  <2>. HIDE DEF A, B
  <2>3. Cardinality(B) <= Cardinality(A) /\ Cardinality(B) \in Nat
    BY <2>1, <2>2, FS_Subset, FS_CardinalityType
  <2>4. PICK m \in Int, p \in Nat, q \in Nat, o \in Nat :
          /\ m = blocks[b].instrs[i].refs /\ p = Cardinality(A) /\ q = Cardinality(B)
          /\ o = OwnUses(blocks[b], v)
    <3>1. blocks[b] \in BlockType
      OBVIOUS
    <3>2. blocks[b].instrs \in Seq(InstrType)
      BY <3>1, BlockFields DEF FieldsTyped
    <3>3. blocks[b].instrs[i] \in InstrType
      BY <3>2
    <3>4. blocks[b].instrs[i].refs \in Int
      BY <3>3 DEF InstrType
    <3>5. OwnUses(blocks[b], v) \in Nat
      BY <3>1, OwnUsesCount
    <3>6. QED
      BY <2>2, <2>3, <3>4, <3>5
  <2>5. m >= o + p
    BY <2>4 DEF ServedBlock, A
  <2>6. q <= p
    BY <2>3, <2>4
  <2>7. m >= o + q
    BY <2>5, <2>6
  <2>8. QED
    BY <2>4, <2>7 DEF B
<1>2. QED
  BY <1>1 DEF ServedBlock

LEMMA ReleaseLessens ==
  ASSUME NEW blocks \in Seq(BlockType), NEW result, NEW to \in 1 .. Len(blocks),
         NEW from \in 1 .. Len(blocks), Released(blocks, result, to, from)
  PROVE  Lessened(blocks, result)
<1>1. ASSUME NEW b \in 1 .. Len(blocks), NEW i \in 1 .. Len(blocks[b].instrs)
      PROVE  result[b].instrs[i].refs <= blocks[b].instrs[i].refs
  <2>1. blocks[b] \in BlockType
    OBVIOUS
  <2>2. blocks[b].instrs \in Seq(InstrType)
    BY <2>1, BlockFields DEF FieldsTyped
  <2>3. blocks[b].instrs[i] \in InstrType
    BY <2>2
  <2>4. PICK m \in Int : m = blocks[b].instrs[i].refs
    BY <2>3 DEF InstrType
  <2>5. CASE b = from
    <3>1. PICK n \in Nat : n = TimesPassed(blocks, to, from, i)
      BY PassedFinite
    <3>2. result[b].instrs[i].refs = m - n
      BY <2>4, <2>5, <3>1 DEF Released
    <3>3. m - n <= m
      OBVIOUS
    <3>4. QED
      BY <2>4, <3>2, <3>3
  <2>6. CASE b # from
    <3>1. result[b].instrs[i].refs = m
      BY <2>4, <2>6 DEF Released
    <3>2. QED
      BY <2>4, <3>1
  <2>7. QED
    BY <2>5, <2>6
<1>2. QED
  BY <1>1 DEF Lessened, Released

\* A block from which the arguments for to are taken back still counts the others:
\* as many counts are taken as there are arguments for parameters nobody uses.
LEMMA ReleaseServes ==
  ASSUME NEW blocks \in Seq(BlockType), NEW result, NEW to \in 1 .. Len(blocks),
         NEW from \in 1 .. Len(blocks), Released(blocks, result, to, from),
         EdgeSound(blocks, from, to), to \in TargetsOf(blocks[from].term),
         TargetsOf(blocks[from].term) \subseteq 1 .. Len(blocks),
         NEW R, to \notin R, ServedBlock(blocks, R, from)
  PROVE  ServedBlock(result, R \cup {to}, from)
<1>1. Lessened(blocks, result) /\ Recounted(blocks, result)
  BY ReleaseLessens DEF Released
<1>2. result[to] = blocks[to]
  BY DEF Released, EdgeSound
<1>3. /\ Len(result[from].instrs) = Len(blocks[from].instrs)
      /\ \A v : OwnUses(result[from], v) = OwnUses(blocks[from], v)
  <2>1. /\ SameBlock(blocks[from], result[from])
        /\ \A v : OwnUses(result[from], v) = OwnUses(blocks[from], v)
    BY <1>1, RecountedBlock
  <2>2. QED
    BY <2>1 DEF SameBlock, SameInstrs
<1>4. ASSUME NEW i \in 1 .. Len(blocks[from].instrs)
      PROVE  result[from].instrs[i].refs >=
               OwnUses(blocks[from], <<from, i>>)
                 + Cardinality(LeftFor(result, R \cup {to}, from, <<from, i>>))
  <2>. DEFINE v == <<from, i>>
              A == LeftFor(blocks, R, from, v)
              B == LeftFor(result, R \cup {to}, from, v)
              S == {a \in Passed(blocks, to, from) : a[2] = v}
              P == {u \in A : u[1] = to /\ u[2] \in Unused(blocks[to])}
              f == [a \in S |-> <<to, a[1]>>]
  <2>1. IsFiniteSet(A) /\ Cardinality(A) \in Nat
    BY LeftFinite
  <2>2. B \subseteq A
    <3>1. ASSUME NEW u \in B PROVE u \in A
      BY <1>1, LeftAre, LeftShrinks
    <3>2. QED
      BY <3>1
  <2>3. B \cap P = {}
    <3>1. SUFFICES ASSUME NEW u \in B, u \in P PROVE FALSE
      OBVIOUS
    <3>2. PICK t, j : u = <<t, j>> /\ IsLeft(result, R \cup {to}, from, v, t, j)
      BY <3>1, LeftAre
    <3>3. t = to /\ j \in Unused(blocks[to])
      BY <3>1, <3>2
    <3>4. result[to].instrs[j].refs > 0
      BY <3>2, <3>3 DEF IsLeft
    <3>5. blocks[to].instrs[j].refs = 0
      BY <3>3 DEF Unused
    <3>6. QED
      BY <1>2, <3>4, <3>5
  <2>4. ASSUME NEW a \in S
        PROVE  \E j \in Unused(blocks[to]) : a = <<j, v>> /\ <<to, j>> \in P
    <3>1. PICK j \in Unused(blocks[to]) :
            a = <<j, ValueIn(blocks[from].vars, blocks[to].instrs[j].name)>>
      BY DEF Passed
    <3>2. ValueIn(blocks[from].vars, blocks[to].instrs[j].name) = v
      BY <3>1
    <3>3. j \in Enabled(blocks[to])
      BY DEF Unused
    <3>4. IsLeft(blocks, R, from, v, to, j)
      BY <3>2, <3>3 DEF IsLeft, EdgeSound
    <3>5. <<to, j>> \in A
      BY <3>4, LeftAre
    <3>6. QED
      BY <3>1, <3>2, <3>5
  <2>5. f \in Injection(S, P)
    <3>1. ASSUME NEW a \in S PROVE <<to, a[1]>> \in P
      <4>1. PICK j \in Unused(blocks[to]) : a = <<j, v>> /\ <<to, j>> \in P
        BY <2>4
      <4>2. a[1] = j
        BY <4>1
      <4>. HIDE DEF P
      <4>3. QED
        BY <4>1, <4>2
    <3>2. ASSUME NEW a \in S, NEW c \in S, <<to, a[1]>> = <<to, c[1]>> PROVE a = c
      <4>1. PICK j : a = <<j, v>>
        BY <2>4
      <4>2. PICK k : c = <<k, v>>
        BY <2>4
      <4>3. a[1] = j /\ c[1] = k
        BY <4>1, <4>2
      <4>4. a[1] = c[1]
        BY <3>2
      <4>5. QED
        BY <4>1, <4>2, <4>3, <4>4
    <3>. HIDE DEF S, P
    <3>3. f \in [S -> P]
      BY <3>1
    <3>4. \A a, c \in S : f[a] = f[c] => a = c
      BY <3>2
    <3>5. DOMAIN f = S
      OBVIOUS
    <3>. HIDE DEF f
    <3>6. QED
      BY <3>3, <3>4, <3>5 DEF Injection, IsInjective
  <2>6. P \subseteq A
    OBVIOUS
  <2>. HIDE DEF A, B, P, S, f
  <2>7. IsFiniteSet(P) /\ IsFiniteSet(B) /\ Cardinality(P) \in Nat /\ Cardinality(B) \in Nat
    BY <2>1, <2>2, <2>6, FS_Subset, FS_CardinalityType
  <2>8. IsFiniteSet(S) /\ Cardinality(S) <= Cardinality(P)
    BY <2>5, <2>7, FS_Injection
  <2>9. IsFiniteSet(B \cup P) /\ Cardinality(B \cup P) = Cardinality(B) + Cardinality(P)
    <3>1. /\ IsFiniteSet(B \cup P)
          /\ Cardinality(B \cup P) = Cardinality(B) + Cardinality(P) - Cardinality(B \cap P)
      BY <2>7, FS_Union
    <3>2. Cardinality(B \cap P) = 0
      BY <2>3, FS_EmptySet
    <3>3. QED
      BY <2>7, <3>1, <3>2
  <2>10. Cardinality(B) + Cardinality(P) <= Cardinality(A)
    BY <2>1, <2>2, <2>6, <2>9, FS_Subset
  <2>11. TimesPassed(blocks, to, from, i) = Cardinality(S) /\ Cardinality(S) \in Nat
    BY <2>8, FS_CardinalityType DEF TimesPassed, S
  <2>12. PICK m \in Int, o \in Nat : m = blocks[from].instrs[i].refs /\ o = OwnUses(blocks[from], v)
    <3>1. blocks[from] \in BlockType
      OBVIOUS
    <3>2. blocks[from].instrs \in Seq(InstrType)
      BY <3>1, BlockFields DEF FieldsTyped
    <3>3. blocks[from].instrs[i] \in InstrType
      BY <3>2
    <3>4. blocks[from].instrs[i].refs \in Int
      BY <3>3 DEF InstrType
    <3>5. OwnUses(blocks[from], v) \in Nat
      BY <3>1, OwnUsesCount
    <3>6. QED
      BY <3>4, <3>5
  <2>13. m >= o + Cardinality(A)
    BY <2>12 DEF ServedBlock, A
  <2>14. result[from].instrs[i].refs = m - Cardinality(S)
    BY <2>11, <2>12 DEF Released
  <2>15. m - Cardinality(S) >= o + Cardinality(B)
    BY <2>1, <2>7, <2>8, <2>10, <2>11, <2>13
  <2>16. QED
    BY <2>12, <2>14, <2>15 DEF B
<1>5. QED
  BY <1>3, <1>4 DEF ServedBlock

\* All branches of a block.
LEMMA ReleaseAllServes ==
  ASSUME NEW g, NEW W, NEW b \in 1 .. Len(g.blocks), Sound(g, W, {})
  PROVE  /\ ServedBlock(g.blocks, {}, b) =>
              ServedBlock(ReleaseAll(g.blocks, b), TargetsOf(g.blocks[b].term), b)
         /\ \A S : \A c \in 1 .. Len(g.blocks) :
              c # b /\ ServedBlock(g.blocks, S, c) => ServedBlock(ReleaseAll(g.blocks, b), S, c)
<1>1. PICK bs \in Seq(BlockType) : bs = g.blocks /\ Len(bs) \in Nat
  BY FieldsOfIR DEF Sound, IRFields
<1>2. bs[b] \in BlockType
  BY <1>1
<1>3. PICK ts \in Seq(Nat) : ts = bs[b].term.targets
  BY <1>2, BlockFields DEF FieldsTyped
<1>4. \A k \in 1 .. Len(ts) : EdgeSound(bs, b, ts[k])
  BY <1>1, <1>3 DEF Sound, EdgesSound
<1>5. /\ TermShape(bs[b]) /\ bs[b].term.id \in {"NONE", "RETURN", "BRANCH", "CBRANCH"}
      /\ TargetsOf(bs[b].term) = {ts[k] : k \in 1 .. Len(ts)}
  <2>1. TermShape(bs[b])
    BY <1>1 DEF Sound, BlockSound
  <2>2. bs[b].term.id \in {"NONE", "RETURN", "BRANCH", "CBRANCH"}
    BY <1>2 DEF BlockType, TermType
  <2>3. QED
    BY <1>3, <2>1, <2>2 DEF TargetsOf
<1>6. Len(ts) \in {0, 1, 2} /\ (Len(ts) = 2 => ts[1] # ts[2])
  BY <1>3, <1>5 DEF TermShape
<1>7. ASSUME NEW c \in 1 .. Len(bs) PROVE TargetsOf(bs[c].term) \subseteq 1 .. Len(bs)
  BY <1>1 DEF TargetsOf, Sound, EdgesSound, EdgeSound
<1>8. ReleaseAll(bs, b) = CASE Len(ts) = 0 -> bs
                            [] Len(ts) = 1 -> Release(bs, ts[1], b)
                            [] Len(ts) = 2 -> Release(Release(bs, ts[1], b), ts[2], b)
  BY <1>3 DEF ReleaseAll
<1>9. CASE Len(ts) = 0
  <2>1. ReleaseAll(bs, b) = bs
    BY <1>8, <1>9
  <2>2. TargetsOf(bs[b].term) = {}
    BY <1>5, <1>9
  <2>3. QED
    BY <1>1, <2>1, <2>2
<1>10. CASE Len(ts) = 1
  <2>1. PICK cs : cs = Release(bs, ts[1], b)
    OBVIOUS
  <2>2. ReleaseAll(bs, b) = cs
    BY <1>8, <1>10, <2>1
  <2>3. EdgeSound(bs, b, ts[1]) /\ ts[1] \in 1 .. Len(bs) /\ TargetsOf(bs[b].term) = {ts[1]}
    BY <1>4, <1>5, <1>10 DEF EdgeSound
  <2>4. Released(bs, cs, ts[1], b) /\ Lessened(bs, cs)
    BY <1>1, <2>1, <2>3, ReleaseFields, ReleaseLessens
  <2>5. ServedBlock(bs, {}, b) => ServedBlock(cs, {} \cup {ts[1]}, b)
    BY <1>1, <1>7, <2>3, <2>4, ReleaseServes
  <2>6. ASSUME NEW c \in 1 .. Len(bs), NEW S, c # b, ServedBlock(bs, S, c)
        PROVE  ServedBlock(cs, S, c)
    <3>1. cs[c] = bs[c]
      BY <2>4, <2>6 DEF Released
    <3>2. QED
      BY <1>7, <2>4, <2>6, <3>1, ServedStays
  <2>7. {} \cup {ts[1]} = {ts[1]}
    OBVIOUS
  <2>8. QED
    BY <1>1, <2>2, <2>3, <2>5, <2>6, <2>7
<1>11. CASE Len(ts) = 2
  <2>1. PICK cs, ds : cs = Release(bs, ts[1], b) /\ ds = Release(cs, ts[2], b)
    OBVIOUS
  <2>2. ReleaseAll(bs, b) = ds
    BY <1>8, <1>11, <2>1
  <2>3. /\ EdgeSound(bs, b, ts[1]) /\ ts[1] \in 1 .. Len(bs)
        /\ EdgeSound(bs, b, ts[2]) /\ ts[2] \in 1 .. Len(bs)
        /\ TargetsOf(bs[b].term) = {ts[1], ts[2]} /\ ts[1] # ts[2]
    <3>1. 1 \in 1 .. Len(ts) /\ 2 \in 1 .. Len(ts) /\ 1 .. Len(ts) = {1, 2}
      BY <1>11
    <3>2. TargetsOf(bs[b].term) = {ts[1], ts[2]}
      BY <1>5, <3>1
    <3>3. ts[1] # ts[2]
      BY <1>6, <1>11
    <3>4. QED
      BY <1>4, <3>1, <3>2, <3>3 DEF EdgeSound
  <2>4. Released(bs, cs, ts[1], b) /\ Lessened(bs, cs) /\ Recounted(bs, cs)
    <3>1. Released(bs, cs, ts[1], b)
      BY <1>1, <2>1, <2>3, ReleaseFields
    <3>2. Lessened(bs, cs)
      BY <1>1, <2>3, <3>1, ReleaseLessens
    <3>3. QED
      BY <3>1, <3>2 DEF Lessened
  <2>5. cs \in Seq(BlockType) /\ Len(cs) = Len(bs)
    BY <2>4 DEF Recounted
  <2>6. b \in 1 .. Len(cs) /\ ts[2] \in 1 .. Len(cs)
    BY <1>1, <2>3, <2>5
  <2>7. Released(cs, ds, ts[2], b) /\ Lessened(cs, ds)
    BY <2>1, <2>5, <2>6, ReleaseFields, ReleaseLessens
  <2>8. \A c \in 1 .. Len(bs) : cs[c].term = bs[c].term /\ cs[c].vars = bs[c].vars
    BY <2>4, RecountedBlock DEF SameBlock, SameRest
  <2>9. \A c \in 1 .. Len(cs) : TargetsOf(cs[c].term) \subseteq 1 .. Len(cs)
    BY <1>7, <2>5, <2>8
  <2>10. EdgeSound(cs, b, ts[2])
    <3>1. /\ Enabled(cs[ts[2]]) = Enabled(bs[ts[2]]) /\ cs[ts[2]].has_vars = bs[ts[2]].has_vars
          /\ \A i \in Enabled(bs[ts[2]]) : cs[ts[2]].instrs[i].name = bs[ts[2]].instrs[i].name
      <4>1. /\ SameBlock(bs[ts[2]], cs[ts[2]]) /\ Enabled(cs[ts[2]]) = Enabled(bs[ts[2]])
            /\ \A i \in Enabled(bs[ts[2]]) : cs[ts[2]].instrs[i].name = bs[ts[2]].instrs[i].name
        BY <2>3, <2>4, RecountedBlock
      <4>2. QED
        BY <4>1 DEF SameBlock, SameRest
    <3>2. cs[b].vars = bs[b].vars
      BY <1>1, <2>8
    <3>3. QED
      BY <2>3, <2>5, <3>1, <3>2 DEF EdgeSound
  <2>11. ASSUME ServedBlock(bs, {}, b) PROVE ServedBlock(ds, {ts[1], ts[2]}, b)
    <3>1. ServedBlock(cs, {} \cup {ts[1]}, b)
      BY <1>1, <1>7, <2>3, <2>4, <2>11, ReleaseServes
    <3>2. PICK R : R = {ts[1]} /\ ServedBlock(cs, R, b)
      BY <3>1
    <3>3. ts[2] \notin R /\ ts[2] \in TargetsOf(cs[b].term)
      BY <1>1, <2>3, <2>8, <3>2
    <3>4. ServedBlock(ds, R \cup {ts[2]}, b)
      BY <2>5, <2>6, <2>7, <2>9, <2>10, <3>2, <3>3, ReleaseServes
    <3>5. R \cup {ts[2]} = {ts[1], ts[2]}
      BY <3>2
    <3>6. QED
      BY <3>4, <3>5
  <2>12. ASSUME NEW c \in 1 .. Len(bs), NEW S, c # b, ServedBlock(bs, S, c)
         PROVE  ServedBlock(ds, S, c)
    BY <1>7, <2>4, <2>5, <2>7, <2>9, <2>12, ServedStays DEF Released
  <2>13. QED
    BY <1>1, <2>2, <2>3, <2>11, <2>12
<1>12. QED
  BY <1>6, <1>9, <1>10, <1>11

\* The passes follow the parser, each from one end of the list to the other.
PassInv ==
  /\ pass \in {"parse", "types", "params", "done"}
  /\ pass # "parse" => status \in {"done", "crash"}
  /\ pass = "types" /\ at = 0 => status = "done"
  /\ pass = "params" => status = "done" /\ at \in 0 .. Len(ir.blocks)
  /\ pass = "types" => at \in 0 .. Len(ir.blocks)

\* refs counts every use until the parameters are optimized; from then on the
\* arguments are left out which the pass has taken back.
CountInv ==
  /\ pass \in {"parse", "types"} => Covered(ir, {})
  /\ pass \in {"params", "done"} =>
       \E r : /\ Resting(ir, frames, r)
              /\ \A b \in 1 .. Len(ir.blocks) :
                   ServedBlock(ir.blocks, Gone(ir.blocks, r, at, b), b)

OptInv == ParserInv /\ PassInv /\ CountInv

\* Before anything is taken back.
LEMMA CoveredServes ==
  ASSUME NEW g, Covered(g, {}), NEW b \in 1 .. Len(g.blocks)
  PROVE  ServedBlock(g.blocks, {}, b)
<1>1. Settled(g, {}, b) = TargetsOf(g.blocks[b].term)
  BY DEF Settled
<1>2. CoveredBlock(g.blocks, TargetsOf(g.blocks[b].term), b)
  BY <1>1 DEF Covered
<1>3. ASSUME NEW v
      PROVE  LeftFor(g.blocks, {}, b, v)
               = ArgumentsIn(g.blocks, TargetsOf(g.blocks[b].term), g.blocks[b].vars, v)
  BY DEF LeftFor
<1>4. QED
  BY <1>2, <1>3 DEF CoveredBlock, UsesOf, ServedBlock

LEMMA OptInitSound ==
  OptInit => OptInv
<1>1. SUFFICES ASSUME OptInit PROVE OptInv
  OBVIOUS
<1>2. Init /\ pass = "parse"
  BY <1>1 DEF OptInit, TypeInit
<1>3. PassInv
  BY <1>2 DEF PassInv
<1>4. ParserInv /\ status = "parsing"
  BY <1>2, InitSound DEF Init
<1>5. CountInv
  BY <1>2, <1>4 DEF ParserInv, CountInv, Standing, Placed
<1>6. QED
  BY <1>3, <1>4, <1>5 DEF OptInv

LEMMA NothingSound ==
  ASSUME ParserInv, UNCHANGED vars
  PROVE  ParserInv'
<1>1. /\ ir' = ir /\ frames' = frames /\ mode' = mode /\ want' = want /\ vals' = vals
      /\ text' = text /\ status' = status
  BY DEF vars
<1>2. Shape'
  BY <1>1 DEF ParserInv, Shape
<1>3. QED
  BY <1>1, <1>2 DEF ParserInv

\* Every step of the parser is one of a parser that has not finished.
LEMMA OnlyWhileParsing ==
  ASSUME Next
  PROVE  status = "parsing"
BY DEF Next, Parsing, Parameter, Variable, EndLet, OpenBody, Leaf, Combine, Parenthesised,
       Attribute, BeginCall, Argument, EndCall, AssignVariable, AssignAttribute, AssignNothing,
       BeginExpression, EndExpression, EndReturn, BeginThen, BeginElse, EndIf, BeginWhile,
       BeginDo, EndWhile, OpenBlock, CloseBlock, CloseFunction, Expression, Statement, Complete

LEMMA OnlyCloseFinishes ==
  ASSUME Next, status' = "done"
  PROVE  CloseFunction
<1>1. status = "parsing"
  BY OnlyWhileParsing
<1>2. ASSUME NEW x, Parameter(x) \/ Variable(x) \/ EndLet(x) PROVE FALSE
  BY <1>1, <1>2 DEF Parameter, Variable, EndLet, Expression
<1>3. ASSUME NEW id, Leaf(id) \/ Combine(id) \/ BeginExpression(id) PROVE FALSE
  BY <1>1, <1>3 DEF Leaf, Combine, BeginExpression, Expression
<1>4. OpenBody \/ Parenthesised \/ Attribute \/ BeginCall \/ Argument \/ EndCall => FALSE
  BY <1>1 DEF OpenBody, Parenthesised, Attribute, BeginCall, Argument, EndCall, Expression
<1>5. AssignVariable \/ AssignAttribute \/ AssignNothing => FALSE
  BY <1>1 DEF AssignVariable, AssignAttribute, AssignNothing, Expression
<1>6. EndExpression \/ EndReturn \/ BeginThen \/ BeginElse \/ EndIf => FALSE
  BY <1>1 DEF EndExpression, EndReturn, BeginThen, BeginElse, EndIf, Enter
<1>7. BeginWhile \/ BeginDo \/ EndWhile \/ OpenBlock \/ CloseBlock => FALSE
  BY <1>1 DEF BeginWhile, BeginDo, EndWhile, OpenBlock, CloseBlock, Enter
<1>8. QED
  BY <1>2, <1>3, <1>4, <1>5, <1>6, <1>7 DEF Next

LEMMA ParseSound ==
  ASSUME OptInv, Parse
  PROVE  OptInv'
<1>1. Next /\ pass' = pass /\ at' = at
  BY DEF Parse
<1>2. pass = "parse"
  BY <1>1, OnlyWhileParsing DEF OptInv, PassInv
<1>3. PassInv'
  BY <1>1, <1>2 DEF PassInv
<1>4. ParserInv'
  BY <1>1, NextSound DEF OptInv
<1>5. Covered(ir', {})
  <2>1. status' \in {"parsing", "done", "exit", "crash"}
    BY <1>4 DEF ParserInv, Shape
  <2>2. CASE status' = "parsing"
    BY <1>4, <2>2 DEF ParserInv, Standing, Placed
  <2>3. CASE status' = "done"
    BY <1>1, <1>2, <2>3, OnlyCloseFinishes, CloseFunctionSound DEF OptInv, CountInv
  <2>4. CASE status' \in {"exit", "crash"}
    BY <1>4, <2>4 DEF ParserInv
  <2>5. QED
    BY <2>1, <2>2, <2>3, <2>4
<1>6. CountInv'
  BY <1>1, <1>2, <1>5 DEF CountInv
<1>7. QED
  BY <1>3, <1>4, <1>6 DEF OptInv

LEMMA OptimizeFunctionSound ==
  ASSUME OptInv, OptimizeFunction
  PROVE  OptInv'
<1>1. status = "done" /\ pass = "parse" /\ pass' = "types" /\ at' = 1 /\ UNCHANGED vars
  BY DEF OptimizeFunction
<1>2. ParserInv'
  BY <1>1, NothingSound DEF OptInv
<1>3. PICK r : Resting(ir, frames, r)
  BY <1>1 DEF OptInv, ParserInv
<1>4. 1 \in 0 .. Len(ir.blocks)
  BY <1>3, FieldsOfIR DEF Resting, Laid, Sound, IRFields
<1>5. PassInv'
  BY <1>1, <1>4 DEF PassInv, vars
<1>6. CountInv'
  BY <1>1 DEF OptInv, CountInv, vars
<1>7. QED
  BY <1>2, <1>5, <1>6 DEF OptInv

LEMMA AssignTypesSound ==
  ASSUME OptInv, AssignTypes
  PROVE  OptInv'
<1>1. /\ pass = "types" /\ status = "done" /\ at # 0
      /\ ir' = ir /\ frames' = frames /\ mode' = mode /\ want' = want /\ vals' = vals
      /\ text' = text /\ pass' = pass
      /\ \/ status' = "crash" /\ at' = at
         \/ status' = "done" /\ at' = ir.blocks[at].next
  BY DEF AssignTypes
<1>2. PICK r : Resting(ir, frames, r)
  BY <1>1 DEF OptInv, ParserInv
<1>3. /\ Sound(ir, WaitingIn(frames), {}) /\ AllUnique(ir) /\ Ranked(ir, r)
  BY <1>2 DEF Resting, Laid
<1>4. Len(ir.blocks) \in Nat /\ at \in 1 .. Len(ir.blocks)
  BY <1>1, <1>3, FieldsOfIR DEF OptInv, PassInv, Sound, IRFields
<1>5. ir.blocks[at].next \in 0 .. Len(ir.blocks)
  BY <1>3, <1>4 DEF Ranked, Neighbours
<1>6. ParserInv /\ Shape
  BY DEF OptInv, ParserInv
<1>7. Shape' /\ CountInv'
  BY <1>1, <1>6 DEF Shape, OptInv, CountInv
<1>8. CASE status' = "crash" /\ at' = at
  BY <1>1, <1>3, <1>4, <1>6, <1>7, <1>8 DEF OptInv, CountInv, ParserInv, PassInv
<1>9. CASE status' = "done" /\ at' = ir.blocks[at].next
  BY <1>1, <1>5, <1>6, <1>7, <1>9, NothingSound DEF vars, PassInv, OptInv
<1>10. QED
  BY <1>1, <1>8, <1>9

LEMMA OptimizeParamsSound ==
  ASSUME OptInv, OptimizeParams
  PROVE  OptInv'
<1>1. pass = "types" /\ at = 0 /\ pass' = "params" /\ at' = ir.last /\ UNCHANGED vars
  BY DEF OptimizeParams
<1>2. status = "done" /\ ParserInv
  BY <1>1 DEF OptInv, PassInv
<1>3. PICK r : Resting(ir, frames, r)
  BY <1>2 DEF ParserInv
<1>4. Len(ir.blocks) \in Nat /\ ir.last \in 1 .. Len(ir.blocks) /\ r[ir.last] = Len(ir.blocks)
  BY <1>3, FieldsOfIR DEF Resting, Laid, Ranked, Sound, IRFields
<1>5. PassInv'
  BY <1>1, <1>2, <1>4 DEF PassInv, vars
<1>6. CountInv'
  <2>1. ASSUME NEW b \in 1 .. Len(ir.blocks)
        PROVE  ServedBlock(ir.blocks, Gone(ir.blocks, r, ir.last, b), b)
    <3>1. r[b] \in 1 .. Len(ir.blocks)
      BY <1>3 DEF Resting, Laid, Ranked, Positions
    <3>2. Gone(ir.blocks, r, ir.last, b) = {}
      BY <1>4, <3>1 DEF Gone
    <3>3. Covered(ir, {})
      BY <1>1 DEF OptInv, CountInv
    <3>4. QED
      BY <3>2, <3>3, CoveredServes
  <2>2. /\ ir' = ir /\ frames' = frames /\ pass' = "params" /\ at' = ir.last
    BY <1>1 DEF vars
  <2>3. QED
    BY <1>3, <2>1, <2>2 DEF CountInv
<1>7. QED
  BY <1>1, <1>2, <1>5, <1>6, NothingSound DEF OptInv

LEMMA OptimizeBlockSound ==
  ASSUME OptInv, OptimizeBlock
  PROVE  OptInv'
<1>. DEFINE bs == ReleaseAll(ir.blocks, at)
<1>1. /\ pass = "params" /\ at # 0
      /\ ir' = [ir EXCEPT !.blocks = bs] /\ at' = ir.blocks[at].prev
      /\ pass' \in {"done", "params"} /\ frames' = frames /\ mode' = mode /\ want' = want
      /\ vals' = vals /\ text' = text /\ status' = status
  BY DEF OptimizeBlock
<1>2. status = "done" /\ ParserInv /\ Shape /\ at \in 0 .. Len(ir.blocks)
  BY <1>1 DEF OptInv, PassInv, ParserInv
<1>3. PICK r : /\ Resting(ir, frames, r)
                /\ \A b \in 1 .. Len(ir.blocks) :
                     ServedBlock(ir.blocks, Gone(ir.blocks, r, at, b), b)
  BY <1>1 DEF OptInv, CountInv
<1>4. Sound(ir, WaitingIn(frames), {}) /\ Ranked(ir, r)
  BY <1>3 DEF Resting, Laid
<1>5. ir \in IRType /\ Len(ir.blocks) \in Nat /\ at \in 1 .. Len(ir.blocks)
  BY <1>1, <1>2, <1>4, FieldsOfIR DEF Sound, IRFields
<1>6. Recounted(ir.blocks, bs)
  BY <1>4, <1>5, ReleaseAllFields
<1>6a. /\ ServedBlock(ir.blocks, {}, at) => ServedBlock(bs, TargetsOf(ir.blocks[at].term), at)
       /\ \A S : \A c \in 1 .. Len(ir.blocks) :
            c # at /\ ServedBlock(ir.blocks, S, c) => ServedBlock(bs, S, c)
  BY <1>4, <1>5, ReleaseAllServes
<1>. HIDE DEF bs
<1>7. bs \in Seq(BlockType) /\ Len(bs) = Len(ir.blocks)
  BY <1>6 DEF Recounted
<1>8. WithBlocks(ir, ir', bs)
  BY <1>1, <1>5, <1>7, ChangedBlocks
<1>9. ir'.blocks = bs /\ ir'.current = ir.current
  BY <1>8 DEF WithBlocks
<1>10. Resting(ir', frames', r)
  BY <1>1, <1>3, <1>6, <1>8, <1>9, RecountedStands
<1>11. Shape'
  BY <1>1, <1>2 DEF Shape
<1>12. vals' \in Seq(Operands(ir'))
  <2>1. \A b \in 1 .. Len(ir.blocks) : SameBlock(ir.blocks[b], ir'.blocks[b])
    BY <1>6, <1>9 DEF Recounted
  <2>2. ir.current \in 1 .. Len(ir.blocks)
    BY <1>4 DEF Sound
  <2>3. SameBlock(Block(ir), Block(ir'))
    BY <1>9, <2>1, <2>2 DEF Block
  <2>4. ASSUME NEW v \in Operands(ir) PROVE v \in Operands(ir')
    BY <1>9, <2>3 DEF Operands, SameBlock, SameInstrs, SameInstr, OperandSound, Defined
  <2>5. vals \in Seq(Operands(ir))
    BY <1>2 DEF ParserInv
  <2>6. Seq(Operands(ir)) \subseteq Seq(Operands(ir'))
    BY <2>4
  <2>7. QED
    BY <1>1, <2>5, <2>6
<1>13. mode = "params" => OnlyParameters(ir')
  <2>1. SUFFICES ASSUME mode = "params" PROVE OnlyParameters(ir')
    OBVIOUS
  <2>2. OnlyParameters(ir)
    BY <1>2, <2>1 DEF ParserInv
  <2>3. SameBlock(Block(ir), Block(ir'))
    BY <1>4, <1>6, <1>9 DEF Sound, Recounted, Block
  <2>4. QED
    BY <1>9, <2>2, <2>3 DEF OnlyParameters, SameBlock, SameInstrs, SameInstr, SameRest
<1>14. ParserInv'
  BY <1>1, <1>2, <1>10, <1>11, <1>12, <1>13 DEF ParserInv
<1>15. PassInv'
  BY <1>1, <1>2, <1>4, <1>5, <1>7, <1>9 DEF Ranked, Neighbours, PassInv
<1>16. CountInv'
  <2>. DEFINE before == ir.blocks[at].prev
  <2>1. /\ IF r[at] = 1 THEN before = 0
           ELSE before \in 1 .. Len(ir.blocks) /\ r[before] = r[at] - 1
        /\ r[at] \in 1 .. Len(ir.blocks)
    BY <1>4, <1>5 DEF Ranked, Neighbours, Positions
  <2>2. ASSUME NEW b \in 1 .. Len(ir.blocks)
        PROVE  ServedBlock(bs, Gone(bs, r, before, b), b)
    <3>1. r[b] \in 1 .. Len(ir.blocks) /\ (b # at => r[b] # r[at])
      BY <1>4, <1>5 DEF Ranked, Positions
    <3>2. TargetsOf(bs[b].term) = TargetsOf(ir.blocks[b].term)
      BY <1>6 DEF Recounted, SameBlock, SameRest
    <3>3. ServedBlock(ir.blocks, Gone(ir.blocks, r, at, b), b)
      BY <1>3
    <3>4. CASE b = at
      BY <1>5, <2>1, <3>2, <3>3, <3>4, <1>6a DEF Gone
    <3>5. CASE b # at
      <4>1. Gone(bs, r, before, b) = Gone(ir.blocks, r, at, b)
        BY <1>1, <2>1, <3>1, <3>2, <3>5 DEF Gone
      <4>2. QED
        BY <1>6a, <3>3, <3>5, <4>1
    <3>6. QED
      BY <3>4, <3>5
  <2>3. \A b \in 1 .. Len(ir'.blocks) : ServedBlock(ir'.blocks, Gone(ir'.blocks, r, at', b), b)
    BY <1>1, <1>7, <1>9, <2>2
  <2>4. QED
    BY <1>1, <1>10, <2>3 DEF CountInv
<1>17. QED
  BY <1>14, <1>15, <1>16 DEF OptInv

\* The function the parser builds is sound while it is built, and the passes
\* over it keep it so: the invariant from which the theorems below follow.
THEOREM OptInvariant ==
  OptSpec => []OptInv
<1>1. OptInv /\ [OptNext]_optVars => OptInv'
  <2>1. SUFFICES ASSUME OptInv, [OptNext]_optVars PROVE OptInv'
    OBVIOUS
  <2>2. CASE OptNext
    BY <2>1, <2>2, ParseSound, OptimizeFunctionSound, AssignTypesSound, OptimizeParamsSound,
       OptimizeBlockSound DEF OptNext, ParseAndAssign
  <2>3. CASE UNCHANGED optVars
    BY <2>1, <2>3, NothingSound DEF optVars, passVars, OptInv, PassInv, vars, CountInv
  <2>4. QED
    BY <2>1, <2>2, <2>3
<1>2. QED
  BY <1>1, OptInitSound, PTL DEF OptSpec

-----------------------------------------------------------------------------
(***************************************************************************)
(* What the rest of the compiler relies on.                                *)
(***************************************************************************)
\* Whatever has become of the parser, the function itself is sound.
LEMMA AlwaysSound ==
  ASSUME ParserInv
  PROVE  \E W, r : Sound(ir, W, {}) /\ Ranked(ir, r)
<1>1. status \in {"parsing", "done", "exit", "crash"}
  BY DEF ParserInv, Shape
<1>2. CASE status \in {"parsing", "done"}
  BY <1>2 DEF ParserInv, Resting, Standing, Placed, Laid
<1>3. CASE status = "exit"
  BY <1>3 DEF ParserInv
<1>4. CASE status = "crash"
  BY <1>4 DEF ParserInv
<1>5. QED
  BY <1>1, <1>2, <1>3, <1>4

LEMMA LocalValues ==
  ParserInv => ValuesAreLocal
<1>1. SUFFICES ASSUME ParserInv PROVE ValuesAreLocal
  OBVIOUS
<1>2. PICK W, r : Sound(ir, W, {}) /\ Ranked(ir, r)
  BY <1>1, AlwaysSound
<1>3. /\ ir.blocks \in Seq(BlockType) /\ DOMAIN ir.blocks = 1 .. Len(ir.blocks)
      /\ \A b \in 1 .. Len(ir.blocks) : LocalBlock(b, ir.blocks[b])
  BY <1>2, FieldsOfIR DEF Sound, IRFields, BlockSound
<1>4. ASSUME NEW b \in 1 .. Len(ir.blocks)
      PROVE  LET block == ir.blocks[b]
                 n == Len(block.instrs)
             IN  /\ \A i \in 1 .. n : \A j \in DOMAIN block.instrs[i].ops :
                      Defined(b, block.instrs[i].ops[j],
                              IF block.instrs[i].id = "CALL" /\ j > 1 THEN n ELSE i - 1)
                 /\ \A i \in DOMAIN block.vars : Defined(b, block.vars[i].val, n)
                 /\ \A i \in DOMAIN block.term.ops : Defined(b, block.term.ops[i], n)
  <2>1. PICK block \in BlockType : block = ir.blocks[b]
    BY <1>3
  <2>2. LocalBlock(b, block)
    BY <1>3, <2>1
  <2>3. /\ block.instrs \in Seq(InstrType) /\ Len(block.instrs) \in Nat
        /\ block.vars \in Seq(VarType) /\ block.term.ops \in Seq(Value)
    BY BlockFields DEF FieldsTyped
  <2>4. DOMAIN block.vars = 1 .. Len(block.vars)
    BY <2>3
  <2>5. DOMAIN block.term.ops = 1 .. Len(block.term.ops)
    BY <2>3
  <2>6. ASSUME NEW i \in 1 .. Len(block.instrs)
        PROVE  DOMAIN block.instrs[i].ops = 1 .. Len(block.instrs[i].ops)
    <3>1. block.instrs[i] \in InstrType
      BY <2>3
    <3>2. block.instrs[i].ops \in Seq(Value)
      BY <3>1 DEF InstrType
    <3>3. QED
      BY <3>2
  <2>7. QED
    BY <2>1, <2>2, <2>4, <2>5, <2>6 DEF LocalBlock
<1>5. ASSUME NEW i \in DOMAIN vals
      PROVE  LET n == Len(Block(ir).instrs)
             IN  /\ Defined(ir.current, vals[i].val, n)
                 /\ vals[i].lvalue.kind = "attr" => Defined(ir.current, vals[i].lvalue.loc, n)
  BY <1>1 DEF ParserInv, Operands, OperandSound
<1>6. QED
  BY <1>3, <1>4, <1>5 DEF ValuesAreLocal, Blocks

\* No value leaves its block, and an operand comes before its use, however long
\* the function and however its statements nest (builder_add_instr, merge_blocks).
THEOREM OptValuesAreLocal ==
  OptSpec => []ValuesAreLocal
<1>1. OptInv => ValuesAreLocal
  BY LocalValues DEF OptInv
<1>2. QED
  BY <1>1, OptInvariant, PTL

LEMMA EdgesPass ==
  ParserInv => EdgesPassEveryParameter
<1>1. SUFFICES ASSUME ParserInv PROVE EdgesPassEveryParameter
  OBVIOUS
<1>2. PICK W, r : Sound(ir, W, {}) /\ Ranked(ir, r)
  BY <1>1, AlwaysSound
<1>3. /\ ir.blocks \in Seq(BlockType) /\ DOMAIN ir.blocks = 1 .. Len(ir.blocks)
      /\ \A b \in 1 .. Len(ir.blocks) : BlockSound(b, ir.blocks[b])
      /\ EdgesSound(ir.blocks, ir.current, {})
  BY <1>2, FieldsOfIR DEF Sound, IRFields
<1>4. status # "exit" => AllUnique(ir)
  BY <1>1 DEF ParserInv, Shape, Resting, Standing, Placed, Laid
<1>5. ASSUME NEW b \in 1 .. Len(ir.blocks), NEW p \in Predecessors(b), NEW i \in Enabled(ir.blocks[b])
      PROVE  ir.blocks[b].instrs[i].name \in NamesIn(ir.blocks[p].vars)
  <2>1. p \in 1 .. Len(ir.blocks) /\ b \in Targets(p)
    BY <1>3 DEF Predecessors, Blocks
  <2>2. ir.blocks[p].term.targets \in Seq(Nat)
    BY <1>3, <2>1, BlockFields DEF FieldsTyped
  <2>3. PICK k \in 1 .. Len(ir.blocks[p].term.targets) : ir.blocks[p].term.targets[k] = b
    BY <2>1, <2>2 DEF Targets
  <2>4. EdgeSound(ir.blocks, p, b)
    BY <1>3, <2>1, <2>3 DEF EdgesSound
  <2>5. QED
    BY <2>4 DEF EdgeSound
<1>6. \A b \in 1 .. Len(ir.blocks) : ir.blocks[b].num_params = Cardinality(Enabled(ir.blocks[b]))
  BY <1>3 DEF BlockSound
<1>7. status # "exit" =>
        \A b \in 1 .. Len(ir.blocks) : \A i, j \in Enabled(ir.blocks[b]) :
          ir.blocks[b].instrs[i].name = ir.blocks[b].instrs[j].name => i = j
  BY <1>4 DEF AllUnique, Unique
<1>8. QED
  BY <1>3, <1>5, <1>6, <1>7 DEF EdgesPassEveryParameter, Blocks

\* Every edge has an argument for each parameter its target still has, whatever
\* merge_blocks created and took back.
THEOREM OptEdgesPassEveryParameter ==
  OptSpec => []EdgesPassEveryParameter
<1>1. OptInv => EdgesPassEveryParameter
  BY EdgesPass DEF OptInv
<1>2. QED
  BY <1>1, OptInvariant, PTL

LEMMA WaitingArePending ==
  ASSUME frames \in Seq(FrameType)
  PROVE  WaitingIn(frames) \subseteq Pending
<1>1. DOMAIN frames = 1 .. Len(frames)
  OBVIOUS
<1>2. ASSUME NEW i \in 1 .. Len(frames), NEW b \in Awaits(frames[i])
      PROVE  b \in (IF frames[i].kind = "then" THEN {frames[i].else} ELSE {})
                     \cup (IF frames[i].kind \in {"then", "else", "while"}
                           THEN {frames[i].after} ELSE {})
  BY DEF Awaits
<1>3. QED
  BY <1>1, <1>2 DEF WaitingIn, Pending

\* Only the current block and those that a statement will still enter have no
\* terminator: every block that is left has got one.
THEOREM OptOnlyOpenBlocksLackTerminator ==
  OptSpec => []OnlyOpenBlocksLackTerminator
<1>1. OptInv => OnlyOpenBlocksLackTerminator
  <2>1. SUFFICES ASSUME OptInv, status # "crash" PROVE OnlyOpenBlocksLackTerminator
    BY DEF OnlyOpenBlocksLackTerminator
  <2>2. ParserInv /\ frames \in Seq(FrameType) /\ status \in {"parsing", "done", "exit"}
    BY <2>1 DEF OptInv, ParserInv, Shape, Statements
  <2>3. Sound(ir, WaitingIn(frames), {})
    BY <2>2 DEF ParserInv, Resting, Standing, Placed, Laid
  <2>4. DOMAIN ir.blocks = 1 .. Len(ir.blocks)
    BY <2>3, FieldsOfIR DEF Sound, IRFields
  <2>5. QED
    BY <2>2, <2>3, <2>4, WaitingArePending DEF OnlyOpenBlocksLackTerminator, Sound, Blocks
<1>2. QED
  BY <1>1, OptInvariant, PTL

\* The order of next_block is the one in which the blocks are ranked.
LEMMA OrderIsRanking ==
  ASSUME NEW r, Ranked(ir, r), ir \in IRType
  PROVE  DOMAIN Order = Blocks /\ \A b \in Blocks : Order[r[b]] = b
<1>. DEFINE bs == ir.blocks
            Def(f) == [n \in 1 .. Len(bs) |->
                         IF n = 1 THEN 1
                         ELSE LET b == f[n - 1] IN IF b = 0 THEN 0 ELSE bs[b].next]
            after == CHOOSE f : f = Def(f)
<1>1. PICK len \in Nat : len = Len(bs) /\ DOMAIN bs = 1 .. len
  BY FieldsOfIR DEF IRFields
<1>2. /\ Positions(r, len) /\ r[1] = 1 /\ 1 \in 1 .. len
      /\ \A b \in 1 .. len : Neighbours(bs, r, b)
  BY <1>1 DEF Ranked
<1>3. PICK at1 : at1 = [n \in 1 .. len |-> CHOOSE b \in 1 .. len : r[b] = n]
  OBVIOUS
<1>4. ASSUME NEW n \in 1 .. len PROVE at1[n] \in 1 .. len /\ r[at1[n]] = n
  BY <1>2, <1>3 DEF Positions
<1>5. ASSUME NEW b \in 1 .. len PROVE at1[r[b]] = b /\ r[b] \in 1 .. len
  <2>1. r[b] \in 1 .. len
    BY <1>2 DEF Positions
  <2>2. at1[r[b]] \in 1 .. len /\ r[at1[r[b]]] = r[b]
    BY <1>4, <2>1
  <2>3. QED
    BY <1>2, <2>1, <2>2 DEF Positions
<1>6. at1 = Def(at1)
  <2>1. at1[1] = 1
    BY <1>2, <1>5
  <2>2. ASSUME NEW n \in 1 .. len, n # 1
        PROVE  at1[n] = IF at1[n - 1] = 0 THEN 0 ELSE bs[at1[n - 1]].next
    <3>1. n - 1 \in 1 .. len /\ n - 1 # len /\ (n - 1) + 1 = n
      BY <2>2, <1>1
    <3>2. at1[n - 1] \in 1 .. len /\ r[at1[n - 1]] = n - 1
      BY <3>1, <1>4
    <3>3. Neighbours(bs, r, at1[n - 1])
      BY <1>2, <3>2
    <3>4. bs[at1[n - 1]].next \in 1 .. len /\ r[bs[at1[n - 1]].next] = n
      BY <1>1, <3>1, <3>2, <3>3 DEF Neighbours
    <3>5. at1[n] = bs[at1[n - 1]].next
      BY <1>5, <3>4
    <3>6. at1[n - 1] # 0
      BY <3>2
    <3>7. QED
      BY <3>5, <3>6
  <2>3. \A n \in 1 .. len :
          at1[n] = IF n = 1 THEN 1 ELSE IF at1[n - 1] = 0 THEN 0 ELSE bs[at1[n - 1]].next
    BY <2>1, <2>2
  <2>. DEFINE Next1(n) == IF n = 1 THEN 1 ELSE IF at1[n - 1] = 0 THEN 0 ELSE bs[at1[n - 1]].next
  <2>4. Def(at1) = [n \in 1 .. len |-> Next1(n)]
    BY <1>1
  <2>5. \A n \in 1 .. len : at1[n] = Next1(n)
    BY <2>3
  <2>. HIDE DEF Next1, Def
  <2>6. QED
    BY <1>3, <2>4, <2>5
<1>7. after = Def(after)
  <2>. HIDE DEF Def
  <2>1. QED
    BY <1>6
<1>8. Order = after
  BY DEF Order
<1>. HIDE DEF after
<1>9. ASSUME NEW f, NEW g, f = Def(g), NEW n \in 1 .. Len(bs)
      PROVE  f[n] = IF n = 1 THEN 1 ELSE IF g[n - 1] = 0 THEN 0 ELSE bs[g[n - 1]].next
  BY <1>9
<1>10. ASSUME NEW n \in 1 .. len
       PROVE  after[n] = IF n = 1 THEN 1
                         ELSE IF after[n - 1] = 0 THEN 0 ELSE bs[after[n - 1]].next
  <2>. HIDE DEF Def
  <2>1. QED
    BY <1>1, <1>7, <1>9
<1>11. ASSUME NEW n \in 1 .. len
       PROVE  at1[n] = IF n = 1 THEN 1
                       ELSE IF at1[n - 1] = 0 THEN 0 ELSE bs[at1[n - 1]].next
  <2>. HIDE DEF Def
  <2>1. QED
    BY <1>1, <1>6, <1>9
<1>12. DOMAIN after = 1 .. len
  BY <1>1, <1>7
<1>. HIDE DEF Def
<1>13. \A n \in 1 .. len : after[n] = at1[n]
  <2>. DEFINE T == {n \in 1 .. len : after[n] = at1[n]}
  <2>1. 1 \in T
    <3>1. after[1] = 1
      BY <1>2, <1>10
    <3>2. at1[1] = 1
      BY <1>2, <1>11
    <3>3. QED
      BY <1>2, <3>1, <3>2
  <2>2. ASSUME NEW n \in 1 .. len - 1, n \in T PROVE n + 1 \in T
    BY <1>10, <1>11, <2>2
  <2>. HIDE DEF T
  <2>3. 1 .. len \subseteq T
    BY <2>1, <2>2, IntervalByInduction
  <2>4. QED
    BY <2>3 DEF T
<1>14. QED
  BY <1>1, <1>5, <1>8, <1>12, <1>13 DEF Blocks

LEMMA OrderHolds ==
  ParserInv => BlockOrder
<1>1. SUFFICES ASSUME ParserInv PROVE BlockOrder
  OBVIOUS
<1>2. PICK W, r : Sound(ir, W, {}) /\ Ranked(ir, r)
  BY <1>1, AlwaysSound
<1>. DEFINE bs == ir.blocks
<1>3. PICK len \in Nat : /\ len = Len(bs) /\ DOMAIN bs = 1 .. len /\ Blocks = 1 .. len
                         /\ ir \in IRType
  BY <1>2, FieldsOfIR DEF Sound, IRFields, Blocks
<1>4. /\ r \in [1 .. len -> 1 .. len]
      /\ \A b, c \in 1 .. len : r[b] = r[c] => b = c
      /\ \A n \in 1 .. len : \E b \in 1 .. len : r[b] = n
      /\ r[1] = 1 /\ ir.last \in 1 .. len /\ r[ir.last] = len
      /\ \A b \in 1 .. len : Neighbours(bs, r, b) /\ FromAhead(bs, r, b)
  BY <1>2, <1>3 DEF Ranked, Positions
<1>4a. \A b, c \in 1 .. len : r[b] = r[c] => b = c
  BY <1>4
<1>5. \A b \in 1 .. len : Order[r[b]] = b
  BY <1>2, <1>3, OrderIsRanking
<1>6. DOMAIN Order = 1 .. len
  BY <1>2, <1>3, OrderIsRanking
<1>7. \A n \in 1 .. len : Order[n] \in 1 .. len /\ r[Order[n]] = n
  <2>1. TAKE n \in 1 .. len
  <2>2. PICK b \in 1 .. len : r[b] = n
    BY <1>4
  <2>3. QED
    BY <1>5, <2>2
<1>8. ListHoldsEveryBlock
  <2>1. {Order[n] : n \in DOMAIN Order} = Blocks
    <3>1. ASSUME NEW b \in 1 .. len PROVE \E n \in 1 .. len : Order[n] = b
      BY <1>4, <1>5
    <3>2. QED
      BY <1>3, <1>6, <1>7, <3>1
  <2>2. bs[ir.last].next = 0
    BY <1>3, <1>4 DEF Neighbours
  <2>3. ASSUME NEW b \in 1 .. len, bs[b].next # 0 PROVE bs[bs[b].next].prev = b
    <3>1. PICK n \in 1 .. len : n = bs[b].next /\ r[n] = r[b] + 1
      BY <1>3, <1>4, <2>3 DEF Neighbours
    <3>2. PICK k \in 1 .. len : k = r[b] /\ r[n] = k + 1
      BY <1>4, <3>1
    <3>3. bs[n].prev \in 1 .. len /\ r[bs[n].prev] = k
      <4>1. r[n] # 1 /\ r[n] - 1 = k
        BY <3>2
      <4>2. Neighbours(bs, r, n)
        BY <1>4, <3>1
      <4>3. QED
        BY <1>3, <4>1, <4>2 DEF Neighbours
    <3>4. PICK m \in 1 .. len : m = bs[n].prev /\ r[m] = r[b]
      BY <3>2, <3>3
    <3>5. m = b
      BY <1>4a, <3>4
    <3>6. QED
      BY <3>1, <3>4, <3>5
  <2>4. ASSUME NEW b \in 1 .. len, bs[b].prev # 0 PROVE bs[bs[b].prev].next = b
    <3>1. PICK n \in 1 .. len : n = bs[b].prev /\ r[n] = r[b] - 1
      BY <1>3, <1>4, <2>4 DEF Neighbours
    <3>2. PICK k \in 1 .. len : k = r[b] /\ r[n] = k - 1
      BY <1>4, <3>1
    <3>3. bs[n].next \in 1 .. len /\ r[bs[n].next] = k
      <4>1. r[n] # len /\ r[n] + 1 = k
        BY <3>2
      <4>2. Neighbours(bs, r, n)
        BY <1>4, <3>1
      <4>3. QED
        BY <1>3, <4>1, <4>2 DEF Neighbours
    <3>4. PICK m \in 1 .. len : m = bs[n].next /\ r[m] = r[b]
      BY <3>2, <3>3
    <3>5. m = b
      BY <1>4a, <3>4
    <3>6. QED
      BY <3>1, <3>4, <3>5
  <2>5. QED
    BY <1>3, <2>1, <2>2, <2>3, <2>4 DEF ListHoldsEveryBlock
<1>9. ASSUME NEW p \in 1 .. len, NEW t
      PROVE  /\ t \in Targets(p) <=> BranchesTo(bs, p, t)
             /\ t \in Targets(p) => EdgeSound(bs, p, t)
  <2>1. bs[p] \in BlockType
    BY <1>3 DEF IRType
  <2>2. bs[p].term.targets \in Seq(Nat)
    BY <2>1, BlockFields DEF FieldsTyped
  <2>3. t \in Targets(p) <=> BranchesTo(bs, p, t)
    <3>1. PICK ts \in Seq(Nat) : ts = bs[p].term.targets
      BY <2>2
    <3>2. DOMAIN ts = 1 .. Len(ts)
      OBVIOUS
    <3>3. t \in Targets(p) <=> \E k \in DOMAIN ts : ts[k] = t
      BY <3>1 DEF Targets
    <3>4. BranchesTo(bs, p, t) <=> \E k \in 1 .. Len(ts) : ts[k] = t
      BY <3>1 DEF BranchesTo
    <3>5. QED
      BY <3>2, <3>3, <3>4
  <2>4. ASSUME BranchesTo(bs, p, t) PROVE EdgeSound(bs, p, t)
    BY <1>2, <1>3, <2>4 DEF Sound, EdgesSound, BranchesTo
  <2>5. QED
    BY <2>3, <2>4
<1>10. PredecessorComesFirst
  <2>1. SUFFICES ASSUME NEW n \in 1 .. len, Predecessors(Order[n]) # {}
                 PROVE  \E m \in 1 .. n - 1 : Order[m] \in Predecessors(Order[n])
    BY <1>6 DEF PredecessorComesFirst
  <2>2. PICK b \in 1 .. len : b = Order[n] /\ r[b] = n
    BY <1>7
  <2>3. PICK p \in 1 .. len : b \in Targets(p)
    BY <1>3, <2>1, <2>2 DEF Predecessors
  <2>4. bs[b].has_vars
    BY <1>9, <2>3 DEF EdgeSound
  <2>5. PICK q \in 1 .. len : BranchesTo(bs, q, b) /\ r[q] < r[b]
    BY <1>3, <1>4, <2>4 DEF FromAhead
  <2>6. q \in Predecessors(b) /\ Order[r[q]] = q
    BY <1>3, <1>5, <1>9, <2>5 DEF Predecessors
  <2>7. r[q] \in 1 .. n - 1
    BY <1>4, <2>2, <2>5
  <2>8. QED
    BY <2>2, <2>6, <2>7
<1>11. TrueTargetIsNext
  BY <1>2, <1>3 DEF Sound, BlockSound, TermShape, TrueTargetIsNext
<1>12. QED
  BY <1>8, <1>10, <1>11 DEF BlockOrder

\* The list holds every block once, in both directions; a block that is branched
\* to has a predecessor in front; the true target of a conditional branch is next.
THEOREM OptBlockOrder ==
  OptSpec => []BlockOrder
<1>1. OptInv => BlockOrder
  BY OrderHolds DEF OptInv
<1>2. QED
  BY <1>1, OptInvariant, PTL

-----------------------------------------------------------------------------
(***************************************************************************)
(* The counts.                                                             *)
(***************************************************************************)
\* From the invariant: some blocks R are the ones whose unused parameters are
\* no longer counted for, none before the parameters are optimized.
LEMMA SomeServed ==
  ASSUME OptInv, NEW b \in 1 .. Len(ir.blocks)
  PROVE  \E R : /\ ServedBlock(ir.blocks, R, b)
                /\ pass \in {"parse", "types"} => R = {}
<1>1. pass \in {"parse", "types"} \/ pass \in {"params", "done"}
  BY DEF OptInv, PassInv
<1>2. CASE pass \in {"parse", "types"}
  BY <1>2, CoveredServes DEF OptInv, CountInv
<1>3. CASE pass \in {"params", "done"}
  BY <1>3 DEF OptInv, CountInv
<1>4. QED
  BY <1>1, <1>2, <1>3

LEMMA UsesCounted ==
  OptInv => UsesAreCounted
<1>1. SUFFICES ASSUME OptInv PROVE UsesAreCounted
  OBVIOUS
<1>2. PICK W, r : Sound(ir, W, {}) /\ Ranked(ir, r)
  BY <1>1, AlwaysSound DEF OptInv
<1>3. PICK bs \in Seq(BlockType) :
        /\ bs = ir.blocks /\ DOMAIN bs = 1 .. Len(bs)
        /\ EdgesSound(bs, ir.current, {})
  BY <1>2, FieldsOfIR DEF Sound, IRFields
<1>4. ASSUME NEW b \in 1 .. Len(bs), NEW i \in DOMAIN bs[b].instrs
      PROVE  bs[b].instrs[i].refs >= RemainingUses(b, i)
  <2>. DEFINE v == <<b, i>>
              Remain(u) == pass \in {"parse", "types"} \/ bs[u[1]].instrs[u[2]].refs > 0
              N == {u \in EdgeUses(b, v) : Remain(u)}
  <2>1. PICK x \in BlockType : x = bs[b]
    OBVIOUS
  <2>2. x.instrs \in Seq(InstrType) /\ i \in 1 .. Len(x.instrs)
        /\ x.term.ops \in Seq(Value) /\ x.term.targets \in Seq(Nat)
    BY <2>1, BlockFields DEF FieldsTyped
  <2>3. Targets(b) = TargetsOf(bs[b].term)
    BY <1>3, <2>1, <2>2 DEF Targets, TargetsOf
  <2>4. PICK R : /\ ServedBlock(bs, R, b)
                 /\ pass \in {"parse", "types"} => R = {}
    BY <1>1, <1>3, SomeServed
  <2>. DEFINE A == LeftFor(bs, R, b, v)
  <2>5. TargetsOf(bs[b].term) \subseteq 1 .. Len(bs)
    BY <1>3 DEF TargetsOf, EdgesSound, EdgeSound
  <2>6. IsFiniteSet(A) /\ Cardinality(A) \in Nat
    BY <2>5, LeftFinite
  <2>7. EdgeUses(b, v) = ArgumentsIn(bs, TargetsOf(bs[b].term), bs[b].vars, v)
    BY <1>3, <2>3 DEF EdgeUses, ArgumentsIn
  <2>8. N \in SUBSET A
    <3>1. ASSUME NEW u \in N PROVE u \in A
      BY <2>4, <2>7 DEF LeftFor
    <3>2. QED
      BY <3>1
  <2>9. OperandUses(b, v) = OperandsIn(x, v)
    BY <1>3, <2>1 DEF OperandUses, OperandsIn
  <2>10. Cardinality(ReturnUses(b, v)) = Times(x.term.ops, v)
    BY <1>3, <2>1 DEF ReturnUses, Times
  <2>11. RemainingUses(b, i)
           = Cardinality(OperandUses(b, v)) + Cardinality(ReturnUses(b, v)) + Cardinality(N)
    BY <1>3 DEF RemainingUses
  <2>. HIDE DEF N, A
  <2>12. Cardinality(N) <= Cardinality(A) /\ Cardinality(N) \in Nat
    BY <2>6, <2>8, FS_Subset, FS_CardinalityType
  <2>13. PICK m \in Int, p \in Nat, q \in Nat, j \in Nat, k \in Nat :
           /\ m = bs[b].instrs[i].refs /\ p = Cardinality(A) /\ q = Cardinality(N)
           /\ j = Cardinality(OperandsIn(x, v)) /\ k = Times(x.term.ops, v)
    <3>1. x.instrs[i] \in InstrType
      BY <2>2
    <3>2. bs[b].instrs[i].refs \in Int
      BY <2>1, <3>1 DEF InstrType
    <3>3. QED
      BY <2>6, <2>12, <3>2, OwnUsesCount
  <2>14. OwnUses(bs[b], v) = j + k
    BY <2>1, <2>13 DEF OwnUses
  <2>15. m >= (j + k) + p
    BY <2>1, <2>2, <2>4, <2>13, <2>14 DEF ServedBlock, A
  <2>16. RemainingUses(b, i) = j + k + q
    BY <2>9, <2>10, <2>11, <2>13
  <2>17. m >= j + k + q
    BY <2>12, <2>13, <2>15
  <2>18. QED
    BY <2>13, <2>16, <2>17
<1>5. QED
  BY <1>3, <1>4 DEF UsesAreCounted, Blocks

\* refs counts at least the uses that remain, other than as a callee, for every
\* value at every time: while the function is built, where merge_blocks finds or
\* creates parameters and takes them back, and, if the peephole optimizer folds
\* nothing, while ojit_optimize_params_branch takes counts back, around loops too.
\* So it is never negative.
THEOREM OptUsesAreCounted ==
  OptSpec => []UsesAreCounted
BY OptInvariant, UsesCounted, PTL

-----------------------------------------------------------------------------
(***************************************************************************)
(* The types.                                                              *)
(***************************************************************************)
Known == {"unknown", "int"}
Typings(blocks) ==
  {ty \in [1 .. Len(blocks) -> UNION {[1 .. Len(blocks[b].instrs) -> Known] : b \in 1 .. Len(blocks)}] :
     \A b \in 1 .. Len(blocks) : ty[b] \in [1 .. Len(blocks[b].instrs) -> Known]}
States(blocks) == [types : Typings(blocks), passed : SUBSET Value]

IsValue(blocks, v) ==
  \E b \in 1 .. Len(blocks) : \E i \in 1 .. Len(blocks[b].instrs) : v = <<b, i>>
ArgumentFor(blocks, p, t, i) == ValueIn(blocks[p].vars, blocks[t].instrs[i].name)

\* Typed as an integer, or passed on while its type was not known.
Good(st, v) == v \in st.passed \/ st.types[v[1]][v[2]] = "int"

\* What a visit to block from adds: types of parameters of its targets, and of
\* values of its own that it passed on.
Learned(blocks, st, new, from) ==
  /\ new \in States(blocks)
  /\ st.passed \subseteq new.passed
  /\ \A b \in 1 .. Len(blocks) : \A j \in 1 .. Len(blocks[b].instrs) :
       /\ st.types[b][j] = "int" => new.types[b][j] = "int"
       /\ new.types[b][j] = "int" =>
            \/ st.types[b][j] = "int"
            \/ b = from /\ <<b, j>> \in new.passed
            \/ /\ b \in TargetsOf(blocks[from].term) /\ j \in Enabled(blocks[b])
               /\ blocks[b].instrs[j].refs # 0

LEMMA RowSet ==
  ASSUME NEW blocks, NEW ty \in Typings(blocks), NEW c \in 1 .. Len(blocks),
         NEW row \in [1 .. Len(blocks[c].instrs) -> Known]
  PROVE  /\ [ty EXCEPT ![c] = row] \in Typings(blocks)
         /\ [ty EXCEPT ![c] = row][c] = row
         /\ \A b \in 1 .. Len(blocks) : b # c => [ty EXCEPT ![c] = row][b] = ty[b]
<1>. DEFINE all == UNION {[1 .. Len(blocks[b].instrs) -> Known] : b \in 1 .. Len(blocks)}
            new == [ty EXCEPT ![c] = row]
<1>1. ty \in [1 .. Len(blocks) -> all] /\ row \in all
  BY DEF Typings
<1>2. \A b \in 1 .. Len(blocks) : ty[b] \in [1 .. Len(blocks[b].instrs) -> Known]
  BY DEF Typings
<1>3. Typings(blocks) = {f \in [1 .. Len(blocks) -> all] :
                           \A b \in 1 .. Len(blocks) : f[b] \in [1 .. Len(blocks[b].instrs) -> Known]}
  BY DEF Typings
<1>. HIDE DEF all
<1>4. /\ new \in [1 .. Len(blocks) -> all] /\ new[c] = row
      /\ \A b \in 1 .. Len(blocks) : b # c => new[b] = ty[b]
  BY <1>1
<1>. HIDE DEF new
<1>5. \A b \in 1 .. Len(blocks) : new[b] \in [1 .. Len(blocks[b].instrs) -> Known]
  BY <1>2, <1>4
<1>6. new \in Typings(blocks)
  BY <1>3, <1>4, <1>5
<1>7. QED
  BY <1>4, <1>6 DEF new

\* new is ty with one instruction typed anew.
OneTyped(blocks, ty, new, c, k, type) ==
  /\ new \in Typings(blocks)
  /\ \A b \in 1 .. Len(blocks) : \A j \in 1 .. Len(blocks[b].instrs) :
       new[b][j] = IF b = c /\ j = k THEN type ELSE ty[b][j]

LEMMA TypeSet ==
  ASSUME NEW blocks, NEW ty \in Typings(blocks), NEW c \in 1 .. Len(blocks),
         NEW k \in 1 .. Len(blocks[c].instrs), NEW type \in Known
  PROVE  OneTyped(blocks, ty, [ty EXCEPT ![c][k] = type], c, k, type)
<1>1. DOMAIN ty = 1 .. Len(blocks) /\ ty[c] \in [1 .. Len(blocks[c].instrs) -> Known]
  BY DEF Typings
<1>2. PICK row : row = [ty[c] EXCEPT ![k] = type]
  OBVIOUS
<1>3. /\ row \in [1 .. Len(blocks[c].instrs) -> Known]
      /\ \A j \in 1 .. Len(blocks[c].instrs) : row[j] = IF j = k THEN type ELSE ty[c][j]
  BY <1>1, <1>2
<1>4. PICK new : new = [ty EXCEPT ![c] = row]
  OBVIOUS
<1>5. new = [ty EXCEPT ![c][k] = type]
  BY <1>2, <1>4
<1>6. OneTyped(blocks, ty, new, c, k, type)
  <2>1. /\ [ty EXCEPT ![c] = row] \in Typings(blocks)
        /\ [ty EXCEPT ![c] = row][c] = row
        /\ \A b \in 1 .. Len(blocks) : b # c => [ty EXCEPT ![c] = row][b] = ty[b]
    BY <1>3, RowSet
  <2>2. new \in Typings(blocks) /\ new[c] = row
        /\ \A b \in 1 .. Len(blocks) : b # c => new[b] = ty[b]
    BY <1>4, <2>1
  <2>3. ASSUME NEW b \in 1 .. Len(blocks), NEW j \in 1 .. Len(blocks[b].instrs)
        PROVE  new[b][j] = IF b = c /\ j = k THEN type ELSE ty[b][j]
    BY <1>3, <2>2
  <2>4. QED
    BY <2>2, <2>3 DEF OneTyped
<1>7. QED
  BY <1>5, <1>6

LEMMA StateFields ==
  ASSUME NEW blocks, NEW st \in States(blocks)
  PROVE  /\ st.types \in Typings(blocks) /\ st.passed \in SUBSET Value
         /\ \A b \in 1 .. Len(blocks) : \A i \in 1 .. Len(blocks[b].instrs) :
              st.types[b][i] \in Known
BY DEF States, Typings

LEMMA LearnedNothing ==
  ASSUME NEW blocks, NEW st \in States(blocks), NEW from
  PROVE  Learned(blocks, st, st, from)
BY DEF Learned

LEMMA LearnedTwice ==
  ASSUME NEW blocks, NEW st, NEW mid, NEW new, NEW from,
         Learned(blocks, st, mid, from), Learned(blocks, mid, new, from)
  PROVE  Learned(blocks, st, new, from)
<1>1. ASSUME NEW b \in 1 .. Len(blocks), NEW j \in 1 .. Len(blocks[b].instrs)
      PROVE  /\ st.types[b][j] = "int" => new.types[b][j] = "int"
             /\ new.types[b][j] = "int" =>
                  \/ st.types[b][j] = "int"
                  \/ b = from /\ <<b, j>> \in new.passed
                  \/ /\ b \in TargetsOf(blocks[from].term) /\ j \in Enabled(blocks[b])
                     /\ blocks[b].instrs[j].refs # 0
  <2>1. st.types[b][j] = "int" => mid.types[b][j] = "int"
    BY DEF Learned
  <2>2. mid.types[b][j] = "int" => new.types[b][j] = "int"
    BY DEF Learned
  <2>3. new.types[b][j] = "int" =>
          \/ mid.types[b][j] = "int"
          \/ b = from /\ <<b, j>> \in new.passed
          \/ /\ b \in TargetsOf(blocks[from].term) /\ j \in Enabled(blocks[b])
             /\ blocks[b].instrs[j].refs # 0
    BY DEF Learned
  <2>4. mid.types[b][j] = "int" =>
          \/ st.types[b][j] = "int"
          \/ b = from /\ <<b, j>> \in mid.passed
          \/ /\ b \in TargetsOf(blocks[from].term) /\ j \in Enabled(blocks[b])
             /\ blocks[b].instrs[j].refs # 0
    BY DEF Learned
  <2>5. mid.passed \subseteq new.passed
    BY DEF Learned
  <2>6. QED
    BY <2>1, <2>2, <2>3, <2>4, <2>5
<1>2. new \in States(blocks) /\ st.passed \subseteq new.passed
  BY DEF Learned
<1>3. QED
  BY <1>1, <1>2 DEF Learned

LEMMA GoodStays ==
  ASSUME NEW blocks, NEW st, NEW new, NEW from, Learned(blocks, st, new, from),
         NEW v, IsValue(blocks, v), Good(st, v)
  PROVE  Good(new, v)
<1>1. PICK b \in 1 .. Len(blocks) : \E i \in 1 .. Len(blocks[b].instrs) : v = <<b, i>>
  BY DEF IsValue
<1>2. PICK i \in 1 .. Len(blocks[b].instrs) : v = <<b, i>>
  BY <1>1
<1>3. v[1] = b /\ v[2] = i
  BY <1>2
<1>4. QED
  BY <1>3 DEF Good, Learned

\* What an edge passes is a value of the block it comes from.
LEMMA ArgumentIs ==
  ASSUME NEW blocks \in Seq(BlockType), NEW p \in 1 .. Len(blocks), BlockSound(p, blocks[p]),
         NEW t, EdgeSound(blocks, p, t), NEW i \in Enabled(blocks[t])
  PROVE  /\ ArgumentFor(blocks, p, t, i) \in Value /\ IsValue(blocks, ArgumentFor(blocks, p, t, i))
         /\ \E k \in 1 .. Len(blocks[p].instrs) : ArgumentFor(blocks, p, t, i) = <<p, k>>
<1>1. PICK x \in BlockType : x = blocks[p]
  OBVIOUS
<1>2. x.vars \in Seq(VarType) /\ DOMAIN x.vars = 1 .. Len(x.vars)
  BY BlockFields DEF FieldsTyped
<1>3. PICK name : name = blocks[t].instrs[i].name
  OBVIOUS
<1>4. \E j \in DOMAIN x.vars : x.vars[j].name = name
  BY <1>1, <1>3 DEF EdgeSound, NamesIn
<1>5. PICK j \in DOMAIN x.vars : j = CHOOSE k \in DOMAIN x.vars : x.vars[k].name = name
  BY <1>4
<1>6. PICK v : v = x.vars[j].val
  OBVIOUS
<1>7. ArgumentFor(blocks, p, t, i) = v
  BY <1>1, <1>3, <1>5, <1>6 DEF ArgumentFor, ValueIn
<1>8. v \in Value
  <2>1. x.vars[j] \in VarType
    BY <1>2
  <2>2. QED
    BY <1>6, <2>1 DEF VarType
<1>9. Defined(p, v, Len(x.instrs))
  BY <1>1, <1>2, <1>6 DEF BlockSound, LocalBlock
<1>10. v[2] \in 1 .. Len(x.instrs) /\ v = <<p, v[2]>>
  BY <1>8, <1>9 DEF Defined, Value
<1>11. QED
  BY <1>1, <1>7, <1>8, <1>10 DEF IsValue

LEMMA JoinLearns ==
  ASSUME NEW from \in 1 .. Len(ir.blocks), NEW to \in TargetsOf(ir.blocks[from].term),
         ir.blocks \in Seq(BlockType), BlockSound(from, ir.blocks[from]),
         EdgeSound(ir.blocks, from, to), NEW i \in Enabled(ir.blocks[to]),
         NEW st \in States(ir.blocks)
  PROVE  /\ Learned(ir.blocks, st, Join(st, to, from, i), from)
         /\ ir.blocks[to].instrs[i].refs # 0 =>
              Good(Join(st, to, from, i), ArgumentFor(ir.blocks, from, to, i))
<1>1. PICK bs \in Seq(BlockType) : bs = ir.blocks
  OBVIOUS
<1>2. PICK v : v = ArgumentFor(bs, from, to, i)
  OBVIOUS
<1>3. v \in Value /\ \E k \in 1 .. Len(bs[from].instrs) : v = <<from, k>>
  BY <1>1, <1>2, ArgumentIs
<1>4. PICK k \in 1 .. Len(bs[from].instrs) : v = <<from, k>>
  BY <1>3
<1>5. v[1] = from /\ v[2] = k /\ from \in 1 .. Len(bs) /\ to \in 1 .. Len(bs) /\ to # from
  BY <1>1, <1>4 DEF EdgeSound
<1>6. i \in 1 .. Len(bs[to].instrs)
  <2>1. bs[to] \in BlockType
    BY <1>5
  <2>2. QED
    BY <1>1, <2>1, EnabledFinite
<1>7. PICK old \in Known, type \in Known : old = st.types[to][i] /\ type = st.types[from][k]
  BY <1>1, <1>5, <1>6, StateFields
<1>8. st.types \in Typings(bs) /\ st.passed \in SUBSET Value /\ st \in States(bs)
  BY <1>1, StateFields
<1>9. Join(st, to, from, i) =
        IF bs[to].instrs[i].refs = 0 THEN st
        ELSE IF type = "unknown"
        THEN [types |-> [st.types EXCEPT ![from][k] = old], passed |-> st.passed \cup {v}]
        ELSE [st EXCEPT !.types[to][i] = IF old = "unknown" THEN type ELSE old]
  BY <1>1, <1>2, <1>5, <1>7 DEF Join, ArgumentFor
<1>10. PICK new : new = Join(st, to, from, i)
  OBVIOUS
<1>11. CASE bs[to].instrs[i].refs = 0
  BY <1>1, <1>9, <1>11, LearnedNothing
<1>12. CASE bs[to].instrs[i].refs # 0 /\ type = "unknown"
  <2>1. PICK ty : ty = [st.types EXCEPT ![from][k] = old]
    OBVIOUS
  <2>2. /\ ty \in Typings(bs)
        /\ \A b \in 1 .. Len(bs) : \A j \in 1 .. Len(bs[b].instrs) :
             ty[b][j] = IF b = from /\ j = k THEN old ELSE st.types[b][j]
    <3>1. PICK was \in Typings(bs) : was = st.types
      BY <1>8
    <3>2. ty = [was EXCEPT ![from][k] = old]
      BY <2>1, <3>1
    <3>3. OneTyped(bs, was, ty, from, k, old)
      BY <1>4, <1>5, <3>1, <3>2, TypeSet
    <3>4. QED
      BY <3>1, <3>3 DEF OneTyped
  <2>3. new = [types |-> ty, passed |-> st.passed \cup {v}]
    BY <1>9, <1>10, <1>12, <2>1
  <2>4. new.types = ty /\ new.passed = st.passed \cup {v}
    BY <2>3
  <2>5. new \in States(bs)
    BY <1>3, <1>8, <2>2, <2>3 DEF States
  <2>6. ASSUME NEW b \in 1 .. Len(bs), NEW j \in 1 .. Len(bs[b].instrs)
        PROVE  /\ st.types[b][j] = "int" => new.types[b][j] = "int"
               /\ new.types[b][j] = "int" =>
                    \/ st.types[b][j] = "int"
                    \/ b = from /\ <<b, j>> \in new.passed
    <3>1. CASE b = from /\ j = k
      <4>1. st.types[b][j] = "unknown"
        BY <1>7, <1>12, <3>1
      <4>2. <<b, j>> \in new.passed
        BY <1>4, <2>4, <3>1
      <4>3. QED
        BY <3>1, <4>1, <4>2
    <3>2. CASE ~(b = from /\ j = k)
      BY <2>2, <2>4, <3>2
    <3>3. QED
      BY <3>1, <3>2
  <2>7. Learned(bs, st, new, from)
    BY <2>4, <2>5, <2>6 DEF Learned
  <2>8. Good(new, v)
    BY <2>4 DEF Good
  <2>9. QED
    BY <1>1, <1>2, <1>10, <2>7, <2>8
<1>13. CASE bs[to].instrs[i].refs # 0 /\ type # "unknown"
  <2>1. type = "int" /\ (IF old = "unknown" THEN type ELSE old) = "int" /\ "int" \in Known
    BY <1>7, <1>13 DEF Known
  <2>2. PICK ty : ty = [st.types EXCEPT ![to][i] = "int"]
    OBVIOUS
  <2>3. /\ ty \in Typings(bs)
        /\ \A b \in 1 .. Len(bs) : \A j \in 1 .. Len(bs[b].instrs) :
             ty[b][j] = IF b = to /\ j = i THEN "int" ELSE st.types[b][j]
    <3>1. PICK was \in Typings(bs) : was = st.types
      BY <1>8
    <3>2. ty = [was EXCEPT ![to][i] = "int"]
      BY <2>2, <3>1
    <3>3. OneTyped(bs, was, ty, to, i, "int")
      BY <1>5, <1>6, <2>1, <3>1, <3>2, TypeSet
    <3>4. QED
      BY <3>1, <3>3 DEF OneTyped
  <2>4. new = [st EXCEPT !.types = ty]
    BY <1>9, <1>10, <1>13, <2>1, <2>2
  <2>5. new.types = ty /\ new.passed = st.passed /\ new \in States(bs)
    BY <1>8, <2>3, <2>4 DEF States
  <2>6. ASSUME NEW b \in 1 .. Len(bs), NEW j \in 1 .. Len(bs[b].instrs)
        PROVE  /\ st.types[b][j] = "int" => new.types[b][j] = "int"
               /\ new.types[b][j] = "int" => \/ st.types[b][j] = "int"
                                             \/ b = to /\ j = i
    BY <2>3, <2>5
  <2>7. Learned(bs, st, new, from)
    BY <1>1, <1>13, <2>5, <2>6 DEF Learned
  <2>8. Good(new, v)
    <3>1. new.types[from][k] = "int"
      BY <1>5, <1>7, <2>1, <2>6
    <3>2. QED
      BY <1>5, <3>1 DEF Good
  <2>9. QED
    BY <1>1, <1>2, <1>10, <2>7, <2>8
<1>14. QED
  BY <1>11, <1>12, <1>13

\* The parameters are the first instructions of a block.
LEMMA ParametersComeFirst ==
  ASSUME NEW x \in BlockType
  PROVE  /\ Cardinality(Params(x)) \in Nat
         /\ Params(x) = 1 .. Cardinality(Params(x))
<1>1. PICK len \in Nat : len = Len(x.instrs) /\ DOMAIN x.instrs = 1 .. len
  BY BlockFields DEF FieldsTyped
<1>2. Params(x) = {i \in 1 .. len : \A j \in 1 .. i : x.instrs[j].id = "PARAM"}
  BY <1>1 DEF Params
<1>. DEFINE S == (1 .. len + 1) \ Params(x)
<1>3. S \in SUBSET Nat /\ S # {}
  BY <1>2
<1>4. PICK m \in S : \A n \in S : m <= n
  <2>. HIDE DEF S
  <2>1. QED
    BY <1>3, LeastNumber
<1>5. m \in 1 .. len + 1 /\ m \notin Params(x)
  OBVIOUS
<1>6. \A i \in 1 .. m - 1 : i \in Params(x)
  <2>1. TAKE i \in 1 .. m - 1
  <2>2. i \in 1 .. len + 1 /\ ~(m <= i)
    BY <1>5
  <2>3. QED
    BY <1>4, <2>2
<1>7. ASSUME NEW i \in Params(x), i \notin 1 .. m - 1 PROVE FALSE
  BY <1>2, <1>5, <1>7
<1>8. Params(x) = 1 .. m - 1
  BY <1>6, <1>7
<1>9. Cardinality(1 .. m - 1) = m - 1 /\ m - 1 \in Nat
  BY <1>5, FS_Interval
<1>10. QED
  BY <1>8, <1>9

\* The arguments on an edge for the parameters in use are integers if they may.
ArgumentsGood(blocks, st, p, t) ==
  \A i \in Enabled(blocks[t]) :
    blocks[t].instrs[i].refs # 0 => Good(st, ArgumentFor(blocks, p, t, i))

LEMMA JoinAllLearns ==
  ASSUME NEW from \in 1 .. Len(ir.blocks), NEW to \in TargetsOf(ir.blocks[from].term),
         ir.blocks \in Seq(BlockType), BlockSound(from, ir.blocks[from]),
         EdgeSound(ir.blocks, from, to), NEW st \in States(ir.blocks)
  PROVE  /\ Learned(ir.blocks, st, JoinAll(st, to, from), from)
         /\ ArgumentsGood(ir.blocks, JoinAll(st, to, from), from, to)
<1>. DEFINE bs == ir.blocks
            n == Cardinality(Params(bs[to]))
            V == States(bs)
            Taken(s, i) == IF i \in Enabled(bs[to]) THEN Join(s, to, from, i) ELSE s
            Def(f) == [i \in 0 .. n |-> IF i = 0 THEN st
                                        ELSE IF i \in Enabled(bs[to])
                                        THEN Join(f[i - 1], to, from, i)
                                        ELSE f[i - 1]]
            joined == CHOOSE f : f = Def(f)
            Passes(s, i) == bs[to].instrs[i].refs # 0 => Good(s, ArgumentFor(bs, from, to, i))
<1>1. JoinAll(st, to, from) = joined[n]
  BY DEF JoinAll
<1>2. n \in Nat /\ Enabled(bs[to]) \subseteq 1 .. n
  <2>1. bs[to] \in BlockType
    BY DEF EdgeSound
  <2>2. n \in Nat /\ Params(bs[to]) = 1 .. n
    BY <2>1, ParametersComeFirst
  <2>3. QED
    BY <2>2 DEF Enabled
<1>3. ASSUME NEW s \in V, NEW i \in 1 .. n
      PROVE  /\ Learned(bs, s, Taken(s, i), from)
             /\ i \in Enabled(bs[to]) => Passes(Taken(s, i), i)
  BY JoinLearns, LearnedNothing
<1>4. ASSUME NEW f, NEW i \in 1 .. n PROVE Def(f)[i] = Taken(f[i - 1], i) /\ Def(f)[0] = st
  BY <1>2
<1>. HIDE DEF n
<1>5. \E f : f = Def(f)
  <2>1. PICK step : step = [i \in 1 .. n |-> [s \in V |-> Taken(s, i)]]
    OBVIOUS
  <2>2. \A s \in V : \A i \in 1 .. n : Taken(s, i) \in V
    BY <1>3 DEF Learned
  <2>3. step \in [1 .. n -> [V -> V]] /\ \A i \in 1 .. n : \A s \in V : step[i][s] = Taken(s, i)
    <3>. HIDE DEF V, Taken
    <3>1. QED
      BY <2>1, <2>2
  <2>4. PICK f \in [0 .. n -> V] : f[0] = st /\ \A i \in 1 .. n : f[i] = step[i][f[i - 1]]
    <3>. HIDE DEF V
    <3>1. st \in V
      BY DEF V
    <3>2. Iterated(n, V, st, step)
      BY <1>2, <2>3, <3>1, Iterates
    <3>3. QED
      BY <3>2 DEF Iterated
  <2>5. ASSUME NEW i \in 0 .. n PROVE f[i] = Def(f)[i]
    <3>1. CASE i = 0
      BY <2>4, <3>1, <1>2
    <3>2. CASE i # 0
      BY <1>2, <1>4, <2>3, <2>4, <3>2
    <3>3. QED
      BY <3>1, <3>2
  <2>6. f = [i \in 0 .. n |-> Def(f)[i]]
    <3>. HIDE DEF V, Def
    <3>1. QED
      BY <2>4, <2>5
  <2>7. Def(f) = [i \in 0 .. n |-> Def(f)[i]]
    OBVIOUS
  <2>8. QED
    <3>. HIDE DEF Def
    <3>1. QED
      BY <2>6, <2>7
<1>6. joined = Def(joined)
  <2>. HIDE DEF Def
  <2>1. QED
    BY <1>5
<1>. HIDE DEF joined
<1>7. joined[0] = st /\ \A i \in 1 .. n : joined[i] = Taken(joined[i - 1], i)
  BY <1>2, <1>4, <1>6
<1>. HIDE DEF Def, Taken, V, Passes, bs
<1>. DEFINE T == {i \in Nat : i <= n => /\ Learned(bs, st, joined[i], from)
                                        /\ \A k \in Enabled(bs[to]) : k <= i => Passes(joined[i], k)}
<1>8. 0 \in T
  BY <1>2, <1>7, LearnedNothing DEF bs
<1>9. ASSUME NEW i \in Nat, i \in T PROVE i + 1 \in T
  <2>1. SUFFICES ASSUME i + 1 <= n
                 PROVE  /\ Learned(bs, st, joined[i + 1], from)
                        /\ \A k \in Enabled(bs[to]) : k <= i + 1 => Passes(joined[i + 1], k)
    OBVIOUS
  <2>2. i <= n /\ i + 1 \in 1 .. n /\ (i + 1) - 1 = i
    BY <2>1, <1>2
  <2>3. /\ Learned(bs, st, joined[i], from)
        /\ \A k \in Enabled(bs[to]) : k <= i => Passes(joined[i], k)
    BY <1>9, <2>2
  <2>4. joined[i] \in V
    BY <2>3 DEF Learned, V
  <2>5. joined[i + 1] = Taken(joined[i], i + 1)
    BY <1>7, <2>2
  <2>6. /\ Learned(bs, joined[i], joined[i + 1], from)
        /\ i + 1 \in Enabled(bs[to]) => Passes(joined[i + 1], i + 1)
    BY <1>3, <2>2, <2>4, <2>5
  <2>7. Learned(bs, st, joined[i + 1], from)
    BY <2>3, <2>6, LearnedTwice
  <2>8. ASSUME NEW k \in Enabled(bs[to]), k <= i PROVE Passes(joined[i + 1], k)
    BY <2>3, <2>6, <2>8, ArgumentIs, GoodStays DEF bs, Passes
  <2>9. ASSUME NEW k \in Enabled(bs[to]), k <= i + 1 PROVE Passes(joined[i + 1], k)
    BY <1>2, <2>6, <2>8, <2>9
  <2>10. QED
    BY <2>7, <2>9
<1>10. Nat \subseteq T
  <2>. HIDE DEF T
  <2>1. QED
    BY <1>8, <1>9, NumbersByInduction
<1>11. /\ Learned(bs, st, joined[n], from)
       /\ \A k \in Enabled(bs[to]) : k <= n => Passes(joined[n], k)
  BY <1>2, <1>10
<1>12. \A k \in Enabled(bs[to]) : k <= n
  BY <1>2
<1>13. QED
  BY <1>1, <1>11, <1>12 DEF ArgumentsGood, Passes, bs

LEMMA ArgumentsStay ==
  ASSUME NEW blocks \in Seq(BlockType), NEW p \in 1 .. Len(blocks), BlockSound(p, blocks[p]),
         NEW t, EdgeSound(blocks, p, t), NEW st, NEW new, NEW from,
         Learned(blocks, st, new, from), ArgumentsGood(blocks, st, p, t)
  PROVE  ArgumentsGood(blocks, new, p, t)
<1>1. ASSUME NEW i \in Enabled(blocks[t]), blocks[t].instrs[i].refs # 0
      PROVE  Good(new, ArgumentFor(blocks, p, t, i))
  BY <1>1, ArgumentIs, GoodStays DEF ArgumentsGood
<1>2. QED
  BY <1>1 DEF ArgumentsGood

LEMMA JoinTargetsLearns ==
  ASSUME NEW b \in 1 .. Len(ir.blocks), ir.blocks \in Seq(BlockType), BlockSound(b, ir.blocks[b]),
         \A t \in TargetsOf(ir.blocks[b].term) : EdgeSound(ir.blocks, b, t),
         NEW st \in States(ir.blocks)
  PROVE  /\ Learned(ir.blocks, st, JoinTargets(st, b), b)
         /\ \A t \in TargetsOf(ir.blocks[b].term) :
              ArgumentsGood(ir.blocks, JoinTargets(st, b), b, t)
<1>. DEFINE bs == ir.blocks
            ts == bs[b].term.targets
            n == Len(ts)
            V == States(bs)
            Def(f) == [i \in 0 .. n |-> IF i = 0 THEN st ELSE JoinAll(f[i - 1], ts[i], b)]
            joined == CHOOSE f : f = Def(f)
<1>1. JoinTargets(st, b) = joined[n]
  BY DEF JoinTargets
<1>2. n \in Nat /\ \A i \in 1 .. n : ts[i] \in TargetsOf(bs[b].term)
  <2>1. bs[b] \in BlockType
    OBVIOUS
  <2>2. n \in Nat
    BY <2>1, BlockFields DEF FieldsTyped
  <2>3. QED
    BY <2>2 DEF TargetsOf
<1>3. TargetsOf(bs[b].term) = {ts[i] : i \in 1 .. n}
  BY DEF TargetsOf
<1>4. ASSUME NEW s \in V, NEW i \in 1 .. n
      PROVE  /\ Learned(bs, s, JoinAll(s, ts[i], b), b)
             /\ ArgumentsGood(bs, JoinAll(s, ts[i], b), b, ts[i])
  BY <1>2, JoinAllLearns
<1>5. ASSUME NEW f, NEW i \in 1 .. n
      PROVE  Def(f)[i] = JoinAll(f[i - 1], ts[i], b) /\ Def(f)[0] = st
  BY <1>2
<1>. HIDE DEF n
<1>6. \E f : f = Def(f)
  <2>1. PICK step : step = [i \in 1 .. n |-> [s \in V |-> JoinAll(s, ts[i], b)]]
    OBVIOUS
  <2>2. \A s \in V : \A i \in 1 .. n : JoinAll(s, ts[i], b) \in V
    BY <1>4 DEF Learned
  <2>3. /\ step \in [1 .. n -> [V -> V]]
        /\ \A i \in 1 .. n : \A s \in V : step[i][s] = JoinAll(s, ts[i], b)
    <3>. HIDE DEF V, ts
    <3>1. QED
      BY <2>1, <2>2
  <2>4. PICK f \in [0 .. n -> V] : f[0] = st /\ \A i \in 1 .. n : f[i] = step[i][f[i - 1]]
    <3>. HIDE DEF V
    <3>1. st \in V
      BY DEF V
    <3>2. Iterated(n, V, st, step)
      BY <1>2, <2>3, <3>1, Iterates
    <3>3. QED
      BY <3>2 DEF Iterated
  <2>5. ASSUME NEW i \in 0 .. n PROVE f[i] = Def(f)[i]
    <3>1. CASE i = 0
      BY <2>4, <3>1, <1>2
    <3>2. CASE i # 0
      BY <1>2, <1>5, <2>3, <2>4, <3>2
    <3>3. QED
      BY <3>1, <3>2
  <2>6. f = [i \in 0 .. n |-> Def(f)[i]]
    <3>. HIDE DEF V, Def
    <3>1. QED
      BY <2>4, <2>5
  <2>7. Def(f) = [i \in 0 .. n |-> Def(f)[i]]
    OBVIOUS
  <2>8. QED
    <3>. HIDE DEF Def
    <3>1. QED
      BY <2>6, <2>7
<1>7. joined = Def(joined)
  <2>. HIDE DEF Def
  <2>1. QED
    BY <1>6
<1>. HIDE DEF joined
<1>8. joined[0] = st /\ \A i \in 1 .. n : joined[i] = JoinAll(joined[i - 1], ts[i], b)
  BY <1>2, <1>5, <1>7
<1>9. \A i \in 1 .. n : EdgeSound(bs, b, ts[i])
  BY <1>2
<1>. HIDE DEF Def, V, ts, bs
<1>. DEFINE T == {i \in Nat : i <= n =>
                    /\ Learned(bs, st, joined[i], b)
                    /\ \A k \in 1 .. i : ArgumentsGood(bs, joined[i], b, ts[k])}
<1>10. 0 \in T
  BY <1>8, LearnedNothing DEF bs
<1>11. ASSUME NEW i \in Nat, i \in T PROVE i + 1 \in T
  <2>1. SUFFICES ASSUME i + 1 <= n
                 PROVE  /\ Learned(bs, st, joined[i + 1], b)
                        /\ \A k \in 1 .. i + 1 : ArgumentsGood(bs, joined[i + 1], b, ts[k])
    OBVIOUS
  <2>2. i <= n /\ i + 1 \in 1 .. n /\ (i + 1) - 1 = i
    BY <2>1, <1>2
  <2>3. /\ Learned(bs, st, joined[i], b)
        /\ \A k \in 1 .. i : ArgumentsGood(bs, joined[i], b, ts[k])
    BY <1>11, <2>2
  <2>4. joined[i] \in V
    BY <2>3 DEF Learned, V
  <2>5. joined[i + 1] = JoinAll(joined[i], ts[i + 1], b)
    BY <1>8, <2>2
  <2>6. /\ Learned(bs, joined[i], joined[i + 1], b)
        /\ ArgumentsGood(bs, joined[i + 1], b, ts[i + 1])
    BY <1>4, <2>2, <2>4, <2>5
  <2>7. Learned(bs, st, joined[i + 1], b)
    BY <2>3, <2>6, LearnedTwice
  <2>8. ASSUME NEW k \in 1 .. i PROVE ArgumentsGood(bs, joined[i + 1], b, ts[k])
    BY <1>2, <1>9, <2>2, <2>3, <2>6, ArgumentsStay DEF bs
  <2>9. \A k \in 1 .. i + 1 : k \in 1 .. i \/ k = i + 1
    OBVIOUS
  <2>10. QED
    BY <2>6, <2>7, <2>8, <2>9
<1>12. Nat \subseteq T
  <2>. HIDE DEF T
  <2>1. QED
    BY <1>10, <1>11, NumbersByInduction
<1>13. /\ Learned(bs, st, joined[n], b)
       /\ \A k \in 1 .. n : ArgumentsGood(bs, joined[n], b, ts[k])
  BY <1>2, <1>12
<1>14. QED
  BY <1>1, <1>3, <1>13 DEF bs

\* What the instructions of a block are typed as.
TypedBy(blocks, ty, row, b, i) ==
  row[i] =
    IF blocks[b].instrs[i].id \in {"INT", "ADD", "SUB", "CMP"} THEN "int"
    ELSE IF blocks[b].instrs[i].id = "PARAM" THEN ty[b][i]
    ELSE IF blocks[b].instrs[i].id = "SET_LOC" THEN row[blocks[b].instrs[i].ops[2][2]]
    ELSE "unknown"

LEMMA InstructionsAssigned ==
  ASSUME NEW b \in 1 .. Len(ir.blocks), ir.blocks \in Seq(BlockType), BlockSound(b, ir.blocks[b]),
         types \in Typings(ir.blocks)
  PROVE  /\ AssignInstructions(b) \in [1 .. Len(ir.blocks[b].instrs) -> Known]
         /\ \A i \in 1 .. Len(ir.blocks[b].instrs) :
              TypedBy(ir.blocks, types, AssignInstructions(b), b, i)
<1>. DEFINE is == ir.blocks[b].instrs
            Typed(f, i) == IF is[i].id \in {"INT", "ADD", "SUB", "CMP"} THEN "int"
                           ELSE IF is[i].id = "PARAM" THEN types[b][i]
                           ELSE IF is[i].id = "SET_LOC" THEN f[is[i].ops[2][2]]
                           ELSE "unknown"
            Def(f) == [i \in DOMAIN is |->
                         IF is[i].id \in {"INT", "ADD", "SUB", "CMP"} THEN "int"
                         ELSE IF is[i].id = "PARAM" THEN types[b][i]
                         ELSE IF is[i].id = "SET_LOC" THEN f[is[i].ops[2][2]]
                         ELSE "unknown"]
            assigned == CHOOSE f : f = Def(f)
<1>1. AssignInstructions(b) = assigned
  BY DEF AssignInstructions
<1>2. PICK len \in Nat : len = Len(is) /\ DOMAIN is = 1 .. len
  BY BlockFields DEF FieldsTyped
<1>3. ASSUME NEW i \in 1 .. len, is[i].id = "SET_LOC" PROVE is[i].ops[2][2] \in 1 .. i - 1
  <2>1. Len(is[i].ops) = 2
    BY <1>2, <1>3 DEF BlockSound, Assignments
  <2>2. 2 \in 1 .. Len(is[i].ops)
    BY <2>1
  <2>3. Defined(b, is[i].ops[2], i - 1)
    BY <1>2, <1>3, <2>2 DEF BlockSound, LocalBlock
  <2>4. QED
    BY <2>3 DEF Defined
<1>4. \A i \in 1 .. len : types[b][i] \in Known
  BY <1>2 DEF Typings
<1>5. ASSUME NEW f, NEW i \in 1 .. len PROVE Def(f)[i] = Typed(f, i)
  BY <1>2
<1>6. \E f \in [1 .. len -> Known] : f = Def(f)
  <2>. DEFINE F == [1 .. len -> Known]
              next == [g \in F |-> Def(g)]
  <2>1. ASSUME NEW g \in F PROVE Def(g) \in F
    <3>1. ASSUME NEW i \in 1 .. len PROVE Typed(g, i) \in Known
      <4>1. is[i].id = "SET_LOC" => g[is[i].ops[2][2]] \in Known
        BY <1>3, SMTT(20)
      <4>2. QED
        BY <1>4, <4>1 DEF Known
    <3>2. Def(g) = [i \in DOMAIN is |-> Typed(g, i)]
      OBVIOUS
    <3>. HIDE DEF Def, Typed, is
    <3>3. QED
      BY <1>2, <3>1, <3>2
  <2>2. ASSUME NEW g \in F, NEW h \in F, NEW i \in 1 .. len, \A j \in 1 .. i - 1 : g[j] = h[j]
        PROVE  Def(g)[i] = Def(h)[i]
    <3>1. is[i].id = "SET_LOC" => g[is[i].ops[2][2]] = h[is[i].ops[2][2]]
      BY <1>3, <2>2
    <3>2. Typed(g, i) = Typed(h, i)
      BY <3>1
    <3>. HIDE DEF Def
    <3>3. QED
      BY <1>5, <3>2
  <2>. HIDE DEF Def
  <2>3. next \in [F -> F] /\ \A g \in F : next[g] = Def(g)
    BY <2>1
  <2>. HIDE DEF next
  <2>4. Causal(next, len, Known)
    <3>1. ASSUME NEW g \in F, NEW h \in F, NEW i \in 1 .. len, \A j \in 1 .. i - 1 : g[j] = h[j]
          PROVE  next[g][i] = next[h][i]
      BY <2>2, <2>3, <3>1
    <3>2. QED
      BY <3>1 DEF Causal
  <2>5. PICK G : G = F
    OBVIOUS
  <2>6. G = [1 .. len -> Known] /\ next \in [G -> G] /\ "int" \in Known
    BY <2>3, <2>5 DEF Known
  <2>7. Fixpoint(G, next)
    BY <2>4, <2>6, CausalFixpoint
  <2>8. QED
    BY <2>3, <2>5, <2>7 DEF Fixpoint
<1>7. assigned = Def(assigned)
  <2>. HIDE DEF Def
  <2>1. QED
    BY <1>6
<1>. HIDE DEF assigned
<1>8. \A i \in 1 .. len : assigned[i] = Typed(assigned, i)
  <2>. HIDE DEF Typed
  <2>1. QED
    BY <1>5, <1>7
<1>9. assigned = [i \in 1 .. len |-> assigned[i]]
  <2>1. assigned = [i \in 1 .. len |-> Def(assigned)[i]]
    BY <1>2, <1>7
  <2>. HIDE DEF Def
  <2>2. QED
    BY <1>7, <2>1
<1>. DEFINE T == {i \in 1 .. len : assigned[i] \in Known}
<1>10. 1 .. len \subseteq T
  <2>1. ASSUME NEW i \in 1 .. len, \A j \in 1 .. len : j < i => j \in T PROVE i \in T
    <3>1. is[i].id = "SET_LOC" => assigned[is[i].ops[2][2]] \in Known
      <4>1. SUFFICES ASSUME is[i].id = "SET_LOC" PROVE assigned[is[i].ops[2][2]] \in Known
        OBVIOUS
      <4>2. is[i].ops[2][2] \in 1 .. len /\ is[i].ops[2][2] < i
        BY <1>3, <4>1, SMTT(20)
      <4>3. QED
        BY <2>1, <4>2
    <3>2. Typed(assigned, i) \in Known
      BY <1>4, <3>1 DEF Known
    <3>3. QED
      BY <1>8, <3>2
  <2>. HIDE DEF T
  <2>2. Inherited(1 .. len, T)
    BY <2>1 DEF Inherited
  <2>3. QED
    BY <2>2, StrongInduction
<1>11. assigned \in [1 .. len -> Known]
  BY <1>9, <1>10
<1>12. QED
  BY <1>1, <1>2, <1>8, <1>11 DEF TypedBy

\* A parameter whose type comes from the blocks that branch to its own.
InUse(blocks, b, i) == b # 1 /\ i \in Enabled(blocks[b]) /\ blocks[b].instrs[i].refs # 0

\* Why a value may be typed as an integer.
Founded(blocks, st, b, i) ==
  \/ <<b, i>> \in st.passed
  \/ blocks[b].instrs[i].id \in {"INT", "ADD", "SUB", "CMP"}
  \/ blocks[b].instrs[i].id = "SET_LOC" /\ Good(st, blocks[b].instrs[i].ops[2])
  \/ InUse(blocks, b, i)

\* The blocks S have been visited.  In the others only parameters have types.
TypedSoFar(blocks, st, S) ==
  /\ st \in States(blocks)
  /\ \A b \in 1 .. Len(blocks) : \A i \in 1 .. Len(blocks[b].instrs) :
       st.types[b][i] = "int" =>
         IF b \in S THEN Founded(blocks, st, b, i) ELSE InUse(blocks, b, i)
  /\ \A p \in S : \A t \in TargetsOf(blocks[p].term) : ArgumentsGood(blocks, st, p, t)

LEMMA SoundEdge ==
  ASSUME NEW g, NEW W, Sound(g, W, {}), NEW r, Ranked(g, r),
         NEW p \in 1 .. Len(g.blocks), NEW t \in TargetsOf(g.blocks[p].term)
  PROVE  EdgeSound(g.blocks, p, t) /\ t # 1
<1>1. EdgeSound(g.blocks, p, t)
  BY DEF Sound, EdgesSound, TargetsOf
<1>2. t \in 1 .. Len(g.blocks) /\ g.blocks[t].has_vars
  BY <1>1 DEF EdgeSound
<1>3. PICK q \in 1 .. Len(g.blocks) : r[q] < r[t]
  BY <1>2 DEF Ranked, FromAhead
<1>4. r[q] \in 1 .. Len(g.blocks) /\ r[1] = 1
  BY <1>3 DEF Ranked, Positions
<1>5. QED
  BY <1>1, <1>3, <1>4

\* What an assignment takes its type from is a value in front of it.
LEMMA AssignedFrom ==
  ASSUME NEW blocks \in Seq(BlockType), NEW b \in 1 .. Len(blocks), BlockSound(b, blocks[b]),
         NEW i \in 1 .. Len(blocks[b].instrs), blocks[b].instrs[i].id = "SET_LOC"
  PROVE  /\ blocks[b].instrs[i].ops[2] = <<b, blocks[b].instrs[i].ops[2][2]>>
         /\ blocks[b].instrs[i].ops[2][2] \in 1 .. Len(blocks[b].instrs)
         /\ IsValue(blocks, blocks[b].instrs[i].ops[2])
<1>1. PICK x \in BlockType : x = blocks[b]
  OBVIOUS
<1>2. x.instrs \in Seq(InstrType) /\ Len(x.instrs) \in Nat
  BY BlockFields DEF FieldsTyped
<1>3. PICK instr \in InstrType : instr = x.instrs[i]
  BY <1>1, <1>2
<1>4. Len(instr.ops) = 2 /\ instr.ops \in Seq(Value)
  BY <1>1, <1>3 DEF BlockSound, Assignments, InstrType
<1>5. 2 \in 1 .. Len(instr.ops)
  BY <1>4
<1>6. instr.ops[2] \in Value
  BY <1>4, <1>5
<1>7. Defined(b, instr.ops[2], i - 1)
  BY <1>1, <1>3, <1>5 DEF BlockSound, LocalBlock
<1>8. instr.ops[2] = <<b, instr.ops[2][2]>> /\ instr.ops[2][2] \in 1 .. Len(x.instrs)
  BY <1>1, <1>2, <1>6, <1>7 DEF Defined, Value
<1>9. QED
  BY <1>1, <1>3, <1>8 DEF IsValue

LEMMA FoundedStays ==
  ASSUME NEW blocks \in Seq(BlockType), NEW b \in 1 .. Len(blocks), BlockSound(b, blocks[b]),
         NEW i \in 1 .. Len(blocks[b].instrs), NEW st, NEW new, NEW from,
         Learned(blocks, st, new, from), Founded(blocks, st, b, i)
  PROVE  Founded(blocks, new, b, i)
<1>1. st.passed \subseteq new.passed
  BY DEF Learned
<1>2. CASE blocks[b].instrs[i].id = "SET_LOC" /\ Good(st, blocks[b].instrs[i].ops[2])
  <2>1. IsValue(blocks, blocks[b].instrs[i].ops[2])
    BY <1>2, AssignedFrom
  <2>2. Good(new, blocks[b].instrs[i].ops[2])
    BY <1>2, <2>1, GoodStays
  <2>3. QED
    BY <1>2, <2>2 DEF Founded
<1>3. QED
  BY <1>1, <1>2 DEF Founded

\* The instructions of block c are typed: only its own row of the types is new.
LEMMA RowTyped ==
  ASSUME NEW blocks \in Seq(BlockType), NEW c \in 1 .. Len(blocks), NEW S, c \notin S,
         S \subseteq 1 .. Len(blocks),
         \A b \in 1 .. Len(blocks) : BlockSound(b, blocks[b]),
         \A p \in 1 .. Len(blocks) : \A t \in TargetsOf(blocks[p].term) : EdgeSound(blocks, p, t),
         NEW st, TypedSoFar(blocks, st, S),
         NEW row \in [1 .. Len(blocks[c].instrs) -> Known],
         \A i \in 1 .. Len(blocks[c].instrs) : TypedBy(blocks, st.types, row, c, i),
         NEW mid, mid = [types |-> [st.types EXCEPT ![c] = row], passed |-> st.passed]
  PROVE  /\ mid \in States(blocks)
         /\ \A b \in 1 .. Len(blocks) : \A i \in 1 .. Len(blocks[b].instrs) :
              mid.types[b][i] = "int" =>
                IF b \in S \cup {c} THEN Founded(blocks, mid, b, i) ELSE InUse(blocks, b, i)
         /\ \A p \in S : \A t \in TargetsOf(blocks[p].term) : ArgumentsGood(blocks, mid, p, t)
<1>1. st \in States(blocks) /\ st.types \in Typings(blocks) /\ st.passed \in SUBSET Value
  BY StateFields DEF TypedSoFar
<1>2. PICK ty : ty = [st.types EXCEPT ![c] = row]
  OBVIOUS
<1>3. mid = [types |-> ty, passed |-> st.passed] /\ mid.types = ty /\ mid.passed = st.passed
  BY <1>2
<1>4. /\ ty \in Typings(blocks) /\ ty[c] = row
      /\ \A b \in 1 .. Len(blocks) : b # c => ty[b] = st.types[b]
  BY <1>1, <1>2, RowSet
<1>5. mid \in States(blocks)
  BY <1>1, <1>3, <1>4 DEF States
<1>6. ASSUME NEW b \in 1 .. Len(blocks), b # c, NEW k, Good(st, <<b, k>>)
      PROVE  Good(mid, <<b, k>>)
  BY <1>3, <1>4, <1>6 DEF Good
<1>7. ASSUME NEW b \in 1 .. Len(blocks), NEW i \in 1 .. Len(blocks[b].instrs),
             mid.types[b][i] = "int"
      PROVE  IF b \in S \cup {c} THEN Founded(blocks, mid, b, i) ELSE InUse(blocks, b, i)
  <2>1. CASE b # c
    <3>1. IF b \in S THEN Founded(blocks, st, b, i) ELSE InUse(blocks, b, i)
      BY <1>3, <1>4, <1>7, <2>1 DEF TypedSoFar
    <3>2. CASE b \in S
      <4>1. Founded(blocks, st, b, i)
        BY <3>1, <3>2
      <4>2. CASE blocks[b].instrs[i].id = "SET_LOC" /\ Good(st, blocks[b].instrs[i].ops[2])
        <5>1. PICK k : blocks[b].instrs[i].ops[2] = <<b, k>>
          BY <4>2, AssignedFrom, SMTT(20)
        <5>2. Good(mid, <<b, k>>)
          BY <1>6, <2>1, <4>2, <5>1
        <5>3. QED
          BY <3>2, <4>2, <5>1, <5>2 DEF Founded
      <4>3. QED
        BY <1>3, <3>2, <4>1, <4>2 DEF Founded
    <3>3. QED
      BY <2>1, <3>1, <3>2
  <2>2. CASE b = c
    <3>1. row[i] = "int" /\ TypedBy(blocks, st.types, row, c, i)
      BY <1>3, <1>4, <1>7, <2>2
    <3>2. CASE blocks[c].instrs[i].id = "PARAM"
      <4>1. st.types[c][i] = "int"
        BY <3>1, <3>2 DEF TypedBy
      <4>2. InUse(blocks, c, i)
        BY <2>2, <4>1 DEF TypedSoFar
      <4>3. QED
        BY <2>2, <4>2 DEF Founded
    <3>3. CASE blocks[c].instrs[i].id = "SET_LOC"
      <4>1. row[blocks[c].instrs[i].ops[2][2]] = "int"
        BY <3>1, <3>3 DEF TypedBy
      <4>2. PICK k : k = blocks[c].instrs[i].ops[2][2] /\ blocks[c].instrs[i].ops[2] = <<c, k>>
        BY <2>2, <3>3, AssignedFrom
      <4>3. Good(mid, <<c, k>>)
        BY <1>3, <1>4, <4>1, <4>2 DEF Good
      <4>4. QED
        BY <2>2, <3>3, <4>2, <4>3 DEF Founded
    <3>4. CASE blocks[c].instrs[i].id \in {"INT", "ADD", "SUB", "CMP"}
      BY <2>2, <3>4 DEF Founded
    <3>5. QED
      BY <3>1, <3>2, <3>3, <3>4 DEF TypedBy
  <2>3. QED
    BY <2>1, <2>2
<1>8. ASSUME NEW p \in S, NEW t \in TargetsOf(blocks[p].term) PROVE ArgumentsGood(blocks, mid, p, t)
  <2>1. p \in 1 .. Len(blocks) /\ p # c /\ EdgeSound(blocks, p, t) /\ BlockSound(p, blocks[p])
    OBVIOUS
  <2>2. ASSUME NEW i \in Enabled(blocks[t]), blocks[t].instrs[i].refs # 0
        PROVE  Good(mid, ArgumentFor(blocks, p, t, i))
    <3>1. Good(st, ArgumentFor(blocks, p, t, i))
      BY <2>2 DEF TypedSoFar, ArgumentsGood
    <3>2. PICK k \in 1 .. Len(blocks[p].instrs) : ArgumentFor(blocks, p, t, i) = <<p, k>>
      BY <2>1, ArgumentIs
    <3>3. QED
      BY <1>6, <2>1, <3>1, <3>2
  <2>3. QED
    BY <2>2 DEF ArgumentsGood
<1>9. QED
  BY <1>5, <1>7, <1>8

TypesNow == [types |-> types, passed |-> passed]

LEMMA VisitTypes ==
  ASSUME NEW r, Resting(ir, frames, r), at \in 1 .. Len(ir.blocks),
         NEW S, S \subseteq 1 .. Len(ir.blocks), at \notin S,
         TypedSoFar(ir.blocks, TypesNow, S),
         NEW mid, mid = [types |-> [types EXCEPT ![at] = AssignInstructions(at)], passed |-> passed]
  PROVE  TypedSoFar(ir.blocks, JoinTargets(mid, at), S \cup {at})
<1>1. PICK bs \in Seq(BlockType) :
        /\ bs = ir.blocks
        /\ \A b \in 1 .. Len(bs) : BlockSound(b, bs[b])
        /\ \A p \in 1 .. Len(bs) : \A t \in TargetsOf(bs[p].term) : EdgeSound(bs, p, t) /\ t # 1
  <2>1. Sound(ir, WaitingIn(frames), {}) /\ Ranked(ir, r)
    BY DEF Resting, Laid
  <2>2. ir.blocks \in Seq(BlockType) /\ \A b \in 1 .. Len(ir.blocks) : BlockSound(b, ir.blocks[b])
    BY <2>1, FieldsOfIR DEF Sound, IRFields
  <2>3. QED
    BY <2>1, <2>2, SoundEdge
<1>2. /\ TypesNow.types = types /\ TypesNow.passed = passed
      /\ TypesNow \in States(bs) /\ types \in Typings(bs)
  BY <1>1, StateFields DEF TypesNow, TypedSoFar
<1>3. PICK c \in 1 .. Len(bs) : c = at
  BY <1>1
<1>4. PICK row : row = AssignInstructions(at)
  OBVIOUS
<1>5. /\ row \in [1 .. Len(bs[c].instrs) -> Known]
      /\ \A i \in 1 .. Len(bs[c].instrs) : TypedBy(bs, TypesNow.types, row, c, i)
  BY <1>1, <1>2, <1>3, <1>4, InstructionsAssigned
<1>6. mid = [types |-> [TypesNow.types EXCEPT ![c] = row], passed |-> TypesNow.passed]
  BY <1>2, <1>3, <1>4
<1>7. /\ mid \in States(bs)
      /\ \A b \in 1 .. Len(bs) : \A i \in 1 .. Len(bs[b].instrs) :
           mid.types[b][i] = "int" =>
             IF b \in S \cup {c} THEN Founded(bs, mid, b, i) ELSE InUse(bs, b, i)
      /\ \A p \in S : \A t \in TargetsOf(bs[p].term) : ArgumentsGood(bs, mid, p, t)
  <2>1. c \notin S /\ S \subseteq 1 .. Len(bs) /\ TypedSoFar(bs, TypesNow, S)
    BY <1>1, <1>3
  <2>2. \A p \in 1 .. Len(bs) : \A t \in TargetsOf(bs[p].term) : EdgeSound(bs, p, t)
    BY <1>1
  <2>3. \A b \in 1 .. Len(bs) : BlockSound(b, bs[b])
    BY <1>1
  <2>. HIDE DEF TypesNow
  <2>4. QED
    BY <1>5, <1>6, <2>1, <2>2, <2>3, RowTyped
<1>8. PICK new : new = JoinTargets(mid, at)
  OBVIOUS
<1>9. /\ Learned(bs, mid, new, c)
      /\ \A t \in TargetsOf(bs[c].term) : ArgumentsGood(bs, new, c, t)
  BY <1>1, <1>3, <1>7, <1>8, JoinTargetsLearns
<1>10. ASSUME NEW b \in 1 .. Len(bs), NEW i \in 1 .. Len(bs[b].instrs), new.types[b][i] = "int"
       PROVE  IF b \in S \cup {c} THEN Founded(bs, new, b, i) ELSE InUse(bs, b, i)
  <2>1. \/ mid.types[b][i] = "int"
        \/ b = c /\ <<b, i>> \in new.passed
        \/ b \in TargetsOf(bs[c].term) /\ i \in Enabled(bs[b]) /\ bs[b].instrs[i].refs # 0
    BY <1>9, <1>10 DEF Learned
  <2>2. CASE mid.types[b][i] = "int"
    <3>1. IF b \in S \cup {c} THEN Founded(bs, mid, b, i) ELSE InUse(bs, b, i)
      BY <1>7, <2>2
    <3>2. BlockSound(b, bs[b])
      BY <1>1
    <3>3. Founded(bs, mid, b, i) => Founded(bs, new, b, i)
      BY <1>9, <3>2, FoundedStays
    <3>4. QED
      BY <3>1, <3>3
  <2>3. CASE b = c /\ <<b, i>> \in new.passed
    BY <2>3 DEF Founded
  <2>4. CASE b \in TargetsOf(bs[c].term) /\ i \in Enabled(bs[b]) /\ bs[b].instrs[i].refs # 0
    BY <1>1, <2>4 DEF InUse, Founded
  <2>5. QED
    BY <2>1, <2>2, <2>3, <2>4
<1>11. ASSUME NEW p \in S \cup {c}, NEW t \in TargetsOf(bs[p].term)
       PROVE  ArgumentsGood(bs, new, p, t)
  <2>1. CASE p = c
    BY <1>9, <2>1
  <2>2. CASE p # c
    BY <1>1, <1>7, <1>9, <2>2, ArgumentsStay
  <2>3. QED
    BY <2>1, <2>2
<1>12. new \in States(bs)
  BY <1>9 DEF Learned
<1>13. TypedSoFar(bs, new, S \cup {c})
  BY <1>10, <1>11, <1>12 DEF TypedSoFar
<1>14. QED
  BY <1>1, <1>3, <1>8, <1>13

\* The blocks in front of n, or all of them.
Visited(blocks, r, n) == {b \in 1 .. Len(blocks) : n = 0 \/ r[b] < r[n]}

\* When all blocks have been visited, whatever the counts become.
Closed(blocks, st) ==
  /\ st \in States(blocks)
  /\ \A b \in 1 .. Len(blocks) : \A i \in 1 .. Len(blocks[b].instrs) :
       st.types[b][i] = "int" =>
         \/ <<b, i>> \in st.passed
         \/ blocks[b].instrs[i].id \in {"INT", "ADD", "SUB", "CMP"}
         \/ blocks[b].instrs[i].id = "SET_LOC" /\ Good(st, blocks[b].instrs[i].ops[2])
         \/ /\ b # 1 /\ i \in Enabled(blocks[b])
            /\ \A p \in 1 .. Len(blocks) :
                 b \in TargetsOf(blocks[p].term) => Good(st, ArgumentFor(blocks, p, b, i))

TypesInv ==
  /\ pass = "parse" => passed = {}
  /\ pass = "types" /\ status = "done" =>
       \E r : /\ Resting(ir, frames, r)
              /\ TypedSoFar(ir.blocks, TypesNow, Visited(ir.blocks, r, at))
  /\ pass \in {"params", "done"} => Closed(ir.blocks, TypesNow)

LEMMA ParseTypes ==
  ASSUME OptInv, TypesInv, Parse
  PROVE  TypesInv'
<1>1. pass' = "parse" /\ passed' = passed /\ pass = "parse"
  BY OnlyWhileParsing DEF Parse, OptInv, PassInv
<1>2. QED
  BY <1>1 DEF TypesInv

LEMMA OptimizeFunctionTypes ==
  ASSUME OptInv, TypesInv, OptimizeFunction
  PROVE  TypesInv'
<1>1. /\ status = "done" /\ pass = "parse" /\ pass' = "types" /\ at' = 1
      /\ types' = Unassigned /\ passed' = {} /\ ir' = ir /\ frames' = frames
  BY DEF OptimizeFunction, TypesInv, vars
<1>2. PICK r : Resting(ir, frames, r)
  BY <1>1 DEF OptInv, ParserInv
<1>3. /\ ir.blocks \in Seq(BlockType) /\ DOMAIN ir.blocks = 1 .. Len(ir.blocks)
      /\ Ranked(ir, r)
  BY <1>2, FieldsOfIR DEF Resting, Laid, Sound, IRFields
<1>4. ASSUME NEW b \in 1 .. Len(ir.blocks)
      PROVE  DOMAIN ir.blocks[b].instrs = 1 .. Len(ir.blocks[b].instrs)
  BY <1>3, BlockFields DEF FieldsTyped
<1>. DEFINE Row(b) == [i \in DOMAIN ir.blocks[b].instrs |-> "unknown"]
            all == UNION {[1 .. Len(ir.blocks[b].instrs) -> Known] : b \in 1 .. Len(ir.blocks)}
<1>5. \A b \in 1 .. Len(ir.blocks) : /\ Row(b) \in [1 .. Len(ir.blocks[b].instrs) -> Known]
                                     /\ \A i \in 1 .. Len(ir.blocks[b].instrs) :
                                          Row(b)[i] = "unknown"
  BY <1>4 DEF Known
<1>6. types' = [b \in DOMAIN ir.blocks |-> Row(b)]
  BY <1>1 DEF Unassigned
<1>7. \A b \in 1 .. Len(ir.blocks) : Row(b) \in all
  BY <1>5
<1>. HIDE DEF Row
<1>8. types' \in [1 .. Len(ir.blocks) -> all] /\ \A b \in 1 .. Len(ir.blocks) : types'[b] = Row(b)
  <2>. HIDE DEF all
  <2>1. QED
    BY <1>3, <1>6, <1>7
<1>9. types' \in Typings(ir.blocks)
  BY <1>5, <1>8 DEF Typings
<1>. HIDE DEF all
<1>10. PICK st : st = TypesNow'
  OBVIOUS
<1>11. st = [types |-> types', passed |-> {}]
  BY <1>1, <1>10 DEF TypesNow
<1>12. st \in States(ir.blocks) /\ st.types = types'
  BY <1>9, <1>11 DEF States
<1>13. Visited(ir.blocks, r, 1) = {}
  <2>1. ASSUME NEW b \in 1 .. Len(ir.blocks) PROVE ~(1 = 0 \/ r[b] < r[1])
    <3>1. r[b] \in 1 .. Len(ir.blocks) /\ r[1] = 1
      BY <1>3 DEF Ranked, Positions
    <3>2. QED
      BY <3>1
  <2>2. QED
    BY <2>1 DEF Visited
<1>14. ASSUME NEW b \in 1 .. Len(ir.blocks), NEW i \in 1 .. Len(ir.blocks[b].instrs)
       PROVE  st.types[b][i] # "int"
  BY <1>5, <1>8, <1>12
<1>15. TypedSoFar(ir.blocks, st, {})
  BY <1>12, <1>14 DEF TypedSoFar
<1>16. TypedSoFar(ir'.blocks, TypesNow', Visited(ir'.blocks, r, at'))
  BY <1>1, <1>10, <1>13, <1>15
<1>17. QED
  BY <1>1, <1>2, <1>16 DEF TypesInv

LEMMA AssignTypesTypes ==
  ASSUME OptInv, TypesInv, AssignTypes
  PROVE  TypesInv'
<1>. DEFINE mid == [types |-> [types EXCEPT ![at] = AssignInstructions(at)], passed |-> passed]
            new == JoinTargets(mid, at)
<1>1. /\ pass = "types" /\ status = "done" /\ at # 0 /\ pass' = "types"
      /\ ir' = ir /\ frames' = frames
      /\ \/ status' = "crash"
         \/ types' = new.types /\ passed' = new.passed /\ at' = ir.blocks[at].next
  BY DEF AssignTypes
<1>2. CASE status' = "crash"
  BY <1>1, <1>2 DEF TypesInv
<1>3. CASE types' = new.types /\ passed' = new.passed /\ at' = ir.blocks[at].next
  <2>1. PICK r : /\ Resting(ir, frames, r)
                 /\ TypedSoFar(ir.blocks, TypesNow, Visited(ir.blocks, r, at))
    BY <1>1 DEF TypesInv
  <2>2. Ranked(ir, r) /\ Len(ir.blocks) \in Nat
    BY <2>1, FieldsOfIR DEF Resting, Laid, Sound, IRFields
  <2>3. at \in 1 .. Len(ir.blocks)
    BY <1>1, <2>2 DEF OptInv, PassInv
  <2>4. PICK S : S = Visited(ir.blocks, r, at)
    OBVIOUS
  <2>5. /\ S \subseteq 1 .. Len(ir.blocks) /\ at \notin S
        /\ \A b \in 1 .. Len(ir.blocks) : r[b] \in 1 .. Len(ir.blocks)
    <3>1. \A b \in 1 .. Len(ir.blocks) : r[b] \in 1 .. Len(ir.blocks)
      BY <2>2 DEF Ranked, Positions
    <3>2. ~(r[at] < r[at])
      BY <2>3, <3>1
    <3>3. QED
      BY <1>1, <2>4, <3>1, <3>2 DEF Visited
  <2>6. PICK was : was = mid
    OBVIOUS
  <2>7. TypedSoFar(ir.blocks, JoinTargets(was, at), S \cup {at})
    BY <2>1, <2>3, <2>4, <2>5, <2>6, VisitTypes
  <2>8. PICK st : st = new
    OBVIOUS
  <2>9. TypedSoFar(ir.blocks, st, S \cup {at})
    BY <2>6, <2>7, <2>8
  <2>10. st = TypesNow'
    BY <1>3, <2>8, <2>9 DEF TypedSoFar, States, TypesNow
  <2>11. Visited(ir.blocks, r, at') = S \cup {at}
    <3>1. /\ IF r[at] = Len(ir.blocks) THEN at' = 0
             ELSE at' \in 1 .. Len(ir.blocks) /\ r[at'] = r[at] + 1
      BY <1>3, <2>2, <2>3 DEF Ranked, Neighbours
    <3>2. ASSUME NEW b \in 1 .. Len(ir.blocks)
          PROVE  (at' = 0 \/ r[b] < r[at']) <=> (r[b] < r[at] \/ b = at)
      <4>1. r[b] = r[at] => b = at
        BY <2>2, <2>3 DEF Ranked, Positions
      <4>2. r[b] \in 1 .. Len(ir.blocks) /\ r[at] \in 1 .. Len(ir.blocks)
        BY <2>3, <2>5
      <4>3. QED
        BY <2>2, <3>1, <4>1, <4>2
    <3>3. \A b \in 1 .. Len(ir.blocks) : b \in S <=> r[b] < r[at]
      BY <1>1, <2>4 DEF Visited
    <3>4. QED
      BY <2>3, <2>5, <3>2, <3>3 DEF Visited
  <2>12. TypedSoFar(ir'.blocks, TypesNow', Visited(ir'.blocks, r, at'))
    BY <1>1, <2>9, <2>10, <2>11
  <2>13. QED
    BY <1>1, <2>1, <2>12 DEF TypesInv
<1>4. QED
  BY <1>1, <1>2, <1>3

LEMMA OptimizeParamsTypes ==
  ASSUME OptInv, TypesInv, OptimizeParams
  PROVE  TypesInv'
<1>1. /\ pass = "types" /\ at = 0 /\ pass' = "params" /\ ir' = ir
      /\ types' = types /\ passed' = passed
  BY DEF OptimizeParams, vars
<1>2. status = "done"
  BY <1>1 DEF OptInv, PassInv
<1>3. PICK r : /\ Resting(ir, frames, r)
               /\ TypedSoFar(ir.blocks, TypesNow, Visited(ir.blocks, r, at))
  BY <1>1, <1>2 DEF TypesInv
<1>4. PICK st : st = TypesNow
  OBVIOUS
<1>5. Visited(ir.blocks, r, at) = 1 .. Len(ir.blocks)
  BY <1>1 DEF Visited
<1>6. TypedSoFar(ir.blocks, st, 1 .. Len(ir.blocks))
  BY <1>3, <1>4, <1>5
<1>7. ASSUME NEW b \in 1 .. Len(ir.blocks), NEW i \in Enabled(ir.blocks[b]),
             ir.blocks[b].instrs[i].refs # 0,
             NEW p \in 1 .. Len(ir.blocks), b \in TargetsOf(ir.blocks[p].term)
      PROVE  Good(st, ArgumentFor(ir.blocks, p, b, i))
  <2>1. ArgumentsGood(ir.blocks, st, p, b)
    BY <1>6, <1>7 DEF TypedSoFar
  <2>2. QED
    BY <1>7, <2>1 DEF ArgumentsGood
<1>8. ASSUME NEW b \in 1 .. Len(ir.blocks), NEW i \in 1 .. Len(ir.blocks[b].instrs),
             st.types[b][i] = "int"
      PROVE  \/ <<b, i>> \in st.passed
             \/ ir.blocks[b].instrs[i].id \in {"INT", "ADD", "SUB", "CMP"}
             \/ /\ ir.blocks[b].instrs[i].id = "SET_LOC"
                /\ Good(st, ir.blocks[b].instrs[i].ops[2])
             \/ /\ b # 1 /\ i \in Enabled(ir.blocks[b])
                /\ \A p \in 1 .. Len(ir.blocks) :
                     b \in TargetsOf(ir.blocks[p].term) => Good(st, ArgumentFor(ir.blocks, p, b, i))
  <2>1. Founded(ir.blocks, st, b, i)
    BY <1>6, <1>8 DEF TypedSoFar
  <2>2. CASE InUse(ir.blocks, b, i)
    BY <1>7, <2>2 DEF InUse
  <2>3. QED
    BY <2>1, <2>2 DEF Founded
<1>9. st \in States(ir.blocks)
  BY <1>6 DEF TypedSoFar
<1>10. Closed(ir.blocks, st)
  BY <1>8, <1>9 DEF Closed
<1>11. TypesNow' = st
  BY <1>1, <1>4 DEF TypesNow
<1>12. QED
  BY <1>1, <1>10, <1>11 DEF TypesInv

\* Counting does not change what the types rest on.
LEMMA ClosedStays ==
  ASSUME NEW blocks \in Seq(BlockType), NEW result, Recounted(blocks, result),
         NEW st, Closed(blocks, st)
  PROVE  Closed(result, st)
<1>1. result \in Seq(BlockType) /\ Len(result) = Len(blocks)
  BY DEF Recounted
<1>2. ASSUME NEW b \in 1 .. Len(blocks)
      PROVE  /\ Len(result[b].instrs) = Len(blocks[b].instrs)
             /\ \A i \in 1 .. Len(blocks[b].instrs) :
                  /\ result[b].instrs[i].id = blocks[b].instrs[i].id
                  /\ result[b].instrs[i].name = blocks[b].instrs[i].name
                  /\ result[b].instrs[i].ops = blocks[b].instrs[i].ops
             /\ result[b].vars = blocks[b].vars /\ result[b].term = blocks[b].term
  BY DEF Recounted, SameBlock, SameInstrs, SameInstr, SameRest
<1>3. ASSUME NEW b \in 1 .. Len(blocks) PROVE Enabled(result[b]) = Enabled(blocks[b])
  BY <1>1, SameBecomes DEF Recounted
<1>4. ASSUME NEW b \in 1 .. Len(blocks), NEW i \in Enabled(blocks[b]), NEW p \in 1 .. Len(blocks)
      PROVE  ArgumentFor(result, p, b, i) = ArgumentFor(blocks, p, b, i)
  <2>1. i \in 1 .. Len(blocks[b].instrs)
    BY EnabledFinite
  <2>2. QED
    BY <1>2, <2>1 DEF ArgumentFor
<1>5. States(result) = States(blocks)
  <2>. DEFINE F(x, b) == [1 .. Len(x[b].instrs) -> Known]
              A(x) == UNION {F(x, b) : b \in 1 .. Len(x)}
  <2>1. \A x : Typings(x) = {ty \in [1 .. Len(x) -> A(x)] : \A b \in 1 .. Len(x) : ty[b] \in F(x, b)}
    BY DEF Typings
  <2>2. \A b \in 1 .. Len(blocks) : F(result, b) = F(blocks, b)
    BY <1>2
  <2>. HIDE DEF F
  <2>3. A(result) = A(blocks)
    BY <1>1, <2>2
  <2>. HIDE DEF A
  <2>4. Typings(result) = Typings(blocks)
    <3>1. PICK G : G = [1 .. Len(blocks) -> A(blocks)]
      OBVIOUS
    <3>2. [1 .. Len(result) -> A(result)] = G
      BY <1>1, <2>3, <3>1
    <3>3. Typings(result) = {ty \in G : \A b \in 1 .. Len(blocks) : ty[b] \in F(result, b)}
      BY <1>1, <2>1, <3>2
    <3>4. Typings(blocks) = {ty \in G : \A b \in 1 .. Len(blocks) : ty[b] \in F(blocks, b)}
      BY <2>1, <3>1
    <3>5. QED
      BY <2>2, <3>3, <3>4
  <2>5. QED
    BY <2>4 DEF States
<1>6. ASSUME NEW b \in 1 .. Len(blocks), NEW i \in 1 .. Len(blocks[b].instrs),
             st.types[b][i] = "int"
      PROVE  \/ <<b, i>> \in st.passed
             \/ result[b].instrs[i].id \in {"INT", "ADD", "SUB", "CMP"}
             \/ result[b].instrs[i].id = "SET_LOC" /\ Good(st, result[b].instrs[i].ops[2])
             \/ /\ b # 1 /\ i \in Enabled(result[b])
                /\ \A p \in 1 .. Len(blocks) :
                     b \in TargetsOf(result[p].term) => Good(st, ArgumentFor(result, p, b, i))
  <2>1. CASE /\ b # 1 /\ i \in Enabled(blocks[b])
             /\ \A p \in 1 .. Len(blocks) :
                  b \in TargetsOf(blocks[p].term) => Good(st, ArgumentFor(blocks, p, b, i))
    BY <1>2, <1>3, <1>4, <2>1
  <2>2. CASE blocks[b].instrs[i].id = "SET_LOC" /\ Good(st, blocks[b].instrs[i].ops[2])
    BY <1>2, <2>2
  <2>3. CASE blocks[b].instrs[i].id \in {"INT", "ADD", "SUB", "CMP"}
    BY <1>2, <2>3
  <2>4. QED
    BY <1>6, <2>1, <2>2, <2>3 DEF Closed
<1>7. st \in States(result)
  BY <1>5 DEF Closed
<1>8. QED
  BY <1>1, <1>2, <1>6, <1>7 DEF Closed

LEMMA OptimizeBlockTypes ==
  ASSUME OptInv, TypesInv, OptimizeBlock
  PROVE  TypesInv'
<1>. DEFINE bs == ReleaseAll(ir.blocks, at)
<1>1. /\ pass = "params" /\ at # 0 /\ ir' = [ir EXCEPT !.blocks = bs]
      /\ pass' \in {"params", "done"} /\ types' = types /\ passed' = passed
  BY DEF OptimizeBlock
<1>2. PICK r : Resting(ir, frames, r)
  BY <1>1 DEF OptInv, CountInv
<1>3. Sound(ir, WaitingIn(frames), {}) /\ ir \in IRType
  BY <1>2 DEF Resting, Laid, Sound
<1>4. ir.blocks \in Seq(BlockType) /\ Len(ir.blocks) \in Nat
  BY <1>3, FieldsOfIR DEF IRFields
<1>5. at \in 1 .. Len(ir.blocks)
  BY <1>1, <1>4 DEF OptInv, PassInv
<1>6. Recounted(ir.blocks, bs)
  BY <1>3, <1>5, ReleaseAllFields
<1>. HIDE DEF bs
<1>7. ir'.blocks = bs
  BY <1>1, <1>3 DEF IRType
<1>8. PICK st : st = TypesNow
  OBVIOUS
<1>9. Closed(ir.blocks, st)
  BY <1>1, <1>8 DEF TypesInv
<1>10. Closed(ir'.blocks, st)
  BY <1>4, <1>6, <1>7, <1>9, ClosedStays
<1>11. TypesNow' = st
  BY <1>1, <1>8 DEF TypesNow
<1>12. QED
  BY <1>1, <1>10, <1>11 DEF TypesInv

\* The values of the function.
Values == UNION {{b} \X DOMAIN ir.blocks[b].instrs : b \in Blocks}

\* Why v is an integer when the members of S are.
Sustained(known, S, v) ==
  \/ v \in known
  \/ ir.blocks[v[1]].instrs[v[2]].id \in {"INT", "ADD", "SUB", "CMP"}
  \/ ir.blocks[v[1]].instrs[v[2]].id = "SET_LOC" /\ ir.blocks[v[1]].instrs[v[2]].ops[2] \in S
  \/ /\ ir.blocks[v[1]].instrs[v[2]].id = "PARAM" /\ v[1] # 1
     /\ ir.blocks[v[1]].instrs[v[2]].name # Null
     /\ \A p \in Predecessors(v[1]) :
          ValueIn(ir.blocks[p].vars, ir.blocks[v[1]].instrs[v[2]].name) \in S

\* A set each of whose members follows from the others lies in the largest one.
LEMMA IntValuesHold ==
  ASSUME ir.blocks \in Seq(BlockType), NEW known, NEW S, S \subseteq Values,
         \A v \in S : Sustained(known, S, v)
  PROVE  S \subseteq IntValues(known)
<1>. DEFINE n == Cardinality(Values)
            V == SUBSET Values
            Cut(X) == {v \in X : Sustained(known, X, v)}
            Def(f) == [i \in 0 .. n |-> IF i = 0 THEN Values ELSE Cut(f[i - 1])]
            left == CHOOSE f : f = Def(f)
<1>1. IntValues(known) = left[n]
  BY SMTT(20) DEF IntValues, Values, Sustained
<1>2. n \in Nat
  <2>. DEFINE f == [b \in Blocks |-> DOMAIN ir.blocks[b].instrs]
  <2>1. PICK len \in Nat : Blocks = 1 .. len /\ len = Len(ir.blocks)
    BY DEF Blocks
  <2>2. IsFiniteSet(Blocks)
    BY <2>1, FS_Interval
  <2>3. ASSUME NEW b \in Blocks PROVE IsFiniteSet(f[b])
    <3>1. ir.blocks[b] \in BlockType
      BY <2>1
    <3>2. PICK k \in Nat : DOMAIN ir.blocks[b].instrs = 1 .. k
      BY <3>1, BlockFields DEF FieldsTyped
    <3>3. QED
      BY <3>2, FS_Interval
  <2>4. Values = Pairs(Blocks, f)
    BY DEF Values, Pairs
  <2>. HIDE DEF f
  <2>5. IsFiniteSet(Values)
    BY <2>2, <2>3, <2>4, PairsFinite
  <2>6. QED
    BY <2>5, FS_CardinalityType
<1>3. ASSUME NEW f, NEW i \in 1 .. n PROVE Def(f)[i] = Cut(f[i - 1]) /\ Def(f)[0] = Values
  BY <1>2
<1>. HIDE DEF n
<1>4. \E f : f = Def(f)
  <2>1. PICK step : step = [i \in 1 .. n |-> [X \in V |-> Cut(X)]]
    OBVIOUS
  <2>2. \A X \in V : Cut(X) \in V
    OBVIOUS
  <2>3. step \in [1 .. n -> [V -> V]] /\ \A i \in 1 .. n : \A X \in V : step[i][X] = Cut(X)
    <3>. HIDE DEF V, Cut
    <3>1. QED
      BY <2>1, <2>2
  <2>4. PICK f \in [0 .. n -> V] : f[0] = Values /\ \A i \in 1 .. n : f[i] = step[i][f[i - 1]]
    <3>1. Values \in V
      OBVIOUS
    <3>. HIDE DEF V
    <3>2. Iterated(n, V, Values, step)
      BY <1>2, <2>3, <3>1, Iterates
    <3>3. QED
      BY <3>2 DEF Iterated
  <2>5. ASSUME NEW i \in 0 .. n PROVE f[i] = Def(f)[i]
    <3>. HIDE DEF V, Cut
    <3>1. CASE i = 0
      BY <2>4, <3>1, <1>2
    <3>2. CASE i # 0
      BY <1>2, <1>3, <2>3, <2>4, <3>2
    <3>3. QED
      BY <3>1, <3>2
  <2>6. f = [i \in 0 .. n |-> Def(f)[i]]
    <3>. HIDE DEF V, Def
    <3>1. QED
      BY <2>4, <2>5
  <2>7. Def(f) = [i \in 0 .. n |-> Def(f)[i]]
    <3>. HIDE DEF Cut
    <3>1. QED
      OBVIOUS
  <2>8. QED
    <3>. HIDE DEF Def
    <3>1. QED
      BY <2>6, <2>7
<1>5. left = Def(left)
  <2>. HIDE DEF Def
  <2>1. QED
    BY <1>4
<1>. HIDE DEF left
<1>6. left[0] = Values /\ \A i \in 1 .. n : left[i] = Cut(left[i - 1])
  <2>. HIDE DEF Cut
  <2>1. left[0] = Values
    BY <1>5, <1>2
  <2>2. QED
    BY <2>1, <1>3, <1>5
<1>. HIDE DEF Def, V
<1>7. ASSUME NEW X, S \subseteq X PROVE S \subseteq Cut(X)
  <2>1. ASSUME NEW v \in S PROVE Sustained(known, X, v)
    BY <1>7 DEF Sustained
  <2>2. QED
    BY <1>7, <2>1
<1>. HIDE DEF Cut
<1>. DEFINE T == {i \in Nat : i <= n => S \subseteq left[i]}
<1>8. 0 \in T
  BY <1>6
<1>9. ASSUME NEW i \in Nat, i \in T PROVE i + 1 \in T
  <2>1. SUFFICES ASSUME i + 1 <= n PROVE S \subseteq left[i + 1]
    OBVIOUS
  <2>2. i <= n /\ i + 1 \in 1 .. n /\ (i + 1) - 1 = i
    BY <2>1, <1>2
  <2>3. S \subseteq left[i]
    BY <1>9, <2>2
  <2>4. left[i + 1] = Cut(left[i])
    BY <1>6, <2>2
  <2>5. QED
    BY <1>7, <2>3, <2>4
<1>10. Nat \subseteq T
  <2>. HIDE DEF T
  <2>1. QED
    BY <1>8, <1>9, NumbersByInduction
<1>11. S \subseteq left[n]
  BY <1>2, <1>10
<1>12. QED
  BY <1>1, <1>11

LEMMA IntegersHold ==
  OptInv /\ TypesInv => IntsAreInts
<1>1. SUFFICES ASSUME OptInv, TypesInv, pass \in {"params", "done"},
                      NEW b1 \in Blocks, NEW i1 \in DOMAIN types[b1], types[b1][i1] = "int"
               PROVE  <<b1, i1>> \in IntValues(passed)
  BY DEF IntsAreInts
<1>2. PICK r : Resting(ir, frames, r)
  BY <1>1 DEF OptInv, CountInv
<1>3. Sound(ir, WaitingIn(frames), {}) /\ Ranked(ir, r)
  BY <1>2 DEF Resting, Laid
<1>4. PICK bs \in Seq(BlockType) :
        /\ bs = ir.blocks /\ DOMAIN bs = 1 .. Len(bs) /\ Blocks = 1 .. Len(bs)
        /\ \A b \in 1 .. Len(bs) : BlockSound(b, bs[b])
        /\ \A p \in 1 .. Len(bs) : \A t \in TargetsOf(bs[p].term) : EdgeSound(bs, p, t)
  BY <1>3, FieldsOfIR, SoundEdge DEF Sound, IRFields, Blocks
<1>5. PICK st : st = TypesNow
  OBVIOUS
<1>6. Closed(bs, st) /\ st.types = types /\ st.passed = passed
  BY <1>1, <1>4, <1>5 DEF TypesInv, TypesNow
<1>7. st \in States(bs) /\ types \in Typings(bs)
  BY <1>6, StateFields DEF Closed
<1>8. \A b \in 1 .. Len(bs) : DOMAIN types[b] = 1 .. Len(bs[b].instrs)
  BY <1>7 DEF Typings
<1>9. \A b \in 1 .. Len(bs) : DOMAIN bs[b].instrs = 1 .. Len(bs[b].instrs)
  <2>1. TAKE b \in 1 .. Len(bs)
  <2>2. bs[b] \in BlockType
    OBVIOUS
  <2>3. bs[b].instrs \in Seq(InstrType)
    BY <2>2, BlockFields DEF FieldsTyped
  <2>4. QED
    BY <2>3
<1>10. \A b \in 1 .. Len(bs) : \A i \in 1 .. Len(bs[b].instrs) : <<b, i>> \in Values
  BY <1>4, <1>9 DEF Values
<1>11. \A v : IsValue(bs, v) => v \in Values
  BY <1>10 DEF IsValue
<1>12. ASSUME NEW v \in Values
       PROVE  /\ v = <<v[1], v[2]>> /\ v[1] \in 1 .. Len(bs)
              /\ v[2] \in 1 .. Len(bs[v[1]].instrs)
  BY <1>4, <1>9 DEF Values
<1>. DEFINE S == {v \in Values : Good(st, v)}
<1>13. ASSUME NEW v \in S PROVE Sustained(passed, S, v)
  <2>1. PICK b \in 1 .. Len(bs) : \E i \in 1 .. Len(bs[b].instrs) : v = <<b, i>>
    BY <1>12
  <2>2. PICK i \in 1 .. Len(bs[b].instrs) : v = <<b, i>>
    BY <2>1
  <2>3. v[1] = b /\ v[2] = i
    BY <2>2
  <2>4. v \in passed \/ st.types[b][i] = "int"
    BY <1>6, <2>3 DEF Good
  <2>5. CASE bs[b].instrs[i].id = "SET_LOC" /\ Good(st, bs[b].instrs[i].ops[2])
    <3>1. IsValue(bs, bs[b].instrs[i].ops[2])
      BY <1>4, <2>5, AssignedFrom
    <3>2. bs[b].instrs[i].ops[2] \in S
      BY <1>11, <2>5, <3>1
    <3>. HIDE DEF S
    <3>3. QED
      BY <1>4, <2>3, <2>5, <3>2 DEF Sustained
  <2>6. CASE /\ b # 1 /\ i \in Enabled(bs[b])
             /\ \A p \in 1 .. Len(bs) :
                  b \in TargetsOf(bs[p].term) => Good(st, ArgumentFor(bs, p, b, i))
    <3>1. bs[b].instrs[i].id = "PARAM" /\ bs[b].instrs[i].name # Null
      BY <2>6, <2>2 DEF Enabled, Params
    <3>2. ASSUME NEW p \in Predecessors(b)
          PROVE  ValueIn(bs[p].vars, bs[b].instrs[i].name) \in S
      <4>1. p \in 1 .. Len(bs) /\ b \in Targets(p)
        BY <1>4 DEF Predecessors
      <4>2. b \in TargetsOf(bs[p].term)
        <5>1. bs[p] \in BlockType
          BY <4>1
        <5>2. bs[p].term.targets \in Seq(Nat)
          BY <5>1, BlockFields DEF FieldsTyped
        <5>3. DOMAIN bs[p].term.targets = 1 .. Len(bs[p].term.targets)
          BY <5>2
        <5>4. QED
          BY <1>4, <4>1, <5>3 DEF Targets, TargetsOf
      <4>3. Good(st, ArgumentFor(bs, p, b, i))
        BY <2>6, <4>1, <4>2
      <4>4. IsValue(bs, ArgumentFor(bs, p, b, i))
        BY <1>4, <2>6, <4>1, <4>2, ArgumentIs
      <4>5. ArgumentFor(bs, p, b, i) \in S
        BY <1>11, <4>3, <4>4
      <4>6. QED
        BY <4>5 DEF ArgumentFor
    <3>. HIDE DEF S
    <3>3. QED
      BY <1>4, <2>3, <2>6, <3>1, <3>2 DEF Sustained
  <2>7. CASE v \in passed \/ bs[b].instrs[i].id \in {"INT", "ADD", "SUB", "CMP"}
    BY <1>4, <2>3, <2>7 DEF Sustained
  <2>8. \/ v \in passed
        \/ bs[b].instrs[i].id \in {"INT", "ADD", "SUB", "CMP"}
        \/ bs[b].instrs[i].id = "SET_LOC" /\ Good(st, bs[b].instrs[i].ops[2])
        \/ /\ b # 1 /\ i \in Enabled(bs[b])
           /\ \A p \in 1 .. Len(bs) :
                b \in TargetsOf(bs[p].term) => Good(st, ArgumentFor(bs, p, b, i))
    BY <1>6, <2>2, <2>4 DEF Closed
  <2>9. QED
    BY <2>5, <2>6, <2>7, <2>8
<1>14. S \subseteq Values
  OBVIOUS
<1>15. <<b1, i1>> \in S
  BY <1>1, <1>4, <1>6, <1>8, <1>10 DEF Good
<1>. HIDE DEF S
<1>16. S \subseteq IntValues(passed)
  BY <1>4, <1>13, <1>14, IntValuesHold
<1>17. QED
  BY <1>15, <1>16

\* Once the types of a function in which nothing is folded are assigned, a value
\* typed as an integer is one in every run of the function, by what follows from
\* the values that were passed on before their type was known:
\* ojit_assign_types may visit the blocks once, in their order, whatever their
\* number and however the loops lie (the code generator checks no such operand).
THEOREM OptIntsAreInts ==
  OptSpec => []IntsAreInts
<1>1. OptInit => TypesInv
  BY DEF OptInit, TypeInit, TypesInv
<1>2. OptInv /\ TypesInv /\ [OptNext]_optVars => TypesInv'
  <2>1. SUFFICES ASSUME OptInv, TypesInv, [OptNext]_optVars PROVE TypesInv'
    OBVIOUS
  <2>2. CASE OptNext
    BY <2>1, <2>2, ParseTypes, OptimizeFunctionTypes, AssignTypesTypes, OptimizeParamsTypes,
       OptimizeBlockTypes DEF OptNext, ParseAndAssign
  <2>3. CASE UNCHANGED optVars
    BY <2>1, <2>3 DEF optVars, passVars, vars, TypesInv, TypesNow
  <2>4. QED
    BY <2>1, <2>2, <2>3
<1>3. QED
  BY <1>1, <1>2, OptInvariant, IntegersHold, PTL DEF OptSpec

=============================================================================
