------------------------------ MODULE BlockCode ------------------------------
(***************************************************************************)
(* The code of one block.  It is generated backwards: the terminator       *)
(* first, then the instructions from the last to the first, then the moves *)
(* that take the parameters from where the branches leave them.  A value   *)
(* gets a location from the first of its uses that is met, and an          *)
(* instruction gives its register free, since before it there is no value. *)
(* An instruction whose value has no location by then is left out.         *)
(*                                                                         *)
(* Machine says what the generated code does.  Values are 1 .. NumParams,  *)
(* the parameters, and one for each instruction, in the order of the block.*)
(***************************************************************************)
EXTENDS Machine, FiniteSets, SequencesExt

\* The blocks to look at, by shape:
\*   regs: the registers of get_unused that are used, the rest is marked
\*   params, instrs: how many; types: of the parameters
\*   kinds, terms: the instructions and terminators; consts, conds: of INT and CMP
\*   args, outs: bounds on the arguments of a call and of the branches
\*   disabled: how many more parameters may be disabled
\*   inputs: the integers that come in
CONSTANT Shapes

ASSUME ShapesAssumption ==
  \A sh \in Shapes :
    /\ sh.regs \in 1 .. 7 /\ sh.params \in Nat /\ sh.instrs \in Nat /\ sh.disabled \subseteq Nat
    /\ sh.args \in 0 .. 3 /\ sh.outs \in Nat
    /\ sh.consts \subseteq 0 .. Ints - 1 /\ sh.inputs \subseteq 0 .. Ints - 1

VARIABLES
  block,   \* the block: its parameters, instructions and terminator
  s,       \* the assembler state: GET_LOC of the values, used_registers,
           \* curr_num_vars, and the code so far
  next,    \* the value that is met next
  step,    \* terminator, body, done, or exit
  left_out \* history: the instructions that no code was made for

vars == <<block, s, next, step, left_out>>

NumParams == block.shape.params
NumValues == NumParams + block.shape.instrs
Values == 1 .. NumValues
Params == 1 .. NumParams

-----------------------------------------------------------------------------
(***************************************************************************)
(* The blocks.                                                             *)
(***************************************************************************)
Ins(op, args, k) == [op |-> op, args |-> args, k |-> k]

InstrChoices(sh, v) ==
  LET Before == 1 .. v - 1
      Pairs == Before \X Before
      \* A call comes before those of its arguments that are not there already.
      Arguments == Before \cup ({v + 1} \cap 1 .. sh.params + sh.instrs)
      Lists == UNION {[1 .. n -> Arguments] : n \in 0 .. sh.args}
  IN  {i \in {Ins("int", << >>, c) : c \in sh.consts}
        \cup {Ins(op, p, 0) : op \in {"add", "sub"}, p \in Pairs}
        \cup {Ins("cmp", p, c) : p \in Pairs, c \in sh.conds}
        \cup {Ins(op, << >>, 0) : op \in {"global", "new_object"}}
        \cup {Ins("call", <<f>> \o a, 0) : f \in Before, a \in Lists}
        \cup {Ins(op, <<x>>, 0) : op \in {"get_attr", "get_loc"}, x \in Before}
        \cup {Ins("set_loc", p, 0) : p \in Pairs} : i.op \in sh.kinds}

Bodies(sh) ==
  LET OfLength[n \in 0 .. sh.instrs] ==
        IF n = 0 THEN {<< >>}
        ELSE {Append(b, i) : b \in OfLength[n - 1], i \in InstrChoices(sh, sh.params + n)}
  IN  OfLength[sh.instrs]

Pool(sh) == {Reg(n) : n \in 1 .. sh.regs}

Terminators(sh) ==
  LET values == 1 .. sh.params + sh.instrs
      suggestions == Pool(sh) \cup {Slot(0), NoLoc}
      outs == UNION {[1 .. n -> values \X suggestions] : n \in 0 .. sh.outs}
  IN  {t \in {[kind |-> "return", cond |-> 0, outs |-> <<<<v, RAX>>>>] : v \in values}
          \cup [kind : {"branch"}, cond : {0}, outs : outs]
          \cup [kind : {"cbranch"}, cond : values, outs : outs] : t.kind \in sh.terms}

Op(b, v) == IF v <= b.shape.params THEN "param" ELSE b.body[v - b.shape.params].op
Args(b, v) == IF v <= b.shape.params THEN << >> ELSE b.body[v - b.shape.params].args
K(b, v) == b.body[v - b.shape.params].k
LastOfBlock(b) == b.shape.params + b.shape.instrs

OutValues(b) == {b.term.outs[n][1] : n \in DOMAIN b.term.outs}
Users(b, v) == {u \in 1 .. LastOfBlock(b) : \E n \in DOMAIN Args(b, u) : Args(b, u)[n] = v}
IsUsed(b, v) == v \in OutValues(b) \/ b.term.cond = v \/ Users(b, v) # {}

\* What the parser builds: a GETATTR has its GETLOC right behind it, a SETLOC is
\* of a GETATTR, and only they use it; a constant sum is folded.  An unused
\* instruction is as if it was not there: only calls and attributes are of
\* interest.
IsBuilt(b) ==
  \A v \in b.shape.params + 1 .. LastOfBlock(b) :
    /\ Op(b, v) = "get_attr" => v < LastOfBlock(b) /\ Op(b, v + 1) = "get_loc"
    /\ Op(b, v) = "get_loc" => Op(b, v - 1) = "get_attr" /\ Args(b, v)[1] = v - 1
    /\ Op(b, v) = "set_loc" => Op(b, Args(b, v)[1]) = "get_attr" /\ Args(b, v)[2] # Args(b, v)[1]
    /\ \A n \in DOMAIN Args(b, v) :
         Op(b, Args(b, v)[n]) = "get_attr" => Op(b, v) \in {"get_loc", "set_loc"} /\ n = 1
    /\ Op(b, v) = "get_attr" => v \notin OutValues(b) /\ b.term.cond # v
    /\ Op(b, v) = "add" => \E n \in 1 .. 2 : Op(b, Args(b, v)[n]) # "int"
    /\ IsUsed(b, v) \/ Op(b, v) \in {"call", "get_loc", "set_loc"}

OwnLocs(sh) ==
  {f \in [1 .. sh.params -> Pool(sh) \cup {Slot(0)}] :
     \A p, q \in 1 .. sh.params : p # q => f[p] # f[q]}

Blocks(sh) ==
  {b \in [shape : {sh}, own : OwnLocs(sh), type : [1 .. sh.params -> sh.types],
           disabled : sh.disabled, body : Bodies(sh), term : Terminators(sh)] : IsBuilt(b)}

Marked(sh) == {Reg(n) : n \in sh.regs + 1 .. 7}

Init ==
  /\ \E sh \in Shapes : block \in Blocks(sh)
  /\ s = [loc |-> [v \in Values |-> NoLoc], num_vars |-> 0, code |-> << >>,
          used |-> Marked(block.shape)]
  /\ next = NumValues
  /\ step = "terminator"
  /\ left_out = {}

OpOf(v) == Op(block, v)
ArgsOf(v) == Args(block, v)
IsConst(v) == OpOf(v) = "int"

\* base.type, as ojit_assign_types leaves it.
Type[v \in Values] ==
  CASE v \in Params -> block.type[v]
    [] OpOf(v) \in {"int", "add", "sub", "cmp"} -> "int"
    [] OpOf(v) = "set_loc" -> Type[ArgsOf(v)[2]]
    [] OTHER -> "unknown"

-----------------------------------------------------------------------------
(***************************************************************************)
(* Locations.                                                              *)
(***************************************************************************)
Unused(st) == {n \in 1 .. 7 : Reg(n) \notin st.used}

\* Mutant: the suggestion is taken also when it is marked.
AssignLocTaken(st, v, suggested) ==
  LET l == IF suggested # NoLoc THEN suggested
           ELSE IF Unused(st) # {} THEN Reg(FirstOf(Unused(st))) ELSE Slot(st.num_vars)
  IN  IF st.loc[v] # NoLoc THEN st
      ELSE [st EXCEPT !.loc[v] = l,
                      !.used = IF l.is_reg THEN @ \cup {l} ELSE @,
                      !.num_vars = IF suggested = NoLoc /\ Unused(st) = {} THEN @ + 1 ELSE @]

\* assign_loc: the suggestion, a register, or a new variable.  Slots are never
\* marked.
AssignLoc(st, v, suggested) ==
  LET l == IF suggested # NoLoc /\ suggested \notin st.used THEN suggested
           ELSE IF Unused(st) # {} THEN Reg(FirstOf(Unused(st))) ELSE Slot(st.num_vars)
      new == Unused(st) = {} /\ (suggested = NoLoc \/ suggested \in st.used)
  IN  IF st.loc[v] # NoLoc THEN st
      ELSE [st EXCEPT !.loc[v] = l,
                      !.used = IF l.is_reg THEN @ \cup {l} ELSE @,
                      !.num_vars = IF new THEN @ + 1 ELSE @]

\* instr_assign_loc: a parameter stays where it comes in.
Assign(st, v, suggested) ==
  AssignLoc(st, v, IF v \in Params /\ block.own[v] \notin st.used THEN block.own[v]
                   ELSE suggested)

Unmark(st, l) == [st EXCEPT !.used = @ \ {l}]

\* Code is written from its end to its start; ops are in the order they run.
Emit(st, ops) == [st EXCEPT !.code = ops \o @]

-----------------------------------------------------------------------------
(***************************************************************************)
(* emit_instr.h, one operator per instruction.                             *)
(***************************************************************************)
\* emit_assert_instr_i32.
AssertInt(st, v) == IF Type[v] = "int" THEN << >> ELSE <<Check(st.loc[v], TMP1)>>

\* store_loc and load_loc around an operation on a register.
OnRegister(l, op, k) ==
  IF l.is_reg THEN <<[op |-> op, dest |-> l, k |-> k]>>
  ELSE <<Mov(TMP1, l), [op |-> op, dest |-> TMP1, k |-> k], Mov(l, TMP1)>>

\* emit_int, with emit_wrap_int_i32.
EmitInt(st, v) ==
  LET this == st.loc[v]
      w == Boxed(K(block, v))
  IN  Emit(Unmark(st, this), IF this.is_reg THEN <<MovWord(this, w)>>
                             ELSE <<MovWord(TMP1, w), Mov(this, TMP1)>>)

HasConst(v) == \E n \in 1 .. 2 : IsConst(ArgsOf(v)[n])
TheConst(v) == K(block, IF IsConst(ArgsOf(v)[1]) THEN ArgsOf(v)[1] ELSE ArgsOf(v)[2])
TheOther(v) == IF IsConst(ArgsOf(v)[1]) THEN ArgsOf(v)[2] ELSE ArgsOf(v)[1]

\* The two operands, in places of their own or in that of the result.
AssignBoth(st, v, suggested) ==
  Assign(Assign(st, ArgsOf(v)[1], suggested), ArgsOf(v)[2], suggested)

EmitAdd(st, v) ==
  LET this == st.loc[v]
      st1 == Assign(Unmark(st, this), TheOther(v), this)
      st2 == AssignBoth(Unmark(st, this), v, this)
      la == st2.loc[ArgsOf(v)[1]]
      lb == st2.loc[ArgsOf(v)[2]]
  IN  IF HasConst(v)
      THEN Emit(st1, AssertInt(st1, TheOther(v)) \o <<Mov(this, st1.loc[TheOther(v)])>>
                       \o OnRegister(this, "addi", TheConst(v)))
      ELSE Emit(st2, AssertInt(st2, ArgsOf(v)[2]) \o AssertInt(st2, ArgsOf(v)[1]) \o
             CASE la = this -> <<Mov32(TMP1, lb), Arith("add", this, TMP1)>>
               [] la # this /\ lb = this -> <<Mov32(TMP1, la), Arith("add", this, TMP1)>>
               [] OTHER -> <<Mov32(this, la), Arith("add", this, lb)>>)

\* The operands are always checked.
EmitSub(st, v) ==
  LET this == st.loc[v]
      st1 == Assign(Unmark(st, this), TheOther(v), this)
      st2 == AssignBoth(Unmark(st, this), v, this)
      la == st2.loc[ArgsOf(v)[1]]
      lb == st2.loc[ArgsOf(v)[2]]
  IN  IF HasConst(v)
      THEN Emit(st1, <<Check(st1.loc[TheOther(v)], TMP1), Mov(this, st1.loc[TheOther(v)])>>
                       \o OnRegister(this, "subi", TheConst(v)))
      ELSE Emit(st2, <<Check(lb, TMP1), Check(la, TMP1)>> \o
             CASE la = this -> <<Mov32(TMP1, lb), Arith("sub", this, lb)>>
               [] la # this /\ lb = this -> <<Mov32(TMP1, la), Arith("sub", this, la)>>
               [] OTHER -> <<Mov32(this, la), Arith("sub", this, lb)>>)

\* emit_cmp with store = false: the terminator jumps on the flags.  A slot is
\* loaded into TMP_1_REG, which then is taken, so the check uses TMP_2_REG.
EmitCmp(st, v) ==
  LET this == st.loc[v]
      st1 == Assign(Unmark(st, this), TheOther(v), this)
      l == st1.loc[TheOther(v)]
      reg == IF l.is_reg THEN l ELSE TMP1
      st2 == AssignBoth(Unmark(st, this), v, NoLoc)
  IN  IF HasConst(v)
      THEN Emit(st1, (IF l.is_reg THEN << >> ELSE <<Mov(TMP1, l)>>)
                       \o (IF Type[TheOther(v)] = "int" THEN << >>
                           ELSE <<Check(reg, IF l.is_reg THEN TMP1 ELSE TMP2)>>)
                       \o <<[op |-> "cmpi", dest |-> reg, k |-> TheConst(v)]>>)
      ELSE Emit(st2, <<Cmp(st2.loc[ArgsOf(v)[1]], st2.loc[ArgsOf(v)[2]])>>)

\* The registers a call saves: those of RAX, RDX and RCX that are marked.
Saved(st) == SelectSeq(<<RAX, RDX, RCX>>, LAMBDA l : l \in st.used)
Pushes(regs) == [n \in DOMAIN regs |-> Push(regs[n])]
\* Mutant: in the order they were pushed.
PopsInOrder(regs) == [n \in DOMAIN regs |-> Pop(regs[n])]
Pops(regs) == [n \in DOMAIN regs |-> Pop(regs[Len(regs) - n + 1])]

EmitGlobal(st, v) ==
  LET st1 == Unmark(st, st.loc[v])
  IN  Emit(st1, Pushes(Saved(st1))
                  \o <<MovWord(RDX, Name(v)), MovWord(RCX, jit_ptr),
                       MovWord(RAX, jit_compiled_callback), Call(RAX, 2), Mov(st.loc[v], RAX)>>
                  \o Pops(Saved(st1)))

EmitNewObject(st, v) ==
  LET st1 == Unmark(st, st.loc[v])
  IN  Emit(st1, Pushes(Saved(st1))
                  \o <<MovWord(RCX, jit_mem), MovWord(RAX, new_hash_table), Call(RAX, 1),
                       Mov(st.loc[v], RAX)>>
                  \o Pops(Saved(st1)))

\* The object gets its place before the registers to save are determined.
EmitGetAttr(st, v) ==
  LET st1 == Assign(Unmark(st, st.loc[v]), ArgsOf(v)[1], RCX)
  IN  Emit(st1, Pushes(Saved(st1))
                  \o <<MovWord(RDX, Name(v)), Mov(RCX, st1.loc[ArgsOf(v)[1]]),
                       MovWord(RAX, hash_table_get_ptr), Call(RAX, 2), Mov(st.loc[v], RAX)>>
                  \o Pops(Saved(st1)))

\* The callee and the arguments get theirs after.  The move of the last argument
\* runs first.
EmitCall(st, v) ==
  LET args == Tail(ArgsOf(v))
      Assigned[n \in 0 .. Len(args)] ==
        IF n = 0 THEN Assign(Unmark(st, st.loc[v]), ArgsOf(v)[1], RAX)
        ELSE Assign(Assigned[n - 1], args[n], ArgRegs[n])
      st1 == Assigned[Len(args)]
      saved == Saved(Unmark(st, st.loc[v]))
      moves == [n \in DOMAIN args |-> Mov(ArgRegs[n], st1.loc[args[n]])]
  IN  Emit(st1, Pushes(saved) \o Reverse(moves)
                  \o <<Call(st1.loc[ArgsOf(v)[1]], Len(args)), Mov(st.loc[v], RAX)>>
                  \o Pops(saved))

EmitGetLoc(st, v) ==
  LET st1 == Assign(Unmark(st, st.loc[v]), ArgsOf(v)[1], st.loc[v])
  IN  Emit(st1, <<Mov(st.loc[v], st1.loc[ArgsOf(v)[1]])>>)

\* Also when nobody uses its value.
EmitSetLoc(st, v) ==
  LET st1 == AssignBoth(Unmark(st, st.loc[v]), v, st.loc[v])
  IN  Emit(st1, <<Mov(st1.loc[ArgsOf(v)[1]], st1.loc[ArgsOf(v)[2]])>>)

-----------------------------------------------------------------------------
(***************************************************************************)
(* emit_terminator.  resolve_branch is in BranchMoves: here it matters     *)
(* which values it gives places to.                                        *)
(***************************************************************************)
AssignOuts(st) ==
  LET outs == block.term.outs
      Assigned[n \in 0 .. Len(outs)] ==
        IF n = 0 THEN st ELSE Assign(Assigned[n - 1], outs[n][1], outs[n][2])
  IN  Assigned[Len(outs)]

\* The frame is left before the value is moved to RAX.
Return ==
  /\ step = "terminator" /\ block.term.kind = "return"
  /\ LET v == block.term.outs[1][1]
         st == Assign(s, v, RAX)
     IN  s' = Emit(st, <<Leave, Mov(RAX, st.loc[v])>>)
  /\ step' = "body"
  /\ UNCHANGED <<block, next, left_out>>

Branch ==
  /\ step = "terminator" /\ block.term.kind = "branch"
  /\ s' = AssignOuts(s)
  /\ step' = "body"
  /\ UNCHANGED <<block, next, left_out>>

\* A comparison that is not an argument as well is made for its flags; any other
\* value is tested as a word.
CBranch ==
  /\ step = "terminator" /\ block.term.kind = "cbranch"
  /\ LET cond == block.term.cond
         st1 == AssignOuts(s)
         st2 == AssignLoc(st1, cond, NoLoc)
         l == st2.loc[cond]
     IN  s' = IF OpOf(cond) = "cmp" THEN EmitCmp(st1, cond)
              ELSE Emit(st2, (IF l.is_reg THEN << >> ELSE <<Mov(TMP1, l)>>)
                        \o <<[op |-> "test", dest |-> IF l.is_reg THEN l ELSE TMP1]>>)
  /\ step' = "body"
  /\ UNCHANGED <<block, next, left_out>>

-----------------------------------------------------------------------------
(***************************************************************************)
(* The loop over the instructions.                                         *)
(***************************************************************************)
Meet(op) == step = "body" /\ next > NumParams /\ OpOf(next) = op
IsPlaced(st, v) == st.loc[v] # NoLoc

Emitted(st) ==
  /\ s' = st
  /\ next' = next - 1
  /\ UNCHANGED <<block, step, left_out>>

MeetInt == Meet("int") /\ IsPlaced(s, next) /\ Emitted(EmitInt(s, next))
MeetAdd == Meet("add") /\ IsPlaced(s, next) /\ Emitted(EmitAdd(s, next))
MeetSub == Meet("sub") /\ IsPlaced(s, next) /\ Emitted(EmitSub(s, next))
MeetGlobal == Meet("global") /\ IsPlaced(s, next) /\ Emitted(EmitGlobal(s, next))
MeetNewObject == Meet("new_object") /\ IsPlaced(s, next) /\ Emitted(EmitNewObject(s, next))
MeetGetAttr == Meet("get_attr") /\ IsPlaced(s, next) /\ Emitted(EmitGetAttr(s, next))
MeetGetLoc == Meet("get_loc") /\ IsPlaced(s, next) /\ Emitted(EmitGetLoc(s, next))
MeetCall == Meet("call") /\ IsPlaced(s, next) /\ Emitted(EmitCall(s, next))
MeetSetLoc == Meet("set_loc") /\ Emitted(EmitSetLoc(s, next))

\* Nobody behind uses the value.
LeaveOut ==
  /\ step = "body" /\ next > NumParams
  /\ ~IsPlaced(s, next) /\ OpOf(next) # "set_loc"
  /\ next' = next - 1
  /\ left_out' = left_out \cup {next}
  /\ UNCHANGED <<block, s, step>>

\* The value of a comparison is not implemented.
MeetCmp ==
  /\ Meet("cmp") /\ IsPlaced(s, next)
  /\ step' = "exit"
  /\ UNCHANGED <<block, s, next, left_out>>

\* At the parameters: those that are used and have a place move there.  Callees
\* do not count as used.  Parameters that were disabled are not counted in
\* num_params, but skipped all the same, and as many rows are left out.
IsCounted(b, v) ==
  \/ v \in OutValues(b) \/ b.term.cond = v
  \/ \E u \in Users(b, v) : \E n \in DOMAIN Args(b, u) :
       Args(b, u)[n] = v /\ (Op(b, u) = "call" => n > 1)

Rows == SelectSeq([p \in Params |-> p], LAMBDA p : IsCounted(block, p) /\ IsPlaced(s, p))

EnterParams ==
  /\ step = "body" /\ next = NumParams
  /\ LET rows == SubSeq(Rows, 1 + block.disabled, Len(Rows))
     IN  IF Len(Rows) < block.disabled
         THEN step' = "exit" /\ UNCHANGED s
         ELSE /\ s' = Emit(s, MapRegisters([n \in DOMAIN rows |-> block.own[rows[n]]],
                                           [n \in DOMAIN rows |-> s.loc[rows[n]]]))
              /\ step' = "done"
  /\ next' = 0
  /\ UNCHANGED <<block, left_out>>

Next ==
  \/ Return \/ Branch \/ CBranch
  \/ MeetInt \/ MeetAdd \/ MeetSub \/ MeetCmp
  \/ MeetGlobal \/ MeetNewObject \/ MeetGetAttr \/ MeetGetLoc \/ MeetSetLoc \/ MeetCall
  \/ LeaveOut
  \/ EnterParams

Spec == Init /\ [][Next]_vars

-----------------------------------------------------------------------------
(***************************************************************************)
(* What the code has to do.                                                *)
(***************************************************************************)
\* No register is held by two values, and those marked are those held.  A value
\* holds its register until its instruction is met; a call argument that comes
\* behind its call has been met before, and holds it for ever.  A comparison that
\* has a place ends the compiler when it is met.
Held == {v \in Values : /\ IsPlaced(s, v) /\ s.loc[v].is_reg
                        /\ v <= next \/ v \in left_out}

RegistersHeldOnce ==
  step = "body" /\ (\A v \in Values : OpOf(v) = "cmp" => ~IsPlaced(s, v)) =>
    /\ s.used = Marked(block.shape) \cup {s.loc[v] : v \in Held}
    /\ \A v, w \in Held : v # w => s.loc[v] # s.loc[w]

\* The words that may come in.
Object == 45
InWords(p) ==
  {Boxed(i) : i \in block.shape.inputs} \cup (IF block.type[p] = "int" THEN {} ELSE {Object})
Incoming ==
  {f \in [Params -> UNION {InWords(p) : p \in Params}] : \A p \in Params : f[p] \in InWords(p)}

\* What the values are by the instructions.  GETLOC and SETLOC pass a location and
\* a value on: the code neither reads nor writes the memory.
Meaning(in) ==
  LET Val[v \in Values] ==
        LET arg == [n \in DOMAIN ArgsOf(v) |-> Val[ArgsOf(v)[n]]]
        IN  CASE v \in Params -> in[v]
              [] OpOf(v) = "int" -> Boxed(K(block, v))
              [] OpOf(v) = "add" -> Boxed((Low(arg[1]) + Low(arg[2])) % Ints)
              [] OpOf(v) = "sub" -> Boxed((Low(arg[1]) - Low(arg[2])) % Ints)
              [] OpOf(v) = "global" -> Result(jit_compiled_callback, <<jit_ptr, Name(v)>>)
              [] OpOf(v) = "new_object" -> Result(new_hash_table, <<jit_mem>>)
              [] OpOf(v) = "get_attr" -> Result(hash_table_get_ptr, <<arg[1], Name(v)>>)
              [] OpOf(v) = "get_loc" -> arg[1]
              [] OpOf(v) = "set_loc" -> arg[2]
              [] OpOf(v) = "call" -> Result(arg[1], Tail(arg))
              [] OTHER -> 0
  IN  Val

\* The instructions that code was made for, and the comparison of the terminator.
Live == {v \in Values \ Params : OpOf(v) = "set_loc" \/ IsPlaced(s, v)}
IsFused == block.term.kind = "cbranch" /\ OpOf(block.term.cond) = "cmp"
Checked == {v \in Live : OpOf(v) \in {"add", "sub"}}
             \cup (IF IsFused THEN {block.term.cond} ELSE {})
TypeError(val) ==
  \E v \in Checked : \E n \in 1 .. 2 : ~IsIntWord(val[ArgsOf(v)[n]])

(***************************************************************************)
(* Where the code does not do it.  One predicate for each reason.          *)
(***************************************************************************)
LocOf(v) == s.loc[v]
LiveOp(op) == {v \in Live : OpOf(v) = op}
MadeAt(v) == IF v \in Params THEN 0 ELSE v
AtTheEnd == OutValues(block) \cup
              (IF IsFused THEN {ArgsOf(block.term.cond)[n] : n \in 1 .. 2} ELSE {block.term.cond})
LastUse(v) == IF v \in AtTheEnd THEN NumValues + 1
              ELSE LastOf({0} \cup (Users(block, v) \cap Live))
IsAcross(v, u) == v # u /\ IsPlaced(s, v) /\ MadeAt(v) < u /\ LastUse(v) > u

\* asm_emit_add_r64_i32 and its like extend the sign of short constants.
ConstsKeepTheirSign ==
  \A v \in Checked : HasConst(v) => Imm64(TheConst(v)) = TheConst(v)

\* The difference of two tagged words has no tag.  A constant is subtracted also
\* when it is on the left, and may borrow from the tag.
SubtractsSmallConsts(val) ==
  \A v \in LiveOp("sub") :
    /\ IsConst(ArgsOf(v)[2]) /\ ~IsConst(ArgsOf(v)[1])
    /\ Low(val[ArgsOf(v)[1]]) >= K(block, ArgsOf(v)[2])

\* A constant on the left is compared as if it was on the right.  Constants are
\* compared as signed numbers.  Two variables are compared as words, unchecked,
\* so with what additions carried.
ComparesPlainly(val) ==
  IsFused =>
    LET a == ArgsOf(block.term.cond)[1]
        b == ArgsOf(block.term.cond)[2]
    IN  IF HasConst(block.term.cond)
        THEN ~IsConst(a) /\ Low(val[a]) < Ints \div 2
        ELSE /\ LocOf(a).is_reg = LocOf(b).is_reg
             /\ IsIntWord(val[a]) /\ IsIntWord(val[b])
             /\ \A v \in LiveOp("add") :
                  Low(val[ArgsOf(v)[1]]) + Low(val[ArgsOf(v)[2]]) < Ints

\* Slots: an operand may be given the slot of the result while the other has it,
\* and parameters keep slots that curr_num_vars does not know.  A sum that is
\* built in a slot needs its operand there.
SlotsAreSeparate ==
  /\ \A v, w \in Values :
       v # w /\ LocOf(v) = LocOf(w) /\ ~LocOf(v).is_reg /\ MadeAt(v) <= MadeAt(w)
         => LastUse(v) <= MadeAt(w)
  /\ \A v \in LiveOp("add") :
       LET a == LocOf(ArgsOf(v)[1])
       IN  ~LocOf(v).is_reg /\ ~HasConst(v) => ~a.is_reg \/ LocOf(ArgsOf(v)[2]) = LocOf(v)

\* Arguments that are computed behind the call, and moves of arguments that meet.
ArgumentsAreInPlace ==
  \A u \in LiveOp("call") :
    LET args == Tail(ArgsOf(u))
        f == LocOf(ArgsOf(u)[1])
    IN  /\ \A n \in DOMAIN args : args[n] < u
        /\ \A m, n \in DOMAIN args : m < n => LocOf(args[m]) # ArgRegs[n]
        /\ \A n \in DOMAIN args : f = ArgRegs[n] => LocOf(args[n]) = f

\* The function that is called owns R8 to R11 as well.
OnlySavedAcrossCalls ==
  \A u \in UNION {LiveOp(op) : op \in {"call", "global", "new_object", "get_attr"}} :
    \A v \in Values : IsAcross(v, u) => ~LocOf(v).is_reg \/ LocOf(v).n <= 3

\* GETATTR saves the register of its object, also when that is the one of the
\* result, and writes the name over an object in RDX.
ObjectsAreAside ==
  \A u \in LiveOp("get_attr") :
    LocOf(ArgsOf(u)[1]) \notin {LocOf(u), RDX} \/ ~LocOf(ArgsOf(u)[1]).is_reg

\* Parameters that are only called do not count as used, and those that were
\* disabled make others be left out.
AllRowsAreMade ==
  block.disabled = 0 /\ \A p \in Params : IsPlaced(s, p) => IsCounted(block, p)

\* A slot is read from the frame of the caller.
ReturnedInRegister ==
  block.term.kind = "return" => \A v \in OutValues(block) : LocOf(v).is_reg

CodeIsRight(val) ==
  /\ ConstsKeepTheirSign /\ SubtractsSmallConsts(val) /\ ComparesPlainly(val)
  /\ SlotsAreSeparate /\ ArgumentsAreInPlace /\ OnlySavedAcrossCalls /\ ObjectsAreAside
  /\ AllRowsAreMade /\ ReturnedInRegister

-----------------------------------------------------------------------------
Places == {Reg(n) : n \in 1 .. 9} \cup {Slot(n) : n \in 0 .. NumValues}

Entered(in) ==
  [l \in Places |-> IF \E p \in Params : block.own[p] = l
                    THEN in[CHOOSE p \in Params : block.own[p] = l] ELSE Junk(l)]

Same(w, x) == Low(w) = Low(x) /\ Tag(w) = Tag(x)

ExpectedCalls(val) ==
  LET CallOf(v) ==
        CASE OpOf(v) = "global" -> <<jit_compiled_callback, <<jit_ptr, Name(v)>>>>
          [] OpOf(v) = "new_object" -> <<new_hash_table, <<jit_mem>>>>
          [] OpOf(v) = "get_attr" -> <<hash_table_get_ptr, <<val[ArgsOf(v)[1]], Name(v)>>>>
          [] OpOf(v) = "call" ->
               <<val[ArgsOf(v)[1]], [n \in 1 .. Len(ArgsOf(v)) - 1 |-> val[ArgsOf(v)[n + 1]]]>>
      made == SelectSeq([n \in 1 .. block.shape.instrs |-> NumParams + n],
                LAMBDA v : v \in Live /\ OpOf(v) \in {"global", "new_object", "get_attr", "call"})
  IN  [n \in DOMAIN made |-> CallOf(made[n])]

\* The whole code of the block, run from its entry on whatever comes in: it takes
\* the error exit just when an operand is no integer; else the functions are
\* called in order and with their arguments, every argument of the branches and
\* the value returned is in its place, and the branch goes where the comparison
\* says.  The places were chosen backwards, one use at a time.
BlockComputes ==
  step = "done" =>
    \A in \in Incoming :
      LET val == Meaning(in)
          m == Run(s.code, Entered(in))
      IN  CodeIsRight(val) =>
            /\ m.error <=> TypeError(val)
            /\ ~m.error =>
                 /\ m.calls = ExpectedCalls(val)
                 /\ \A n \in DOMAIN block.term.outs :
                      LET v == block.term.outs[n][1]
                      IN  Same(m.at[IF block.term.kind = "return" THEN RAX ELSE LocOf(v)], val[v])
                 /\ IsFused =>
                      (Holds(K(block, block.term.cond), m.flags[1], m.flags[2])
                        <=> Holds(K(block, block.term.cond),
                                  val[ArgsOf(block.term.cond)[1]], val[ArgsOf(block.term.cond)[2]]))

=============================================================================
