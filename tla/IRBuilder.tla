------------------------------ MODULE IRBuilder ------------------------------
(***************************************************************************)
(* The intermediate representation of asm_ir.h and the functions of        *)
(* asm_ir_builders.c that grow it.  A function is a list of basic blocks;  *)
(* a block has instructions, a table of the source variables with their    *)
(* current values, and a terminator.  A value is an instruction of the     *)
(* same block: what a block needs from its predecessors it gets through    *)
(* parameters, one per variable, which merge_blocks creates on the first   *)
(* branch to the block and takes back when a later branch has no value.    *)
(*                                                                         *)
(* Every operator takes the IR of the function being built, a record ir    *)
(* with the blocks in the order of their creation, builder->current_block  *)
(* and func->last_block, and gives the IR after the call.                  *)
(***************************************************************************)
EXTENDS Integers, Sequences, FiniteSets

CONSTANT Null  \* NULL where a name could be

\* instrs: base.index is the position - 1.  A value is <<block, position>>.
Instr(id, name, ops) == [id |-> id, name |-> name, ops |-> ops, refs |-> 0]
Term(id, ops, targets) == [id |-> id, ops |-> ops, targets |-> targets]

\* init_block; block 0 is NULL.
NewBlock ==
  [instrs |-> << >>, num_params |-> 0, term |-> Term("NONE", << >>, << >>),
   has_vars |-> FALSE, vars |-> << >>, prev |-> 0, next |-> 0]

\* create_function and create_builder.
NewFunction == [blocks |-> <<NewBlock>>, current |-> 1, last |-> 1]

Block(ir) == ir.blocks[ir.current]
LastValue(ir) == <<ir.current, Len(Block(ir).instrs)>>

\* INC_INSTR on every value of a sequence, or of a part of one.
Inc(blocks, values) ==
  LET Times(v) == Cardinality({j \in DOMAIN values : values[j] = v})
      Counted(b, i) == [blocks[b].instrs[i] EXCEPT !.refs = @ + Times(<<b, i>>)]
  IN  [b \in DOMAIN blocks |->
         [blocks[b] EXCEPT !.instrs = [i \in DOMAIN @ |-> Counted(b, i)]]]

\* builder_add_instr and what the builder_Xxx functions add to it.
Emit(ir, instr, uses) ==
  [ir EXCEPT
     !.blocks = [Inc(ir.blocks, uses) EXCEPT ![ir.current].instrs = Append(@, instr)]]

\* Mutant: the argument is not counted.
AddArgumentUncounted(ir, call, value) ==
  [ir EXCEPT !.blocks[call[1]].instrs[call[2]].ops = Append(@, value)]

\* builder_Call_argument; the argument is behind the call when it has
\* instructions of its own.
AddArgument(ir, call, value) ==
  [ir EXCEPT !.blocks =
     [Inc(ir.blocks, <<value>>) EXCEPT ![call[1]].instrs[call[2]].ops = Append(@, value)]]

-----------------------------------------------------------------------------
(***************************************************************************)
(* The variables of the current block: the ordered map of OrderedMap.tla,  *)
(* oldest first.                                                           *)
(***************************************************************************)
NamesIn(vars) == {vars[i].name : i \in DOMAIN vars}
ValueIn(vars, x) == vars[CHOOSE i \in DOMAIN vars : vars[i].name = x].val

HasVar(ir, x) == x \in NamesIn(Block(ir).vars)
GetVar(ir, x) == ValueIn(Block(ir).vars, x)

AddVar(ir, x, v) ==
  [ir EXCEPT !.blocks[ir.current].vars = Append(@, [name |-> x, val |-> v])]

SetVar(ir, x, v) ==
  [ir EXCEPT !.blocks[ir.current].vars =
     [i \in DOMAIN @ |-> IF @[i].name = x THEN [@[i] EXCEPT !.val = v] ELSE @[i]]]

\* builder_add_parameter.
AddParameter(ir, x) ==
  [Emit(ir, Instr("PARAM", x, << >>), << >>)
     EXCEPT !.blocks[ir.current].num_params = @ + 1]

\* The parameters at the front of a block.
Params(block) ==
  {i \in DOMAIN block.instrs : \A j \in 1 .. i : block.instrs[j].id = "PARAM"}
Enabled(block) == {i \in Params(block) : block.instrs[i].name # Null}

\* builder_add_block: a block behind after in the list.
AddBlock(ir, after) ==
  LET new == Len(ir.blocks) + 1
      behind == ir.blocks[after].next
      Relink(b) == [ir.blocks[b] EXCEPT !.prev = IF b = behind THEN new ELSE @,
                                        !.next = IF b = after THEN new ELSE @]
  IN  [ir EXCEPT
         !.blocks = Append([b \in DOMAIN ir.blocks |-> Relink(b)],
                           [NewBlock EXCEPT !.prev = after, !.next = behind]),
         !.last = IF @ = after THEN new ELSE @]

\* builder_enter_block declares a variable for each parameter.  It follows
\* var_name, so it must not meet a parameter that merge_blocks has disabled.
CanEnter(ir, b) == Enabled(ir.blocks[b]) = Params(ir.blocks[b])
\* Mutants: the values taken from the block that is left; nothing declared.
EnterBlockStale(ir, b) ==
  LET declared == [i \in 1 .. Cardinality(Params(ir.blocks[b])) |->
                     [name |-> ir.blocks[b].instrs[i].name, val |-> <<ir.current, i>>]]
  IN  [ir EXCEPT !.current = b, !.blocks[b].vars = @ \o declared]

EnterBlockBare(ir, b) == [ir EXCEPT !.current = b]

EnterBlock(ir, b) ==
  LET declared == [i \in 1 .. Cardinality(Params(ir.blocks[b])) |->
                     [name |-> ir.blocks[b].instrs[i].name, val |-> <<b, i>>]]
  IN  [ir EXCEPT !.current = b, !.blocks[b].vars = @ \o declared]

-----------------------------------------------------------------------------
(***************************************************************************)
(* merge_blocks: the arguments from's variables give to's parameters.      *)
(***************************************************************************)
Uses(vars, names) == [i \in {k \in DOMAIN vars : vars[k].name \in names} |-> vars[i].val]

\* Mutant of the later branch: a variable that is missing is overlooked.
MergeIntoAlways(blocks, to, from) ==
  LET names == {blocks[to].instrs[i].name : i \in Enabled(blocks[to])}
  IN  Inc(blocks, Uses(blocks[from].vars, names))

\* A later branch to a block: a variable it has no value for is dropped.
MergeInto(blocks, to, from) ==
  LET block == blocks[to]
      vars == blocks[from].vars
      kept == {i \in Enabled(block) : block.instrs[i].name \in NamesIn(vars)}
      Disable(i) == IF i \in Enabled(block) \ kept
                    THEN [block.instrs[i] EXCEPT !.name = Null] ELSE block.instrs[i]
      dropped == Cardinality(Enabled(block) \ kept)
      passed == {block.instrs[i].name : i \in kept}
  IN  Inc([blocks EXCEPT ![to].instrs = [i \in DOMAIN @ |-> Disable(i)],
                         ![to].num_params = @ - dropped],
          Uses(vars, passed))

\* The first branch to a block: a parameter for every variable, newest first.
MergeFirst(blocks, to, from) ==
  LET vars == blocks[from].vars
      n == Len(vars)
      params == [i \in 1 .. n |-> Instr("PARAM", vars[n + 1 - i].name, << >>)]
  IN  Inc([blocks EXCEPT ![to].instrs = @ \o params,
                         ![to].num_params = @ + n,
                         ![to].has_vars = TRUE],
          Uses(vars, NamesIn(vars)))

Merge(blocks, to, from) ==
  IF blocks[to].has_vars THEN MergeInto(blocks, to, from) ELSE MergeFirst(blocks, to, from)

SetTerm(ir, term, uses) ==
  [ir EXCEPT !.blocks = [Inc(ir.blocks, uses) EXCEPT ![ir.current].term = term]]

Return(ir, value) == SetTerm(ir, Term("RETURN", <<value>>, << >>), <<value>>)

Branch(ir, target) ==
  LET set == SetTerm(ir, Term("BRANCH", << >>, <<target>>), << >>)
  IN  [set EXCEPT !.blocks = Merge(@, target, ir.current)]

CBranch(ir, cond, t, f) ==
  LET set == SetTerm(ir, Term("CBRANCH", <<cond>>, <<t, f>>), <<cond>>)
  IN  [set EXCEPT !.blocks = Merge(Merge(@, t, ir.current), f, ir.current)]

=============================================================================
