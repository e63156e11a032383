--------------------------- MODULE FunctionParser ---------------------------
(***************************************************************************)
(* parser.c turning one function into IR.  The recursive descent is a      *)
(* stack: frames holds the statements being parsed (parse_block, parse_if, *)
(* parse_while and the blocks in their local variables), vals the values   *)
(* of the operands being parsed in an expression (the local variables of   *)
(* parse_addition and its like), innermost last.  The source text is       *)
(* whatever the grammar allows: each action is the parser meeting one more *)
(* piece of it.                                                            *)
(***************************************************************************)
EXTENDS IRBuilder

\* The texts to parse, by what may occur in them:
\*   names: the names of variables; operations: the kinds of instructions
\*   statements: bound on the statements
\*   instrs: bound on the instructions of a block, its parameters aside
\*   vals: bound on the operands waiting in an expression, and on arguments
CONSTANT Sources

ASSUME SourcesAssumption ==
  \A t \in Sources :
    /\ t = [names |-> t.names, operations |-> t.operations, statements |-> t.statements,
            instrs |-> t.instrs, vals |-> t.vals]
    /\ t.statements \in Nat /\ t.instrs \in Nat /\ t.vals \in Nat
    /\ Null \notin t.names

VARIABLES
  ir,      \* the function and its builder
  frames,  \* the compound statements around the current position
  mode,    \* params, statement, expression or ended (a statement just ended)
  want,    \* the statement an expression belongs to
  vals,    \* its operands: [val, lvalue, open]
  text,    \* what may still occur in the text
  status   \* parsing, done, exit (ojit_exit(-1)) or crash (NULL followed)

vars == <<ir, frames, mode, want, vals, text, status>>

Parsing(m) == status = "parsing" /\ mode = m

Top(seq) == seq[Len(seq)]
Pop(seq, n) == SubSeq(seq, 1, Len(seq) - n)

Init ==
  /\ ir = NewFunction
  /\ frames = <<[kind |-> "func"]>>
  /\ mode = "params"
  /\ want = "none"
  /\ vals = << >>
  /\ text \in Sources
  /\ status = "parsing"

\* parse_function: one more parameter name.  A name met twice is refused.
Parameter(x) ==
  /\ Parsing("params")
  /\ LET added == AddParameter(ir, x)
     IN  IF HasVar(ir, x)
         THEN ir' = added /\ status' = "exit"
         ELSE ir' = AddVar(added, x, LastValue(added)) /\ UNCHANGED status
  /\ UNCHANGED <<frames, mode, want, vals, text>>

OpenBody ==
  /\ Parsing("params")
  /\ mode' = "statement"
  /\ UNCHANGED <<ir, frames, want, vals, text, status>>

-----------------------------------------------------------------------------
(***************************************************************************)
(* Expressions.  lvalue is what lvalue_state holds after the operand was   *)
(* parsed: the last variable or attribute met at its level.                *)
(***************************************************************************)
NoLValue == [kind |-> "none"]
Operand(val, lvalue) == [val |-> val, lvalue |-> lvalue, open |-> FALSE]

\* The source uses this operation, and the block has room for n instructions.
CanAdd(id, n) ==
  /\ id \in text.operations
  /\ Len(Block(ir).instrs) - Cardinality(Params(Block(ir))) + n <= text.instrs

Expression ==
  /\ Parsing("expression")
  /\ UNCHANGED <<frames, mode, want, text, status>>

\* parse_terminal, on a name that is a variable of the current block.
Variable(x) ==
  /\ Expression
  /\ Len(vals) < text.vals
  /\ HasVar(ir, x)
  /\ vals' = Append(vals, Operand(GetVar(ir, x), [kind |-> "var", name |-> x]))
  /\ UNCHANGED ir

\* parse_terminal, on a number, a name that is no variable, or braces.
Leaf(id) ==
  /\ Expression
  /\ Len(vals) < text.vals
  /\ CanAdd(id, 1)
  /\ ir' = Emit(ir, Instr(id, Null, << >>), << >>)
  /\ vals' = Append(vals, Operand(LastValue(ir'), NoLValue))

\* Parentheses: the inner parse_assign restores the outer lvalue_state.
Parenthesised ==
  /\ Expression
  /\ vals # << >>
  /\ ~Top(vals).open
  /\ vals' = [vals EXCEPT ![Len(vals)].lvalue = NoLValue]
  /\ UNCHANGED ir

TwoOperands ==
  /\ Len(vals) >= 2
  /\ ~vals[Len(vals) - 1].open
  /\ ~Top(vals).open

\* parse_addition and parse_compare.
Combine(id) ==
  LET a == vals[Len(vals) - 1]
      b == Top(vals)
      lvalue == IF b.lvalue = NoLValue THEN a.lvalue ELSE b.lvalue
  IN  /\ Expression
      /\ TwoOperands
      /\ CanAdd(id, 1)
      /\ ir' = Emit(ir, Instr(id, Null, <<a.val, b.val>>), <<a.val, b.val>>)
      /\ vals' = Append(Pop(vals, 2), Operand(LastValue(ir'), lvalue))

\* parse_get_attribute: the location, then the value loaded from it.
Attribute ==
  LET obj == Top(vals).val
      located == Emit(ir, Instr("GET_ATTR", Null, <<obj>>), <<obj>>)
      loc == LastValue(located)
  IN  /\ Expression
      /\ vals # << >>
      /\ ~Top(vals).open
      /\ CanAdd("GET_ATTR", 2)
      /\ ir' = Emit(located, Instr("GET_LOC", Null, <<loc>>), <<loc>>)
      /\ vals' = [vals EXCEPT ![Len(vals)] =
                    Operand(LastValue(ir'), [kind |-> "attr", loc |-> loc])]

\* parse_function_call: the call comes before its arguments, and does not
\* count as a use of the callee.
BeginCall ==
  /\ Expression
  /\ vals # << >>
  /\ ~Top(vals).open
  /\ CanAdd("CALL", 1)
  /\ ir' = Emit(ir, Instr("CALL", Null, <<Top(vals).val>>), << >>)
  /\ vals' = [vals EXCEPT ![Len(vals)].val = LastValue(ir'), ![Len(vals)].open = TRUE]

Argument ==
  /\ Expression
  /\ Len(vals) >= 2
  /\ vals[Len(vals) - 1].open
  /\ ~Top(vals).open
  /\ Len(Block(ir).instrs[vals[Len(vals) - 1].val[2]].ops) < text.vals
  /\ ir' = AddArgument(ir, vals[Len(vals) - 1].val, Top(vals).val)
  /\ vals' = Pop(vals, 1)

EndCall ==
  /\ Expression
  /\ vals # << >>
  /\ Top(vals).open
  /\ vals' = [vals EXCEPT ![Len(vals)].open = FALSE]
  /\ UNCHANGED ir

\* parse_assign with "=": lvalue_set, whose result is the assigned value.
AssignVariable ==
  LET left == vals[Len(vals) - 1].lvalue
  IN  /\ Expression
      /\ TwoOperands
      /\ left.kind = "var"
      /\ ir' = SetVar(ir, left.name, Top(vals).val)
      /\ vals' = Append(Pop(vals, 2), Operand(Top(vals).val, NoLValue))

AssignAttribute ==
  LET left == vals[Len(vals) - 1].lvalue
      value == Top(vals).val
      set == [Instr("SET_LOC", Null, <<left.loc, value>>) EXCEPT !.refs = 1]
  IN  /\ Expression
      /\ TwoOperands
      /\ left.kind = "attr"
      /\ CanAdd("SET_LOC", 1)
      /\ ir' = Emit(ir, set, <<left.loc, value>>)
      /\ vals' = Append(Pop(vals, 2), Operand(LastValue(ir'), NoLValue))

AssignNothing ==
  /\ Parsing("expression")
  /\ TwoOperands
  /\ vals[Len(vals) - 1].lvalue = NoLValue
  /\ status' = "exit"
  /\ UNCHANGED <<ir, frames, mode, want, vals, text>>

-----------------------------------------------------------------------------
(***************************************************************************)
(* Statements.                                                             *)
(***************************************************************************)
Innermost == Top(frames).kind
NextMode(fs) == IF Top(fs).kind \in {"func", "block"} THEN "statement" ELSE "ended"

\* builder_enter_block, or the crash on a parameter that was disabled.
Enter(new, b, fs, m) ==
  /\ frames' = fs
  /\ mode' = m
  /\ IF CanEnter(new, b)
     THEN ir' = EnterBlock(new, b) /\ UNCHANGED status
     ELSE ir' = new /\ status' = "crash"

\* parse_statement.
Statement ==
  /\ Parsing("statement")
  /\ text.statements > 0
  /\ text' = [text EXCEPT !.statements = @ - 1]

\* parse_let, parse_return, parse_if and the expression statement begin with
\* an expression; parse_while first gives its condition a block of its own.
BeginExpression(w) ==
  /\ Statement
  /\ mode' = "expression"
  /\ want' = w
  /\ UNCHANGED <<ir, frames, vals, status>>

BeginWhile ==
  LET cond == Len(ir.blocks) + 1
  IN  /\ Statement
      /\ want' = "while"
      /\ Enter(Branch(AddBlock(ir, ir.current), cond), cond, frames, "expression")
      /\ UNCHANGED vals

\* The expression is complete: back in the statement that asked for it.
Complete(w) ==
  /\ Parsing("expression")
  /\ want = w
  /\ Len(vals) = 1
  /\ ~Top(vals).open
  /\ want' = "none"
  /\ vals' = << >>
  /\ UNCHANGED text

EndExpression ==
  /\ Complete("value")
  /\ mode' = NextMode(frames)
  /\ UNCHANGED <<ir, frames, status>>

EndLet(x) ==
  /\ Complete("let")
  /\ IF HasVar(ir, x)
     THEN status' = "exit" /\ UNCHANGED ir
     ELSE ir' = AddVar(ir, x, Top(vals).val) /\ UNCHANGED status
  /\ mode' = NextMode(frames)
  /\ UNCHANGED frames

EndReturn ==
  /\ Complete("return")
  /\ ir' = Return(ir, Top(vals).val)
  /\ mode' = NextMode(frames)
  /\ UNCHANGED <<frames, status>>

\* Mutant: each of the three blocks goes right behind the current one.
BeginThenReversed ==
  LET then == Len(ir.blocks) + 1
      else == then + 1
      after == then + 2
      added == AddBlock(AddBlock(AddBlock(ir, ir.current), ir.current), ir.current)
  IN  /\ Complete("if")
      /\ Enter(CBranch(added, Top(vals).val, then, else), then,
               Append(frames, [kind |-> "then", else |-> else, after |-> after]),
               "statement")

BeginThen ==
  LET then == Len(ir.blocks) + 1
      else == then + 1
      after == then + 2
      added == AddBlock(AddBlock(AddBlock(ir, ir.current), then), else)
  IN  /\ Complete("if")
      /\ Enter(CBranch(added, Top(vals).val, then, else), then,
               Append(frames, [kind |-> "then", else |-> else, after |-> after]),
               "statement")

\* Only a branch that has not ended in a return goes on behind the if.
BranchUnlessEnded(b) == IF Block(ir).term.id = "NONE" THEN Branch(ir, b) ELSE ir

\* Mutant: the then branch is left as it is.
BeginElseUnbranched ==
  /\ Parsing("ended")
  /\ Innermost = "then"
  /\ Enter(ir, Top(frames).else,
           Append(Pop(frames, 1), [kind |-> "else", after |-> Top(frames).after]),
           "statement")
  /\ UNCHANGED <<want, vals, text>>

BeginElse ==
  /\ Parsing("ended")
  /\ Innermost = "then"
  /\ Enter(BranchUnlessEnded(Top(frames).after), Top(frames).else,
           Append(Pop(frames, 1), [kind |-> "else", after |-> Top(frames).after]),
           "statement")
  /\ UNCHANGED <<want, vals, text>>

EndIf ==
  /\ Parsing("ended")
  /\ Innermost = "else"
  /\ Enter(BranchUnlessEnded(Top(frames).after), Top(frames).after,
           Pop(frames, 1), NextMode(Pop(frames, 1)))
  /\ UNCHANGED <<want, vals, text>>

BeginDo ==
  LET do == Len(ir.blocks) + 1
      after == do + 1
      added == AddBlock(AddBlock(ir, ir.current), do)
  IN  /\ Complete("while")
      /\ Enter(CBranch(added, Top(vals).val, do, after), do,
               Append(frames, [kind |-> "while", cond |-> ir.current, after |-> after]),
               "statement")

EndWhile ==
  /\ Parsing("ended")
  /\ Innermost = "while"
  /\ Enter(Branch(ir, Top(frames).cond), Top(frames).after,
           Pop(frames, 1), NextMode(Pop(frames, 1)))
  /\ UNCHANGED <<want, vals, text>>

OpenBlock ==
  LET inside == Len(ir.blocks) + 1
  IN  /\ Statement
      /\ Enter(Branch(AddBlock(ir, ir.current), inside), inside,
               Append(frames, [kind |-> "block"]), "statement")
      /\ UNCHANGED <<want, vals>>

CloseBlock ==
  LET after == Len(ir.blocks) + 1
  IN  /\ Parsing("statement")
      /\ Innermost = "block"
      /\ Enter(Branch(AddBlock(ir, ir.current), after), after,
               Pop(frames, 1), NextMode(Pop(frames, 1)))
      /\ UNCHANGED <<want, vals, text>>

CloseFunction ==
  /\ Parsing("statement")
  /\ Innermost = "func"
  /\ status' = "done"
  /\ UNCHANGED <<ir, frames, mode, want, vals, text>>

Next ==
  \/ \E x \in text.names : Parameter(x) \/ Variable(x) \/ EndLet(x)
  \/ OpenBody
  \/ \E id \in {"INT", "GLOBAL", "NEW_OBJECT"} : Leaf(id)
  \/ \E id \in {"ADD", "SUB", "CMP"} : Combine(id)
  \/ Parenthesised \/ Attribute \/ BeginCall \/ Argument \/ EndCall
  \/ AssignVariable \/ AssignAttribute \/ AssignNothing
  \/ \E w \in {"value", "let", "return", "if"} : BeginExpression(w)
  \/ EndExpression \/ EndReturn
  \/ BeginThen \/ BeginElse \/ EndIf
  \/ BeginWhile \/ BeginDo \/ EndWhile
  \/ OpenBlock \/ CloseBlock
  \/ CloseFunction

Spec == Init /\ [][Next]_vars

-----------------------------------------------------------------------------
(***************************************************************************)
(* What the rest of the compiler relies on.                                *)
(***************************************************************************)
Blocks == DOMAIN ir.blocks
Targets(b) == {ir.blocks[b].term.targets[i] : i \in DOMAIN ir.blocks[b].term.targets}
Predecessors(b) == {p \in Blocks : b \in Targets(p)}

\* A value never leaves its block: the code generator assigns registers one
\* block at a time, so an operand, a variable, a terminator's value or a
\* pending operand of another block would be read from a stale register.  An
\* operand also comes before its use, except a call's arguments.
Defined(b, v, end) == v[1] = b /\ v[2] \in 1 .. end
ValuesAreLocal ==
  /\ \A b \in Blocks :
       LET block == ir.blocks[b]
           n == Len(block.instrs)
       IN  /\ \A i \in 1 .. n : \A j \in DOMAIN block.instrs[i].ops :
                Defined(b, block.instrs[i].ops[j],
                        IF block.instrs[i].id = "CALL" /\ j > 1 THEN n ELSE i - 1)
           /\ \A i \in DOMAIN block.vars : Defined(b, block.vars[i].val, n)
           /\ \A i \in DOMAIN block.term.ops : Defined(b, block.term.ops[i], n)
  /\ \A i \in DOMAIN vals :
       LET n == Len(Block(ir).instrs)
       IN  /\ Defined(ir.current, vals[i].val, n)
           /\ vals[i].lvalue.kind = "attr" => Defined(ir.current, vals[i].lvalue.loc, n)

\* Every edge has an argument for each parameter its target still has, the
\* target's num_params counts them, and no two have the same name: what
\* resolve_branch looks up for each parameter, without checking, is there.
EdgesPassEveryParameter ==
  \A b \in Blocks :
    LET block == ir.blocks[b]
        NameOf(i) == block.instrs[i].name
    IN  /\ block.num_params = Cardinality(Enabled(block))
        /\ status # "exit" => \A i, j \in Enabled(block) : NameOf(i) = NameOf(j) => i = j
        /\ \A p \in Predecessors(b) :
             {NameOf(i) : i \in Enabled(block)} \subseteq NamesIn(ir.blocks[p].vars)

\* The uses of a value that the builders count: operands other than a callee, a
\* terminator's value, arguments of the edges.
OperandUses(b, v) ==
  LET instrs == ir.blocks[b].instrs
      operands == UNION {{i} \X DOMAIN instrs[i].ops : i \in DOMAIN instrs}
  IN  {u \in operands : /\ instrs[u[1]].ops[u[2]] = v
                        /\ ~(instrs[u[1]].id = "CALL" /\ u[2] = 1)}
EdgeUses(b, v) ==
  LET NameOf(u) == ir.blocks[u[1]].instrs[u[2]].name
      given == ir.blocks[b].vars
  IN  {u \in UNION {{t} \X Enabled(ir.blocks[t]) : t \in Targets(b)} :
         NameOf(u) \in NamesIn(given) /\ ValueIn(given, NameOf(u)) = v}
ReturnUses(b, v) == {j \in DOMAIN ir.blocks[b].term.ops : ir.blocks[b].term.ops[j] = v}

-----------------------------------------------------------------------------
(***************************************************************************)
(* The shape of the function.                                              *)
(***************************************************************************)
\* The blocks in the order of next_block, from the first.
Order ==
  LET after[n \in 1 .. Len(ir.blocks)] ==
        IF n = 1 THEN 1
        ELSE LET b == after[n - 1] IN IF b = 0 THEN 0 ELSE ir.blocks[b].next
  IN  after

ListHoldsEveryBlock ==
  /\ {Order[n] : n \in DOMAIN Order} = Blocks
  /\ ir.blocks[ir.last].next = 0
  /\ \A b \in Blocks :
       /\ ir.blocks[b].next # 0 => ir.blocks[ir.blocks[b].next].prev = b
       /\ ir.blocks[b].prev # 0 => ir.blocks[ir.blocks[b].prev].next = b

PredecessorComesFirst ==
  \A n \in DOMAIN Order :
    Predecessors(Order[n]) # {} =>
      \E m \in 1 .. n - 1 : Order[m] \in Predecessors(Order[n])

TrueTargetIsNext ==
  \A b \in Blocks :
    ir.blocks[b].term.id = "CBRANCH" => ir.blocks[b].next = ir.blocks[b].term.targets[1]

\* However statements nest, next_block leads through every block once and ends
\* at last_block, and prev_block leads back: assign_types, the code generator
\* and the layout of the segments each walk the list in one direction.  A block
\* that is branched to has a predecessor earlier in the list: the code generator
\* lets the first branch to a block choose where its parameters arrive, and a
\* block met before any branch to it would find entry_loc unset.  The true
\* target of a conditional branch is the next block: emit_cbranch jumps there
\* "if not zero" whatever the comparison was, so when a comparison holds for
\* equal operands the code must fall through into the right block.
BlockOrder == ListHoldsEveryBlock /\ PredecessorComesFirst /\ TrueTargetIsNext

\* The blocks some enclosing statement will still enter.
Pending ==
  UNION {(IF frames[i].kind = "then" THEN {frames[i].else} ELSE {})
           \cup (IF frames[i].kind \in {"then", "else", "while"}
                 THEN {frames[i].after} ELSE {}) : i \in DOMAIN frames}

\* Only the current block and those still to be entered have no terminator, so
\* at most the last block of a function falls through to the error exit.
OnlyOpenBlocksLackTerminator ==
  status # "crash" =>
    \A b \in Blocks :
      ir.blocks[b].term.id = "NONE" => b = ir.current \/ b \in Pending

Reachable ==
  LET from[n \in 0 .. Len(ir.blocks)] ==
        IF n = 0 THEN {1} ELSE from[n - 1] \cup UNION {Targets(b) : b \in from[n - 1]}
  IN  from[Len(ir.blocks)]

\* A parameter is taken back only because two predecessors disagree on the
\* variables, and, unless the parser came to follow its NULL name, only because
\* one of them is dead code: behind an if whose branches both return no
\* variable is left, and a loop around it loses the parameters of its condition.
OnlyDeadCodeDropsParameters ==
  \A b \in Blocks :
    Enabled(ir.blocks[b]) # Params(ir.blocks[b]) =>
      /\ \E p, q \in Predecessors(b) :
           NamesIn(ir.blocks[p].vars) # NamesIn(ir.blocks[q].vars)
      /\ status # "crash" => \E p \in Predecessors(b) : p \notin Reachable

=============================================================================
