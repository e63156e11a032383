---------------------------- MODULE TypeInference ----------------------------
(***************************************************************************)
(* ojit_assign_types on the functions that the parser leaves: from the     *)
(* first block to the last, the instructions get their types, and then     *)
(* the branch at the end takes the types of its arguments to the           *)
(* parameters of its targets, or the other way round.  The code generator  *)
(* checks no operand that has the type "int".                              *)
(*                                                                         *)
(* ojit_optimize_block first lets the peephole optimizer (Peephole) change *)
(* the block.  Here are the functions in which none of its patterns fits.  *)
(***************************************************************************)
EXTENDS FunctionParser

VARIABLES
  pass,    \* parse, types, params (in OptimizeParams), or done
  at,      \* the block the pass is at; 0 is NULL
  types,   \* base.type of every instruction: types[block][position]
  passed   \* history: the values that were passed on while their type was unknown

passVars == <<vars, pass, at, types, passed>>

TypeInit == Init /\ pass = "parse" /\ at = 0 /\ types = << >> /\ passed = {}

Parse ==
  /\ Next
  /\ UNCHANGED <<pass, at, types, passed>>

\* builder_add_instr gives every instruction the type unknown.
Unassigned == [b \in DOMAIN ir.blocks |-> [i \in DOMAIN ir.blocks[b].instrs |-> "unknown"]]

\* One of the three patterns of the peephole optimizer fits: two numbers are added,
\* or a number and a sum that is used once and has a number in it.
HasFold ==
  \E b \in DOMAIN ir.blocks : \E i \in DOMAIN ir.blocks[b].instrs :
    LET instrs == ir.blocks[b].instrs
        a == instrs[i].ops[1][2]
        c == instrs[i].ops[2][2]
        IsInt(k) == instrs[k].id = "INT"
        IsSum(k) == /\ instrs[k].id = "ADD"
                    /\ instrs[k].refs = 1
                    /\ \E j \in 1 .. 2 : IsInt(instrs[k].ops[j][2])
    IN  /\ instrs[i].id = "ADD"
        /\ \/ IsInt(a) /\ IsInt(c)
           \/ IsInt(a) /\ IsSum(c)
           \/ IsSum(a) /\ IsInt(c)

\* ojit_optimize_func.
OptimizeFunction ==
  /\ status = "done"
  /\ pass = "parse"
  /\ ~HasFold
  /\ pass' = "types"
  /\ at' = 1
  /\ types' = Unassigned
  /\ UNCHANGED <<vars, passed>>

-----------------------------------------------------------------------------
\* The switch over the instructions of a block, in their order.
AssignInstructions(b) ==
  LET instrs == ir.blocks[b].instrs
      Of[i \in DOMAIN instrs] ==
        IF instrs[i].id \in {"INT", "ADD", "SUB", "CMP"} THEN "int"
        ELSE IF instrs[i].id = "PARAM" THEN types[b][i]
        ELSE IF instrs[i].id = "SET_LOC" THEN Of[instrs[i].ops[2][2]]
        ELSE "unknown"
  IN  Of

\* Mutant: a parameter that has a type is not looked at again.
JoinUntyped(st, to, from, i) ==
  LET v == ValueIn(ir.blocks[from].vars, ir.blocks[to].instrs[i].name)
      argument == st.types[from][v[2]]
  IN  IF ir.blocks[to].instrs[i].refs = 0 \/ st.types[to][i] # "unknown" THEN st
      ELSE IF argument = "unknown" THEN [st EXCEPT !.passed = @ \cup {v}]
      ELSE [st EXCEPT !.types[to][i] = argument]

\* One parameter i of the block to: st has the types and the values passed on
\* while unknown.  No type is ever conflicting: there is no second known type.
Join(st, to, from, i) ==
  LET v == ValueIn(ir.blocks[from].vars, ir.blocks[to].instrs[i].name)
      old == st.types[to][i]
      argument == st.types[from][v[2]]
  IN  IF ir.blocks[to].instrs[i].refs = 0 THEN st
      ELSE IF argument = "unknown"
      THEN [types |-> [st.types EXCEPT ![from][v[2]] = old], passed |-> st.passed \cup {v}]
      ELSE [st EXCEPT !.types[to][i] = IF old = "unknown" THEN argument ELSE old]

\* a().  It follows the name of a parameter that is used and was taken back.
JoinFails(to) ==
  \E i \in Params(ir.blocks[to]) \ Enabled(ir.blocks[to]) : ir.blocks[to].instrs[i].refs > 0

JoinAll(st, to, from) ==
  LET n == Cardinality(Params(ir.blocks[to]))
      Joined[i \in 0 .. n] ==
        IF i = 0 THEN st
        ELSE IF i \in Enabled(ir.blocks[to]) THEN Join(Joined[i - 1], to, from, i)
        ELSE Joined[i - 1]
  IN  Joined[n]

JoinTargets(st, b) ==
  LET targets == ir.blocks[b].term.targets
      Joined[n \in 0 .. Len(targets)] ==
        IF n = 0 THEN st ELSE JoinAll(Joined[n - 1], targets[n], b)
  IN  Joined[Len(targets)]

\* ojit_assign_types, and ojit_optimize_func going on to the next block.
AssignTypes ==
  LET assigned == [types |-> [types EXCEPT ![at] = AssignInstructions(at)], passed |-> passed]
      joined == JoinTargets(assigned, at)
  IN  /\ pass = "types"
      /\ status = "done"
      /\ at # 0
      /\ IF \E t \in Targets(at) : JoinFails(t)
         THEN status' = "crash" /\ UNCHANGED <<at, types, passed>>
         ELSE /\ types' = joined.types
              /\ passed' = joined.passed
              /\ at' = ir.blocks[at].next
              /\ UNCHANGED status
      /\ UNCHANGED <<ir, frames, mode, want, vals, text, pass>>

-----------------------------------------------------------------------------
\* The largest set of values that are integers whenever the values of known are:
\* results of arithmetic, assignments of members, parameters whose arguments are
\* members on every edge.  A parameter of the function may be anything.
IntValues(known) ==
  LET values == UNION {{b} \X DOMAIN ir.blocks[b].instrs : b \in Blocks}
      Stays(v, S) ==
        LET instr == ir.blocks[v[1]].instrs[v[2]]
        IN  \/ v \in known
            \/ instr.id \in {"INT", "ADD", "SUB", "CMP"}
            \/ instr.id = "SET_LOC" /\ instr.ops[2] \in S
            \/ /\ instr.id = "PARAM" /\ v[1] # 1 /\ instr.name # Null
               /\ \A p \in Predecessors(v[1]) : ValueIn(ir.blocks[p].vars, instr.name) \in S
      Left[n \in 0 .. Cardinality(values)] ==
        IF n = 0 THEN values ELSE {v \in Left[n - 1] : Stays(v, Left[n - 1])}
  IN  Left[Cardinality(values)]

\* When the types are assigned, a value typed "int", whose uses are not checked at
\* run time, is an integer: unless a value was passed on while its type was not
\* known yet, the one way in which the pass guesses (it never comes back: a call
\* result, or around a loop a parameter, then takes or keeps the wrong type).
\* So the order of the blocks and one visit to every edge are enough for all else.
IntsAreInts ==
  pass \in {"params", "done"} =>
    \A b \in Blocks : \A i \in DOMAIN types[b] :
      types[b][i] = "int" => <<b, i>> \in IntValues(passed)

=============================================================================
