------------------------------- MODULE Peephole -------------------------------
(***************************************************************************)
(* ojit_peephole_optimizer: the additions of a basic block are folded in   *)
(* place, one instruction after the other, and each as often as one of the *)
(* three patterns fits.  The program may move a constant out of an inner   *)
(* addition only while it knows who else uses it: that is what the         *)
(* reference counts of the instructions are for.                           *)
(***************************************************************************)
EXTENDS Integers, Sequences, FiniteSets

CONSTANTS
  Ints,       \* the integers, 2^32 in the code
  Constants,  \* the numbers at the beginning of the block, in this order
  MaxAdds,    \* bound on the additions of the block
  MaxUsers    \* bound on the uses of its values outside its additions

ASSUME PeepholeAssumption ==
  /\ Ints \in Nat \ {0}
  /\ Constants \in Seq(0 .. Ints - 1)

VARIABLES
  instrs,      \* block->first_instrs; what is outside Instr stays as it was
  users,       \* the values used by the terminator, by calls and other blocks
  stage,       \* build, fold or done
  at,          \* the position of the loop over the instructions
  source,      \* history: the instructions as the parser left them
  overwritten  \* history: the constants that changed while others used them

vars == <<instrs, users, stage, at, source, overwritten>>

Word == 0 .. Ints - 1

Parameter == [id |-> "PARAM", constant |-> 0, a |-> 0, b |-> 0, refs |-> 0]
Number(c) == [id |-> "INT", constant |-> c, a |-> 0, b |-> 0, refs |-> 0]
AddOf(a, b) == [id |-> "ADD", constant |-> 0, a |-> a, b |-> b, refs |-> 0]

Is(id, i) == instrs[i].id = id

-----------------------------------------------------------------------------
Init ==
  /\ instrs = <<Parameter>> \o [n \in DOMAIN Constants |-> Number(Constants[n])]
  /\ users = {}
  /\ stage = "build"
  /\ at = 1
  /\ source = << >>
  /\ overwritten = {}

\* builder_Add counts both operands.
BuilderAdd(a, b) ==
  /\ stage = "build"
  /\ users = {}
  /\ Len(instrs) < 1 + Len(Constants) + MaxAdds
  /\ LET Counted(i) == [instrs[i] EXCEPT !.refs = @ + (IF i = a THEN 1 ELSE 0)
                                                   + (IF i = b THEN 1 ELSE 0)]
     IN  instrs' = Append([i \in DOMAIN instrs |-> Counted(i)], AddOf(a, b))
  /\ UNCHANGED <<users, stage, at, source, overwritten>>

\* Anything else that takes the value: a return, a branch, a call.
OtherUse(i) ==
  /\ stage = "build"
  /\ Cardinality(users) < MaxUsers
  /\ i \notin users
  /\ users' = users \cup {i}
  /\ instrs' = [instrs EXCEPT ![i].refs = @ + 1]
  /\ UNCHANGED <<stage, at, source, overwritten>>

Optimize ==
  /\ stage = "build"
  /\ stage' = "fold"
  /\ source' = instrs
  /\ UNCHANGED <<instrs, users, at, overwritten>>

Folding == stage = "fold" /\ at <= Len(instrs)

\* Mutant: the instruction remains an addition.
ReplaceIntKeepingId(i, c) == [i EXCEPT !.constant = c]

\* replace_instr_int and replace_instr_add.
ReplaceInt(i, c) == [i EXCEPT !.id = "INT", !.constant = c]
ReplaceAdd(i, a, b) == [i EXCEPT !.id = "ADD", !.a = a, !.b = b]

MatchAdd(type_a, type_b) ==
  Is("ADD", at) /\ Is(type_a, instrs[at].a) /\ Is(type_b, instrs[at].b)

Sum(c, d) == (c + d) % Ints

\* fold_add_int_int.
FoldIntInt ==
  /\ Folding
  /\ MatchAdd("INT", "INT")
  /\ instrs' = [instrs EXCEPT ![at] =
       ReplaceInt(@, Sum(instrs[instrs[at].a].constant, instrs[instrs[at].b].constant))]
  /\ UNCHANGED <<users, stage, at, source, overwritten>>

\* Mutants: the inner addition may have other uses; only its second operand is
\* tried; its first operand is always taken for the constant.
FoldableWhenShared(inner) == Is("INT", instrs[inner].a) \/ Is("INT", instrs[inner].b)
FoldableOnRight(inner) == instrs[inner].refs = 1 /\ Is("INT", instrs[inner].b)

\* The condition in fold_add_int_add and fold_add_add_int.
Foldable(inner) ==
  /\ instrs[inner].refs = 1
  /\ Is("INT", instrs[inner].a) \/ Is("INT", instrs[inner].b)

InnerConstAlwaysLeft(inner) == instrs[inner].a

InnerConst(inner) == IF Is("INT", instrs[inner].a) THEN instrs[inner].a ELSE instrs[inner].b
InnerVal(inner) == IF Is("INT", instrs[inner].a) THEN instrs[inner].b ELSE instrs[inner].a

\* Somebody but these two instructions uses the value.
UsedOutside(i, others) ==
  \/ i \in users
  \/ \E j \in DOMAIN instrs \ others : Is("ADD", j) /\ i \in {instrs[j].a, instrs[j].b}

\* fold_commutative_add: the outer constant becomes the sum, whoever uses it.
FoldCommutative(inner, outer_const) ==
  LET inner_const == InnerConst(inner)
      sum == Sum(instrs[outer_const].constant, instrs[inner_const].constant)
      replaced == [instrs EXCEPT ![outer_const] = ReplaceInt(@, sum),
                                 ![at] = ReplaceAdd(@, outer_const, InnerVal(inner)),
                                 ![inner].refs = @ - 1]
  IN  /\ instrs' = [replaced EXCEPT ![inner_const].refs = @ - 1]
      /\ overwritten' = IF UsedOutside(outer_const, {at, inner})
                        THEN overwritten \cup {outer_const} ELSE overwritten
      /\ UNCHANGED <<users, stage, at, source>>

FoldIntAdd ==
  /\ Folding
  /\ MatchAdd("INT", "ADD")
  /\ Foldable(instrs[at].b)
  /\ FoldCommutative(instrs[at].b, instrs[at].a)

FoldAddInt ==
  /\ Folding
  /\ MatchAdd("ADD", "INT")
  /\ Foldable(instrs[at].a)
  /\ FoldCommutative(instrs[at].a, instrs[at].b)

\* No pattern fits, or the one that does cannot fold: on to the next one.
ContinueFold ==
  /\ Folding
  /\ ~MatchAdd("INT", "INT")
  /\ ~(MatchAdd("INT", "ADD") /\ Foldable(instrs[at].b))
  /\ ~(MatchAdd("ADD", "INT") /\ Foldable(instrs[at].a))
  /\ at' = at + 1
  /\ stage' = IF at = Len(instrs) THEN "done" ELSE "fold"
  /\ UNCHANGED <<instrs, users, source, overwritten>>

Fold == FoldIntInt \/ FoldIntAdd \/ FoldAddInt \/ ContinueFold

Next ==
  \/ \E a, b \in DOMAIN instrs : BuilderAdd(a, b)
  \/ \E i \in DOMAIN instrs : OtherUse(i)
  \/ Optimize
  \/ Fold

\* Once it was begun, the loop runs on by itself.
Spec == Init /\ [][Next]_vars /\ WF_vars(Fold)

-----------------------------------------------------------------------------
\* What the instructions of a program compute when the parameter is x.
Values(program, x) ==
  LET value[i \in DOMAIN program] ==
        IF program[i].id = "ADD" THEN (value[program[i].a] + value[program[i].b]) % Ints
        ELSE IF program[i].id = "INT" THEN program[i].constant ELSE x
  IN  value

\* The instructions each instruction of a program depends on, itself included.
Reads(program) ==
  LET reads[i \in DOMAIN program] ==
        IF program[i].id # "ADD" THEN {i}
        ELSE {i} \cup reads[program[i].a] \cup reads[program[i].b]
  IN  reads

\* Whatever is folded, a value that is used elsewhere is what the source says,
\* for every parameter.  fold_commutative_add writes the sum into the outer
\* constant without looking at its other uses: what reads such a constant is the
\* one exception.
UsedValuesStay ==
  stage # "build" =>
    LET reads == Reads(source)
    IN  \A i \in users :
          reads[i] \cap overwritten = {}
            => \A x \in Word : Values(instrs, x)[i] = Values(source, x)[i]

\* No instruction is counted less often than it is used by what is still needed:
\* a fold that finds a count of one really has the only use before it.
CountsCoverUses ==
  LET reads == Reads(instrs)
      needed == UNION {reads[i] : i \in users}
      Uses(i) == Cardinality({j \in needed : Is("ADD", j) /\ instrs[j].a = i})
               + Cardinality({j \in needed : Is("ADD", j) /\ instrs[j].b = i})
               + Cardinality(users \cap {i})
  IN  \A i \in needed : instrs[i].refs >= Uses(i)

\* One pass is enough: nothing that could be folded is left behind the loop, the
\* last fold of an instruction never opens another one before it.
NothingLeftToFold ==
  \A i \in 1 .. (IF stage = "build" THEN 0 ELSE at - 1) :
    Is("ADD", i) =>
      LET a == instrs[i].a
          b == instrs[i].b
          Movable(j) == /\ Is("ADD", j) /\ instrs[j].refs = 1
                        /\ Is("INT", instrs[j].a) \/ Is("INT", instrs[j].b)
      IN  /\ ~(Is("INT", a) /\ Is("INT", b))
          /\ ~(Is("INT", a) /\ Movable(b))
          /\ ~(Movable(a) /\ Is("INT", b))

\* The REPEAT_FOLD loop ends for every instruction.
FoldingEnds == stage = "fold" ~> stage = "done"

=============================================================================
