----------------------------- MODULE BranchMoves -----------------------------
(***************************************************************************)
(* How the generated code passes arguments along the edges of the          *)
(* control-flow graph.  emit_terminator is the first thing emitted for a   *)
(* block, so none of its values has a location yet: resolve_branch gives   *)
(* one to every argument, the first branch to a block also chooses where   *)
(* its parameters arrive (entry_loc), and map_registers emits the moves,   *)
(* the last one first, since code is emitted backwards.  emit_cbranch does *)
(* this twice; the moves for the false target run before its jump, and so  *)
(* also on the way to the true target.                                     *)
(*                                                                         *)
(* The module then runs the moves, with the values themselves in their     *)
(* locations.                                                              *)
(***************************************************************************)
EXTENDS RegisterMoves, FiniteSets

CONSTANTS
  NumRegs,  \* the registers get_unused hands out: RAX RCX RDX R8 R9 R10 R11
  NumVars,  \* the variables of the block, each a parameter of its targets
  NumSlots  \* bound on the slots that entry_locs are in when the block is met

ASSUME BranchMovesAssumption ==
  NumRegs \in Nat /\ NumVars \in Nat /\ NumSlots \in Nat

Rows == 1 .. NumVars
Locs == {Reg(n) : n \in 1 .. NumRegs} \cup {Slot(n) : n \in 0 .. NumVars + NumSlots}
EntryLocs == {Reg(n) : n \in 1 .. NumRegs} \cup {Slot(n) : n \in 0 .. NumSlots - 1}

VARIABLES
  arg,      \* state->block->variables: the value of each variable
  own,      \* entry_loc of the values that are parameters of the block, or NoLoc
  targets,  \* the targets in the order emit_terminator resolves them
  needed,   \* for each target the parameters with refs > 0
  entry,    \* for each target entry_loc of its parameters
  loc,      \* GET_LOC of the values
  used,     \* state->used_registers
  num_vars, \* state->curr_num_vars
  current,  \* the target being resolved
  step,     \* defined, undefined, map, run, arrived, or exit
  row,      \* the parameter or row the step is at
  target_locs,   \* the locations of the parameters resolved so far
  from, to,      \* swap_from and swap_to
  code,          \* for each target the moves, in the order they will run
  spoiled,       \* an entry behind target_locs hit swap_to
  unseen,        \* history: parameters whose place is only behind target_locs
  content        \* when the code runs: the value in each location

vars == <<arg, own, targets, needed, entry, loc, used, num_vars, current, step, row,
          target_locs, from, to, code, spoiled, unseen, content>>
block == <<arg, own, targets, needed>>

-----------------------------------------------------------------------------
(***************************************************************************)
(* Initially the parser and the blocks before have settled: which values   *)
(* the variables have, where the block's own parameters arrive, and, if    *)
(* the target was branched to before, where its parameters do.  The two    *)
(* targets of a conditional branch are never branched to before.           *)
(***************************************************************************)
Distinct(f, S) == \A j, k \in S : j # k => f[j] # f[k]

NoRows == [k \in Rows |-> NoLoc]

SettledEntries(S) ==
  {[k \in Rows |-> IF k \in S THEN f[k] ELSE NoLoc] :
     f \in {g \in [S -> EntryLocs] : Distinct(g, S)}}

Blocks ==
  {b \in [arg : [Rows -> Rows], own : [Rows -> EntryLocs \cup {NoLoc}]] :
     /\ \A k \in Rows : b.arg[k] <= k /\ b.arg[b.arg[k]] = b.arg[k]
     /\ \A k \in Rows : b.own[k] # NoLoc => b.arg[k] = k
     /\ Distinct(b.own, {k \in Rows : b.own[k] # NoLoc})}

Init ==
  /\ \E b \in Blocks : arg = b.arg /\ own = b.own
  /\ \/ /\ targets = <<"only">>
        /\ \E S \in SUBSET Rows :
             /\ needed = [t \in {"only"} |-> S]
             /\ \E f \in SettledEntries(S) \cup {NoRows} : entry = [t \in {"only"} |-> f]
     \/ /\ targets = <<"true", "false">>
        /\ \E S, T \in SUBSET Rows :
             needed = [t \in {"true", "false"} |-> IF t = "true" THEN S ELSE T]
        /\ entry = [t \in {"true", "false"} |-> NoRows]
  /\ loc = NoRows
  /\ used = {}
  /\ num_vars = 0
  /\ current = 1
  /\ step = "defined"
  /\ row = 1
  /\ target_locs = << >>
  /\ from = NoRows /\ to = NoRows
  /\ code = [k \in DOMAIN targets |-> << >>]
  /\ spoiled = FALSE
  /\ unseen = {}
  /\ content = [l \in Locs |-> {}]

-----------------------------------------------------------------------------
(***************************************************************************)
(* resolve_branch.                                                         *)
(***************************************************************************)
Target == targets[current]

\* instr_assign_loc, first choices: its own entry_loc, the suggestion; slots
\* are never marked.
Suggested(v, suggested) ==
  IF own[v] # NoLoc /\ own[v] \notin used THEN own[v]
  ELSE IF suggested # NoLoc /\ suggested \notin used THEN suggested ELSE NoLoc

Unused == {n \in 1 .. NumRegs : Reg(n) \notin used}

\* instr_assign_loc.
Assign(v, suggested) ==
  IF loc[v] # NoLoc THEN loc[v]
  ELSE IF Suggested(v, suggested) # NoLoc THEN Suggested(v, suggested)
  ELSE IF Unused # {} THEN Reg(FirstOf(Unused)) ELSE Slot(num_vars)

Allocates(v, suggested) ==
  loc[v] = NoLoc /\ Suggested(v, suggested) = NoLoc /\ Unused = {}

\* vloc_list_contains looks at the first num_params entries.
Placed == {target_locs[n] : n \in DOMAIN target_locs \cap 1 .. NumVars}
Free == {n \in 1 .. NumRegs : Reg(n) \notin Placed}

\* Mutant: where the argument is, whatever arrives there.
ChosenUnchecked(l) == l

\* Where a parameter without entry_loc arrives.
Chosen(l) ==
  IF l \notin Placed THEN l ELSE IF Free = {} THEN NoLoc ELSE Reg(FirstOf(Free))

\* target_locs has an entry for each parameter.  What is written behind it hits
\* padding or swap_to.
Spoil(l, rows) ==
  IF Len(target_locs) < NumVars THEN to' = rows /\ UNCHANGED spoiled
  ELSE \/ to' = rows /\ UNCHANGED spoiled
       \/ \E k \in Rows : to' = [rows EXCEPT ![k] = l] /\ spoiled' = TRUE

\* A place behind target_locs that is not in it.
Overlook(l) ==
  unseen' = IF Len(target_locs) < NumVars \/ l \in Placed THEN unseen
            ELSE unseen \cup {<<Target, row>>}

\* The next parameter, then the next step.
Advance(next) ==
  /\ row' = IF row < NumVars THEN row + 1 ELSE 1
  /\ step' = IF row < NumVars THEN step ELSE next

\* The body of the loop over the parameters, in both functions.
Resolve(next) ==
  LET v == arg[row]
      l == Assign(v, entry[Target][row])
      e == IF entry[Target][row] # NoLoc THEN entry[Target][row] ELSE Chosen(l)
  IN  /\ loc' = [loc EXCEPT ![v] = l]
      /\ used' = IF l.is_reg THEN used \cup {l} ELSE used
      /\ num_vars' = IF Allocates(v, entry[Target][row]) THEN num_vars + 1 ELSE num_vars
      /\ IF e = NoLoc
         THEN step' = "exit" /\ UNCHANGED <<entry, target_locs, from, to, spoiled, unseen, row>>
         ELSE /\ entry' = [entry EXCEPT ![Target][row] = e]
              /\ target_locs' = Append(target_locs, e)
              /\ from' = [from EXCEPT ![row] = l]
              /\ Spoil(e, [to EXCEPT ![row] = e])
              /\ Overlook(e)
              /\ Advance(next)
      /\ UNCHANGED <<block, current, code, content>>

IsParameter(v) == own[v] # NoLoc

\* resolve_defined_arguments and resolve_undefined_arguments.
InDefined(k) == k \in needed[Target] /\ (loc[arg[k]] # NoLoc \/ IsParameter(arg[k]))

\* Mutant: the kind of the argument is not asked for.
InUndefinedAlways(k) == k \in needed[Target]
InUndefined(k) == k \in needed[Target] /\ (loc[arg[k]] = NoLoc \/ ~IsParameter(arg[k]))

ResolveDefined ==
  /\ step = "defined"
  /\ InDefined(row)
  /\ Resolve("undefined")

ResolveUndefined ==
  /\ step = "undefined"
  /\ InUndefined(row)
  /\ Resolve("map")

Skip ==
  /\ \/ step = "defined" /\ ~InDefined(row) /\ Advance("undefined")
     \/ step = "undefined" /\ ~InUndefined(row) /\ Advance("map")
  /\ UNCHANGED <<block, entry, loc, used, num_vars, current, target_locs, from, to,
                 code, spoiled, unseen, content>>

-----------------------------------------------------------------------------
\* map_registers makes the moves.  Then comes the next target, or the end of
\* emit_terminator and the rest of the block; when that has run, every value is
\* where it was given a place.
Map ==
  /\ step = "map"
  /\ code' = [code EXCEPT ![current] = MapRegisters(from, to)]
  /\ row' = 1
  /\ target_locs' = << >>
  /\ IF current < Len(targets)
     THEN /\ current' = current + 1
          /\ step' = "defined"
          /\ from' = NoRows /\ to' = NoRows
          /\ UNCHANGED content
     ELSE /\ step' = "run"
          /\ content' = [l \in Locs |-> {v \in Rows : loc[v] = l}]
          /\ UNCHANGED <<current, from, to>>
  /\ UNCHANGED <<block, entry, loc, used, num_vars, spoiled, unseen>>

-----------------------------------------------------------------------------
(***************************************************************************)
(* The code runs.  What was emitted last runs first.                       *)
(***************************************************************************)
\* asm_emit_mov and asm_emit_xchg; between two slots by way of TMP_1_REG.
Move ==
  LET op == code[current][row]
  IN  /\ step = "run"
      /\ row <= Len(code[current])
      /\ content' = [content EXCEPT
           ![op.dest] = content[op.source],
           ![op.source] = IF op.op = "xchg" \/ op.dest = op.source THEN content[op.dest] ELSE @]
      /\ row' = row + 1
      /\ UNCHANGED <<block, entry, loc, used, num_vars, current, step, target_locs, from, to,
                     code, spoiled, unseen>>

MovesDone == step = "run" /\ row > Len(code[current])
Unmoved == UNCHANGED <<block, entry, loc, used, num_vars, target_locs, from, to, code,
                       spoiled, unseen, content>>

Jump ==
  /\ MovesDone
  /\ step' = "arrived"
  /\ Unmoved /\ UNCHANGED <<current, row>>

\* The condition is true: on to the moves and the jump behind.
FallThrough ==
  /\ MovesDone
  /\ current > 1
  /\ current' = current - 1
  /\ row' = 1
  /\ Unmoved /\ UNCHANGED step

Next ==
  \/ ResolveDefined \/ ResolveUndefined \/ Skip
  \/ Map
  \/ Move \/ Jump \/ FallThrough

Spec == Init /\ [][Next]_vars

-----------------------------------------------------------------------------
Collide(t, j, k) == j # k /\ entry[t][j] = entry[t][k] /\ entry[t][j] # NoLoc

EntriesDistinct ==
  \A t \in DOMAIN entry : \A j, k \in needed[t] :
    Collide(t, j, k) => t = "false" /\ {<<t, j>>, <<t, k>>} \cap unseen # {}

RegistersHeldOnce ==
  /\ used = {loc[v] : v \in Rows} \cap {Reg(n) : n \in 1 .. NumRegs}
  /\ \A v, w \in Rows : v # w /\ loc[v] = loc[w] /\ loc[v] # NoLoc => ~loc[v].is_reg

\* No two parameters of a target arrive at the same place, also when variables
\* share a value, when the values were placed for another target before, and
\* when their number exceeds the registers: except for a place that was written
\* behind target_locs, for the second target, where the search for a free place
\* does not see it.  And no register is given to two values of the block, and
\* exactly those given to one are marked in used_registers.  A slot may be
\* shared: the slots in which parameters arrive are not reserved in
\* curr_num_vars.
PlacesAreDistinct == EntriesDistinct /\ RegistersHeldOnce

\* Only the second target of a branch writes behind target_locs: there every
\* argument that is no parameter has a location already, and both loops take it.
OnlySecondTargetOverruns == Len(target_locs) > NumVars => Target = "false"

\* map_registers lets a row write to where a later one reads, by an exchange in
\* the later one: what the first row writes then goes to the end of the chain of
\* rows that read what the one before writes.  That is right when only one row
\* reads what is overwritten, and no row between reads the end of the chain.
Untangled(t) ==
  LET Readers(k) == {m \in needed[t] : m > k /\ loc[arg[m]] = entry[t][k]}
      Last[k \in Rows] == IF Readers(k) = {} THEN k ELSE Last[FirstOf(Readers(k))]
  IN  \A k \in needed[t] :
        /\ Cardinality(Readers(k)) <= 1
        /\ \/ loc[arg[k]] = entry[t][Last[k]]
           \/ \A m \in needed[t] \cap k + 1 .. Last[k] - 1 : loc[arg[m]] # entry[t][Last[k]]

\* The moves for the false target run first: they must not touch what those for
\* the true target read.
Undisturbed ==
  \A j \in needed["false"], k \in needed["true"] :
    entry["false"][j] = loc[arg[k]] => arg[j] = arg[k]

\* Every argument and every place has been found a location of its own.
Separate ==
  /\ ~spoiled
  /\ \A j, k \in needed[Target] : ~Collide(Target, j, k)
  /\ \A v, w \in Rows : v # w /\ loc[v] = loc[w] => loc[v] = NoLoc

\* Every parameter that is needed arrives with the value of its variable, through
\* copies, chains, swaps and those cycles of registers and slots that
\* map_registers gets right.  Where it does not, some parameter arrives with a
\* wrong value, so Untangled leaves out nothing else.
ArgumentsArrive ==
  LET arrived == \A k \in needed[Target] : content[entry[Target][k]] = {arg[k]}
  IN  step = "arrived" /\ Separate =>
        IF Target = "true" THEN Untangled("true") /\ Undisturbed => arrived
        ELSE arrived <=> Untangled(Target)

=============================================================================
