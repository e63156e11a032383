---------------------------- MODULE OptimizeParams ----------------------------
(***************************************************************************)
(* ojit_optimize_params on the functions that the parser leaves: from the  *)
(* last block to the first, the arguments of parameters that nobody uses   *)
(* lose the count that merge_blocks gave them, so that a parameter which   *)
(* was only passed on becomes unused itself before the blocks that branch  *)
(* to it are met.                                                          *)
(***************************************************************************)
EXTENDS TypeInference

VARIABLE returned  \* history: the values that some return statement returned

optVars == <<passVars, returned>>

OptInit == TypeInit /\ returned = {}

\* The passes of ojit_optimize_func, each going on where the one before ended.
ParseAndAssign ==
  /\ Parse \/ OptimizeFunction \/ AssignTypes
  /\ returned' = returned \cup {ir'.blocks[b].term.ops[1] :
                     b \in {c \in DOMAIN ir'.blocks : ir'.blocks[c].term.id = "RETURN"}}

OptimizeParams ==
  /\ pass = "types"
  /\ at = 0
  /\ pass' = "params"
  /\ at' = ir.last
  /\ UNCHANGED <<vars, types, passed, returned>>

\* Mutant: the parameters that are used.
UnusedInverted(block) == {i \in Enabled(block) : block.instrs[i].refs > 0}

Unused(block) == {i \in Enabled(block) : block.instrs[i].refs = 0}

\* ojit_optimize_params_branch.  No block branches to itself.
Release(blocks, to, from) ==
  LET args == {<<i, ValueIn(blocks[from].vars, blocks[to].instrs[i].name)>> :
                 i \in Unused(blocks[to])}
      Times(i) == Cardinality({a \in args : a[2] = <<from, i>>})
  IN  [blocks EXCEPT ![from].instrs =
         [i \in DOMAIN @ |-> [blocks[from].instrs[i] EXCEPT !.refs = @ - Times(i)]]]

\* Mutant: only the first target of a branch is looked at.
ReleaseFirst(blocks, b) ==
  LET targets == blocks[b].term.targets
  IN  IF targets = << >> THEN blocks ELSE Release(blocks, targets[1], b)

ReleaseAll(blocks, b) ==
  LET targets == blocks[b].term.targets
  IN  CASE Len(targets) = 0 -> blocks
        [] Len(targets) = 1 -> Release(blocks, targets[1], b)
        [] Len(targets) = 2 -> Release(Release(blocks, targets[1], b), targets[2], b)

OptimizeBlock ==
  /\ pass = "params"
  /\ at # 0
  /\ ir' = [ir EXCEPT !.blocks = ReleaseAll(@, at)]
  /\ at' = ir.blocks[at].prev
  /\ pass' = IF at' = 0 THEN "done" ELSE "params"
  /\ UNCHANGED <<frames, mode, want, vals, text, status, types, passed, returned>>

OptNext == ParseAndAssign \/ OptimizeParams \/ OptimizeBlock

OptSpec == OptInit /\ [][OptNext]_optVars

-----------------------------------------------------------------------------
\* The uses of a value, not as a callee, that the code generator will meet; before
\* the parameters are optimized it meets the arguments of all parameters, then of
\* those in use.
RemainingUses(b, i) ==
  LET v == <<b, i>>
      Needed(u) == pass \in {"parse", "types"} \/ ir.blocks[u[1]].instrs[u[2]].refs > 0
  IN  Cardinality(OperandUses(b, v)) + Cardinality(ReturnUses(b, v))
      + Cardinality({u \in EdgeUses(b, v) : Needed(u)})

\* refs counts at least the uses of a value that remain, but for its use as the
\* callee of a call, which builder_Call does not count: a value that is returned,
\* another operand, or passed on to a parameter in use is never counted zero times,
\* for which the passes and compile_function leave a parameter out.  Taking
\* counts back never makes one smaller than that, so no count of a 16-bit refs wraps
\* around: neither where a value is passed to two targets, nor around a loop, where
\* the count of a parameter may fall after a branch back to it was looked at.
UsesAreCounted ==
  \A b \in Blocks : \A i \in DOMAIN ir.blocks[b].instrs :
    ir.blocks[b].instrs[i].refs >= RemainingUses(b, i)

\* The order of the blocks is what lets one pass do: in the end an argument that
\* goes forward, to a block behind its own, to parameters nobody uses, is not
\* counted for them.  (Its count may be too high otherwise: for a return that
\* was overwritten, a parameter that was taken back, a branch backward.)
Position(b) == CHOOSE n \in DOMAIN Order : Order[n] = b
PassedOn(b, i) ==
  /\ OperandUses(b, <<b, i>>) = {}
  /\ ReturnUses(b, <<b, i>>) = {}
  /\ <<b, i>> \notin returned
  /\ \A t \in Targets(b) :
       /\ Position(t) > Position(b)
       /\ Enabled(ir.blocks[t]) = Params(ir.blocks[t])
       /\ \A j \in Params(ir.blocks[t]) : ir.blocks[t].instrs[j].refs = 0
ForwardChainsAreReleased ==
  pass = "done" =>
    \A b \in Blocks : \A i \in Params(ir.blocks[b]) :
      PassedOn(b, i) => ir.blocks[b].instrs[i].refs = 0

=============================================================================
