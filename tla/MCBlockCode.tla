----------------------------- MODULE MCBlockCode -----------------------------
EXTENDS BlockCode

\* One instruction, all terminators.
Ends ==
  [regs |-> 2, params |-> 2, instrs |-> 1,
   kinds |-> {"int", "add", "sub", "cmp", "new_object"},
   terms |-> {"return", "branch", "cbranch"}, consts |-> {5, 200}, conds |-> {"less", "greater"},
   args |-> 0, outs |-> 1, disabled |-> {0, 1}, types |-> {"int", "unknown"},
   inputs |-> {1, 3000}]

\* Two, where they run out of registers.
Chains ==
  [Ends EXCEPT !.instrs = 2, !.consts = {5}, !.conds = {"less"}, !.disabled = {0},
               !.types = {"unknown"}]

\* Operands that are both constants.
Constants ==
  [Ends EXCEPT !.params = 1, !.instrs = 3, !.kinds = {"int", "add", "sub", "cmp"},
               !.terms = {"return", "cbranch"}, !.consts = {5, 9, 200}, !.outs = 0,
               !.types = {"unknown"}]

\* Calls of the runtime and of functions.
Calls ==
  [Ends EXCEPT !.regs = 4, !.params = 1, !.instrs = 3,
               !.kinds = {"int", "global", "call", "get_attr", "get_loc", "set_loc"},
               !.terms = {"return"}, !.consts = {5}, !.args = 2, !.disabled = {0},
               !.types = {"unknown"}, !.inputs = {1}]

MCShapes == {Ends, Chains, Constants, Calls}

=============================================================================
