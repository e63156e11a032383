----------------------------- MODULE MCFunctions -----------------------------
EXTENDS OptimizeParams

CONSTANTS x, y

\* Statements nest, over one variable.
Control ==
  [names |-> {x}, operations |-> {"INT"}, statements |-> 4, instrs |-> 1, vals |-> 1]

\* Expressions of at most three instructions in a block.
Expressions ==
  [names |-> {x}, operations |-> {"INT", "ADD", "CALL", "GET_ATTR", "SET_LOC"},
   statements |-> 1, instrs |-> 3, vals |-> 2]

\* Two variables that only pass through nested statements.
Passing ==
  [names |-> {x, y}, operations |-> {"INT"}, statements |-> 3, instrs |-> 1, vals |-> 1]

\* A variable that is assigned to in loops and branches: integers and others.
Assigning ==
  [names |-> {x}, operations |-> {"INT", "GLOBAL"}, statements |-> 3, instrs |-> 1, vals |-> 2]

\* Loops that count, as while (x + 3) x = x + 1; (both passes treat a comparison
\* like a sum).
Counting ==
  [names |-> {x}, operations |-> {"INT", "ADD"}, statements |-> 2, instrs |-> 2, vals |-> 3]

MCSources == {Control, Expressions, Passing, Assigning, Counting}

=============================================================================
