------------------------------- MODULE MCJit -------------------------------
(***************************************************************************)
(* Two files.  The first has a function that calls itself twice when a     *)
(* branch is not taken, adds, and checks both values; and one that calls   *)
(* it.  The second defines the name again, with a slot, and a name that    *)
(* only the first file uses.                                               *)
(***************************************************************************)
EXTENDS Jit

A == "RAX"
C == "RCX"
D == "RDX"

\* f(n) = if ... then n else f(x) + f(y), as fibo of test.txt.
Twice ==
  << [op |-> "check", live |-> {C}, from |-> C],
     [op |-> "branch", live |-> {C}, to |-> 8],
     [op |-> "global", live |-> {C}, name |-> "f", into |-> A],
     [op |-> "call", live |-> {A, C}, callee |-> A, arg |-> C, into |-> D],
     [op |-> "global", live |-> {C, D}, name |-> "f", into |-> A],
     [op |-> "call", live |-> {A, C, D}, callee |-> A, arg |-> D, into |-> A],
     [op |-> "check", live |-> {A, C, D}, from |-> D],
     [op |-> "return", live |-> {C}, from |-> C] >>
\* g(n) = a call of h with a value of its own, kept around the call.
Keeps ==
  << [op |-> "value", live |-> {C}, into |-> A],
     [op |-> "global", live |-> {A, C}, name |-> "h", into |-> D],
     [op |-> "call", live |-> {A, C, D}, callee |-> D, arg |-> A, into |-> D],
     [op |-> "check", live |-> {A, C, D}, from |-> D],
     [op |-> "return", live |-> {A, C}, from |-> A] >>
\* A value is kept in a slot around a call.
Spills ==
  << [op |-> "value", live |-> {C}, into |-> A],
     [op |-> "move", live |-> {A, C}, from |-> A, into |-> Slot],
     [op |-> "global", live |-> {Slot, C}, name |-> "h", into |-> A],
     [op |-> "call", live |-> {Slot, A, C}, callee |-> A, arg |-> C, into |-> C],
     [op |-> "move", live |-> {Slot, C}, from |-> Slot, into |-> A],
     [op |-> "return", live |-> {A}, from |-> A] >>
Gives == << [op |-> "return", live |-> {C}, from |-> C] >>

MCFiles ==
  << << [name |-> "f", body |-> Twice], [name |-> "g", body |-> Keeps] >>,
     << [name |-> "h", body |-> Gives], [name |-> "f", body |-> Gives],
        [name |-> "s", body |-> Spills] >> >>
MCNames == {"f", "g", "h", "s"}
=============================================================================
