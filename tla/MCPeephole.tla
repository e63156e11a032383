----------------------------- MODULE MCPeephole -----------------------------
(***************************************************************************)
(* Values for the constants of Peephole that a .cfg cannot write.          *)
(***************************************************************************)
EXTENDS Peephole

\* A small number and the largest one of two bits, whose sum wraps around.
MCConstants == <<2, 3>>

=============================================================================
