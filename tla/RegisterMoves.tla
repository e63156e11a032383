--------------------------- MODULE RegisterMoves ---------------------------
(***************************************************************************)
(* Locations of values (VLoc) and the parallel move between them           *)
(* (map_registers), which resolve_branch uses for the arguments of a       *)
(* branch and ojit_compile_function for the parameters of a block.         *)
(***************************************************************************)
EXTENDS Integers, Sequences

\* VLoc.  Registers are numbered in the order get_unused tries them: RAX RCX RDX
\* R8 R9 R10 R11, then TMP_1_REG (R12) and TMP_2_REG (R13).  Slots are the
\* variables at RBP.
Reg(n) == [is_reg |-> TRUE, n |-> n]
Slot(n) == [is_reg |-> FALSE, n |-> n]
NoLoc == Reg(0)

FirstOf(S) == CHOOSE n \in S : \A m \in S : n <= m
LastOf(S) == CHOOSE n \in S : \A m \in S : n >= m

\* Mutant: rows that run later are asked.
MustExchangeLater(from, to, k) == \E j \in k + 1 .. Len(from) : to[j] = from[k]

\* A row that runs earlier overwrites what this one reads.
MustExchange(from, to, k) == \E j \in 1 .. k - 1 : to[j] = from[k]

\* One row.  moves has what the exchanges so far (which run later) have moved
\* elsewhere: write there instead.
MapRow(s, from, to, k) ==
  LET rows == DOMAIN s.moves
      redirected == {j \in rows : s.moves[j][1] # NoLoc /\ s.moves[j][1] = to[k]}
      into == IF redirected = {} THEN to[k] ELSE s.moves[LastOf(redirected)][2]
      cleared == [j \in rows |-> IF redirected # {} /\ j = LastOf(redirected)
                                 THEN <<NoLoc, NoLoc>> ELSE s.moves[j]]
      vacant == LastOf({j \in rows : cleared[j][1] = NoLoc})
      exchange == MustExchange(from, to, k)
      op == [op |-> IF exchange THEN "xchg" ELSE "mov", dest |-> into, source |-> from[k]]
  IN  IF from[k] = NoLoc \/ to[k] = NoLoc THEN s
      ELSE [moves |-> IF exchange THEN [cleared EXCEPT ![vacant] = <<from[k], into>>]
                      ELSE cleared,
            code |-> <<op>> \o s.code]

\* The moves in the order they run, which is the reverse of that of their making:
\* the last row is made first.
MapRegisters(from, to) ==
  LET n == Len(from)
      Made[k \in 0 .. n] ==
        IF k = 0 THEN [moves |-> [j \in 1 .. n |-> <<NoLoc, NoLoc>>], code |-> << >>]
        ELSE MapRow(Made[k - 1], from, to, n - k + 1)
  IN  Made[n].code

=============================================================================
