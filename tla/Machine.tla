------------------------------- MODULE Machine -------------------------------
(***************************************************************************)
(* What generated code does.  An operation here is what one of the         *)
(* functions asm_emit_* on VLocs, or a fixed group of them, emits.  A word *)
(* has the layout of OJITValue: an integer in the low part, bits above it  *)
(* that stay zero unless a sum carries, and a tag on top.                  *)
(***************************************************************************)
EXTENDS RegisterMoves

CONSTANTS
  Ints,     \* the integers, 2^32 in the code
  Carries,  \* the values of the 16 bits between an integer and its tag
  Tags      \* the values of the tag and all bits above

ASSUME MachineAssumption ==
  Ints \in Nat \ {0} /\ Carries \in Nat \ {0} /\ Tags \in Nat /\ Tags > 2

\* TMP_1_REG, TMP_2_REG and the registers of arguments.
TMP1 == Reg(8)
TMP2 == Reg(9)
RAX == Reg(1)
RCX == Reg(2)
RDX == Reg(3)
ArgRegs == <<RCX, RDX, Reg(4)>>
Volatile == {Reg(n) : n \in 2 .. 7}

Words == Ints * Carries * Tags
Low(w) == w % Ints
Tag(w) == w \div (Ints * Carries)
Boxed(n) == Ints * Carries + n
IsIntWord(w) == Tag(w) = 1
Signed(n) == IF n < Ints \div 2 THEN n ELSE n - Ints

\* The constants of ADD, SUB and CMP: up to UINT8_MAX they take one byte, and
\* the processor extends the sign of a constant that is shorter than the word.
Imm8(k) == IF k > 127 THEN k - 256 ELSE k
Imm64(k) == IF k <= 255 THEN Imm8(k) ELSE Signed(k)
Imm32(k) == IF k <= 255 THEN Imm8(k) ELSE k

-----------------------------------------------------------------------------
(***************************************************************************)
(* The runtime: the functions called by generated code, and what they      *)
(* return.                                                                 *)
(***************************************************************************)
jit_compiled_callback == 11
hash_table_get_ptr == 12
new_hash_table == 13
jit_ptr == 14
jit_mem == 15
Name(n) == 20 + n

Result(f, args) ==
  CASE f = new_hash_table -> 40
    [] f \in {jit_compiled_callback, hash_table_get_ptr} ->
         (50 + 31 * args[1] + 7 * args[2] + f) % Ints
    [] OTHER ->
         LET Sum[n \in 0 .. Len(args)] ==
               IF n = 0 THEN f % Ints ELSE (3 * Sum[n - 1] + args[n]) % Ints
         IN  Boxed(Sum[Len(args)])

-----------------------------------------------------------------------------
Mov(dest, source) == [op |-> "mov", dest |-> dest, source |-> source]
Mov32(dest, source) == [op |-> "mov32", dest |-> dest, source |-> source]
Arith(op, dest, source) == [op |-> op, dest |-> dest, source |-> source]
MovWord(dest, w) == [op |-> "word", dest |-> dest, k |-> w]
Call(callee, n) == [op |-> "call", source |-> callee, k |-> n]
Push(l) == [op |-> "push", source |-> l]
Pop(l) == [op |-> "pop", dest |-> l]
Cmp(a, b) == [op |-> "cmp", dest |-> a, source |-> b]
\* RSP and RBP are again what they were in the caller.
Leave == [op |-> "leave"]
Check(l, tmp) == [op |-> "check", source |-> l, dest |-> tmp]

\* What a place holds that nothing has been written to.
Junk(l) == 2 * Ints * Carries + 60 + 2 * l.n + (IF l.is_reg THEN 1 ELSE 0)

\* Operations on two slots go through TMP_1_REG.
ThroughTmp(at, op) ==
  IF op.dest.is_reg \/ op.source.is_reg THEN at
  ELSE [at EXCEPT ![TMP1] = CASE op.op = "mov32" -> Low(at[op.source])
                              [] op.op \in {"xchg", "cmp"} -> at[op.dest]
                              [] OTHER -> at[op.source]]

\* asm_emit_mov32.  A store of 32 bits leaves the rest of the slot; when the
\* source is one of R8 to R15, the prefix makes it a store of 64 bits.
Mov32Result(at, dest, source) ==
  LET from == IF dest.is_reg \/ source.is_reg THEN source ELSE TMP1
  IN  CASE dest.is_reg -> IF dest = source THEN at[dest] ELSE Low(at[from])
        [] ~dest.is_reg /\ from.n <= 3 -> at[dest] - Low(at[dest]) + Low(at[from])
        [] OTHER -> at[from]

\* asm_emit_cmp.  The flags are those of the comparison of two words, as signed
\* numbers.  A slot and a register are compared the other way round; with a
\* register and a slot the operands are mixed up and the outcome is undefined.
Undefined == <<>>
CmpFlags(at, a, b) ==
  CASE a.is_reg = b.is_reg -> <<at[a], at[b]>>
    [] ~a.is_reg /\ b.is_reg -> <<at[b], at[a]>>
    [] OTHER -> Undefined

Holds(cond, a, b) ==
  CASE cond = "less" -> a < b [] cond = "less_equal" -> a <= b [] cond = "equal" -> a = b
    [] cond = "greater" -> a > b [] cond = "greater_equal" -> a >= b
    [] cond = "not_equal" -> a # b

\* One operation.  A check leaves the code for the error exit.
Step(m, op) ==
  LET at == m.at
      via == ThroughTmp(at, op)
  IN
  CASE m.error -> m
    [] op.op = "leave" ->
         [m EXCEPT !.at = [l \in DOMAIN at |-> IF l.is_reg THEN at[l] ELSE Junk(l)]]
    [] op.op = "mov" -> [m EXCEPT !.at = [via EXCEPT ![op.dest] = at[op.source]]]
    [] op.op = "xchg" ->
         [m EXCEPT !.at = [via EXCEPT ![op.dest] = at[op.source], ![op.source] = at[op.dest]]]
    [] op.op = "mov32" ->
         [m EXCEPT !.at = [via EXCEPT ![op.dest] = Mov32Result(via, op.dest, op.source)]]
    [] op.op = "add" ->
         [m EXCEPT !.at = [via EXCEPT ![op.dest] = (at[op.dest] + at[op.source]) % Words]]
    [] op.op = "sub" ->
         [m EXCEPT !.at = [via EXCEPT ![op.dest] = (at[op.dest] - at[op.source]) % Words]]
    [] op.op = "addi" -> [m EXCEPT !.at[op.dest] = (@ + Imm64(op.k)) % Words]
    [] op.op = "subi" -> [m EXCEPT !.at[op.dest] = (@ - Imm64(op.k)) % Words]
    [] op.op = "word" -> [m EXCEPT !.at[op.dest] = op.k]
    [] op.op = "check" ->
         [m EXCEPT !.at[op.dest] = Tag(at[op.source]), !.error = ~IsIntWord(at[op.source])]
    [] op.op = "cmp" -> [m EXCEPT !.at = via, !.flags = CmpFlags(at, op.dest, op.source)]
    [] op.op = "cmpi" ->
         [m EXCEPT !.flags = <<Signed(Low(at[op.dest])), Signed(Imm32(op.k) % Ints)>>]
    [] op.op = "test" -> [m EXCEPT !.flags = <<at[op.dest], 0>>]
    [] op.op = "push" -> [m EXCEPT !.stack = <<at[op.source]>> \o @]
    [] op.op = "pop" -> [m EXCEPT !.at[op.dest] = Head(m.stack), !.stack = Tail(@)]
    [] op.op = "call" ->
         LET args == [n \in 1 .. op.k |-> at[ArgRegs[n]]]
         IN  [m EXCEPT !.at = [l \in DOMAIN at |->
                                 CASE l = RAX -> Result(at[op.source], args)
                                   [] l \in Volatile -> Junk(l)
                                   [] OTHER -> at[l]],
                       !.calls = Append(@, <<at[op.source], args>>)]

\* The operations from the first to the last.
Run(code, at) ==
  LET After[k \in 0 .. Len(code)] ==
        IF k = 0 THEN [at |-> at, stack |-> << >>, flags |-> Undefined, calls |-> << >>,
                       error |-> FALSE]
        ELSE Step(After[k - 1], code[k])
  IN  After[Len(code)]

=============================================================================
