--------------------------------- MODULE X64 ---------------------------------
(***************************************************************************)
(* The encoders of emit_x64.h, and the processor that decodes what they    *)
(* write.  An operation of Machine is encoded by one action; then the      *)
(* processor executes the bytes, one instruction at a time.                *)
(*                                                                         *)
(* Encoders write an instruction from its last byte to its first; here the *)
(* bytes are in the order of memory.  Constants of four and eight bytes    *)
(* are one element of the sequence, and so is the distance of a jump.      *)
(***************************************************************************)
EXTENDS Machine

CONSTANTS
  Slots,     \* slots that operations name
  Constants, \* constants of operations
  Samples    \* words that are in the places an operation names

ASSUME X64Assumption ==
  Slots \subseteq 0 .. 255 /\ Constants \subseteq 0 .. Words - 1 /\ Samples \subseteq 0 .. Words - 1

VARIABLES
  op,      \* the operation
  before,  \* the machine when the code starts
  stage,   \* encode, or execute
  code,    \* the bytes that are not yet executed
  m        \* the machine

vars == <<op, before, stage, code, m>>

-----------------------------------------------------------------------------
(***************************************************************************)
(* Registers have numbers of four bits: three are in the instruction, the  *)
(* highest in the REX prefix.                                              *)
(***************************************************************************)
RSP == 4
RBP == 5
Number(l) == <<0, 1, 2, 8, 9, 10, 11, 12, 13>>[l.n]
High(r) == r \div 8
LowBits(r) == r % 8

REX(w, r, b) == 64 + 8 * w + 4 * r + b

\* A fourth bit of reg falls on the lower bit of mod.
MODRM(mod, reg, rm) ==
  64 * (IF High(reg) = 1 /\ mod % 2 = 0 THEN mod + 1 ELSE mod) + 8 * LowBits(reg) + rm

Short(k) == k <= 255

\* Mutant: the bits of reg and rm change places in the prefix.
RegRegCrossed(opcode, reg, rm) ==
  <<REX(1, High(rm), High(reg)), opcode, MODRM(3, LowBits(reg), LowBits(rm))>>

\* Two registers, and a register and a variable at RBP.
RegReg(opcode, reg, rm) ==
  <<REX(1, High(reg), High(rm)), opcode, MODRM(3, LowBits(reg), LowBits(rm))>>
RegMem(opcode, reg, offset) ==
  <<REX(1, High(reg), 0), opcode, MODRM(1, reg, RBP), offset>>

\* ADD, SUB and CMP of a register and a constant, told apart by a digit.
RegConst(digit, on_rax, r, k) ==
  IF Short(k) THEN <<REX(1, 0, High(r)), \h83, MODRM(3, digit, LowBits(r)), k>>
  ELSE IF r = 0 THEN <<REX(1, 0, 0), on_rax, k>>
  ELSE <<REX(1, 0, High(r)), \h81, MODRM(3, digit, LowBits(r)), k>>

\* Without REX.W the prefix is only there for the high registers.
IfHigh(w, r, b) == IF r = 1 \/ b = 1 THEN <<REX(w, r, b)>> ELSE << >>

test_r64_r64(dest, source) == RegReg(\h85, source, dest)
xchg_r64_r64(dest, source) == IF dest = source THEN << >> ELSE RegReg(\h87, source, dest)
xchg_r64_ir64(dest, offset) == RegMem(\h87, dest, offset)
xor_r64_r64(dest, source) == RegReg(\h33, source, dest)
mov_r64_r64(dest, source) == IF dest = source THEN << >> ELSE RegReg(\h89, source, dest)
load_with_offset(dest, offset) == RegMem(\h8B, dest, offset)
store_with_offset(offset, source) == RegMem(\h89, source, offset)
add_r64_r64(dest, source) == RegReg(\h01, source, dest)
add_r64_ir64(dest, offset) == RegMem(\h03, dest, offset)
add_ir64_r64(offset, source) == RegMem(\h01, source, offset)
sub_r64_r64(dest, source) == RegReg(\h29, source, dest)
sub_r64_ir64(dest, offset) == RegMem(\h2B, dest, offset)
sub_ir64_r64(offset, source) == RegMem(\h29, source, offset)
add_r64_i32(r, k) == RegConst(0, \h05, r, k)
sub_r64_i32(r, k) == RegConst(5, \h2D, r, k)
cmp_r64_i32(r, k) == RegConst(7, \h3D, r, k)
cmp_r64_r64(a, b) == RegReg(\h39, b, a)

\* The base is where the register should be, and the register where the base.
cmp_r64_ir64(a, offset) ==
  <<REX(1, 0, High(a)), \h3B, MODRM(1, RBP, LowBits(a)), offset>>
\* The opcode is the one with the register first.
cmp_ir64_r64(offset, b) ==
  <<REX(1, High(b), 0), \h3B, MODRM(1, LowBits(b), RBP), offset>>

cmp_r32_i32(r, k) ==
  IF Short(k) THEN IfHigh(0, 0, High(r)) \o <<\h83, MODRM(3, 7, LowBits(r)), k>>
  ELSE IF r = 0 THEN <<\h3D, k>>
  ELSE IfHigh(0, 0, High(r)) \o <<\h81, MODRM(3, 7, LowBits(r)), k>>

mov_r32_r32(dest, source) ==
  IF dest = source THEN << >>
  ELSE IfHigh(0, High(source), High(dest)) \o <<\h89, MODRM(3, LowBits(source), LowBits(dest))>>
mov_r32_ir32(dest, offset) ==
  IfHigh(0, High(dest), 0) \o <<\h8B, MODRM(1, dest, RBP), offset>>
mov_ir32_r32(offset, source) ==
  IfHigh(1, High(source), 0) \o <<\h89, MODRM(1, source, RBP), offset>>

mov_r64_i64(r, k) ==
  CASE k = 0 -> xor_r64_r64(r, r)
    [] k \in 1 .. Ints - 1 -> IfHigh(0, 0, High(r)) \o <<\hB8 + LowBits(r), k>>
    [] OTHER -> <<REX(1, 0, High(r)), \hB8 + LowBits(r), k>>

call_r64(r) == IfHigh(0, 0, High(r)) \o <<\hFF, MODRM(3, 2, LowBits(r))>>
call_ir64(offset) == <<\hFF, MODRM(1, 2, RBP), offset>>
push_r64(r) == IfHigh(0, 0, High(r)) \o <<\h50 + LowBits(r)>>
pop_r64(r) == IfHigh(0, 0, High(r)) \o <<\h58 + LowBits(r)>>
shr_r64_i8(r, k) == <<REX(1, 0, High(r)), \hC1, MODRM(3, 5, LowBits(r)), k>>
jcc(cond, target) == <<\h0F, cond, target>>

IF_EQUAL == \h84
IF_NOT_EQUAL == \h85
IF_LESS == \h8C
IF_GREATER_EQUAL == \h8D
IF_LESS_EQUAL == \h8E
IF_GREATER == \h8F
Code(cond) ==
  CASE cond = "equal" -> IF_EQUAL [] cond = "not_equal" -> IF_NOT_EQUAL
    [] cond = "less" -> IF_LESS [] cond = "greater_equal" -> IF_GREATER_EQUAL
    [] cond = "less_equal" -> IF_LESS_EQUAL [] cond = "greater" -> IF_GREATER

INV_CMP(cond) ==
  CASE cond = IF_EQUAL -> IF_NOT_EQUAL [] cond = IF_NOT_EQUAL -> IF_EQUAL
    [] cond = IF_LESS -> IF_GREATER_EQUAL [] cond = IF_GREATER_EQUAL -> IF_LESS
    [] cond = IF_LESS_EQUAL -> IF_GREATER [] cond = IF_GREATER -> IF_LESS_EQUAL

-----------------------------------------------------------------------------
(***************************************************************************)
(* The operations.                                                         *)
(***************************************************************************)
Offset(l) == (8 * l.n) % 256
Tmp == Number(TMP1)

\* Where jumps go to: the distances are not of interest.
ErrorExit == 1
FalseTarget == 2

\* One of the four forms of an operation on two places.
Form(dest, source, rr, rm, mr, mm) ==
  CASE dest.is_reg /\ source.is_reg -> rr
    [] dest.is_reg /\ ~source.is_reg -> rm
    [] ~dest.is_reg /\ source.is_reg -> mr
    [] ~dest.is_reg /\ ~source.is_reg -> mm

Encode(bytes) ==
  /\ stage = "encode"
  /\ stage' = "execute"
  /\ code' = bytes
  /\ UNCHANGED <<op, before, m>>

EncodeMov ==
  /\ op.op = "mov"
  /\ LET d == op.dest
         s == op.source
     IN  Encode(Form(d, s, mov_r64_r64(Number(d), Number(s)),
                           load_with_offset(Number(d), Offset(s)),
                           store_with_offset(Offset(d), Number(s)),
                           load_with_offset(Tmp, Offset(s)) \o store_with_offset(Offset(d), Tmp)))

EncodeMov32 ==
  /\ op.op = "mov32"
  /\ LET d == op.dest
         s == op.source
     IN  Encode(Form(d, s, mov_r32_r32(Number(d), Number(s)),
                           mov_r32_ir32(Number(d), Offset(s)),
                           mov_ir32_r32(Offset(d), Number(s)),
                           mov_r32_ir32(Tmp, Offset(s)) \o mov_ir32_r32(Offset(d), Tmp)))

EncodeXchg ==
  /\ op.op = "xchg"
  /\ LET d == op.dest
         s == op.source
     IN  Encode(Form(d, s, xchg_r64_r64(Number(d), Number(s)),
                           xchg_r64_ir64(Number(d), Offset(s)),
                           xchg_r64_ir64(Number(s), Offset(d)),
                           load_with_offset(Tmp, Offset(s)) \o xchg_r64_ir64(Tmp, Offset(d))
                             \o store_with_offset(Offset(s), Tmp)))

EncodeAdd ==
  /\ op.op = "add"
  /\ LET d == op.dest
         s == op.source
     IN  Encode(Form(d, s, add_r64_r64(Number(d), Number(s)),
                           add_r64_ir64(Number(d), Offset(s)),
                           add_ir64_r64(Offset(d), Number(s)),
                           load_with_offset(Tmp, Offset(s)) \o add_ir64_r64(Offset(d), Tmp)))

EncodeSub ==
  /\ op.op = "sub"
  /\ LET d == op.dest
         s == op.source
     IN  Encode(Form(d, s, sub_r64_r64(Number(d), Number(s)),
                           sub_r64_ir64(Number(d), Offset(s)),
                           sub_ir64_r64(Offset(d), Number(s)),
                           load_with_offset(Tmp, Offset(s)) \o sub_ir64_r64(Offset(d), Tmp)))

EncodeCmp ==
  /\ op.op = "cmp"
  /\ LET a == op.dest
         b == op.source
     IN  Encode(Form(a, b, cmp_r64_r64(Number(a), Number(b)),
                           cmp_r64_ir64(Number(a), Offset(b)),
                           cmp_ir64_r64(Offset(a), Number(b)),
                           load_with_offset(Tmp, Offset(a)) \o cmp_ir64_r64(Offset(b), Tmp)))

EncodeConst ==
  \/ op.op = "addi" /\ Encode(add_r64_i32(Number(op.dest), op.k))
  \/ op.op = "subi" /\ Encode(sub_r64_i32(Number(op.dest), op.k))
  \/ op.op = "cmpi" /\ Encode(cmp_r32_i32(Number(op.dest), op.k))
  \/ op.op = "word" /\ Encode(mov_r64_i64(Number(op.dest), op.k))

\* Around a call 32 bytes of the stack are left to the function that is called.
EncodeCall ==
  /\ op.op = "call"
  /\ Encode(<<\h48, \h83, \hEC, \h20>>
              \o (IF op.source.is_reg THEN call_r64(Number(op.source))
                  ELSE call_ir64(Offset(op.source)))
              \o <<\h48, \h83, \hC4, \h20>>)

EncodeStack ==
  \/ op.op = "push" /\ Encode(push_r64(Number(op.source)))
  \/ op.op = "pop" /\ Encode(pop_r64(Number(op.dest)))

\* emit_assert_loc_i32.
EncodeCheck ==
  /\ op.op = "check"
  /\ LET tmp == Number(op.dest)
         moved == IF op.source.is_reg THEN mov_r64_r64(tmp, Number(op.source))
                  ELSE load_with_offset(tmp, Offset(op.source))
     IN  Encode(moved \o shr_r64_i8(tmp, 48) \o cmp_r64_i32(tmp, 1)
                  \o jcc(IF_NOT_EQUAL, ErrorExit))

\* The end of a block that branches: on the flags of a comparison, or of a test.
EncodeBranch ==
  \/ op.op = "unless" /\ Encode(jcc(INV_CMP(Code(op.k)), FalseTarget))
  \/ /\ op.op = "test"
     /\ Encode(test_r64_r64(Number(op.dest), Number(op.dest)) \o jcc(IF_EQUAL, FalseTarget))

-----------------------------------------------------------------------------
(***************************************************************************)
(* The processor.                                                          *)
(***************************************************************************)
StackPointer == Reg(10)
BasePointer == Reg(11)
Registers == {Reg(n) : n \in 1 .. 9}

Extended(byte) == IF byte > 127 THEN byte - 256 ELSE byte

Register(number) ==
  CASE number = RSP -> StackPointer
    [] number = RBP -> BasePointer
    [] number \in {Number(l) : l \in Registers} -> CHOOSE l \in Registers : Number(l) = number
    [] OTHER -> NoLoc

\* What the first bytes say: an optional prefix, an opcode, and for most of them
\* a byte with two operands, one of which may be at RBP and a distance.
Fields ==
  LET prefix == code[1] \div 16 = 4
      rex == IF prefix THEN code[1] ELSE 64
      n == IF prefix THEN 2 ELSE 1
      modrm == IF n < Len(code) THEN code[n + 1] ELSE 0
      mod == modrm \div 64
      rm == (modrm % 8) + 8 * (rex % 2)
  IN  [wide |-> (rex \div 8) % 2 = 1,
       opcode |-> code[n],
       digit |-> (modrm \div 8) % 8,
       in_opcode |-> Register(LowBits(code[n]) + 8 * (rex % 2)),
       reg |-> Register(((modrm \div 8) % 8) + 8 * ((rex \div 4) % 2)),
       rm |-> CASE mod = 3 -> Register(rm)
                [] mod = 1 /\ rm = RBP -> Slot(Extended(code[n + 2]) \div 8)
                [] OTHER -> NoLoc,
       next |-> IF mod = 1 THEN n + 3 ELSE n + 2,
       after_opcode |-> n + 1]

Continue(from) == code' = SubSeq(code, from, Len(code))
Executes(opcodes) == stage = "execute" /\ code # << >> /\ Fields.opcode \in opcodes

\* Opcodes with two operands: the even ones with bit 1 have the register first.
ToReg == {\h03, \h2B, \h33, \h3B, \h8B}
FromReg == {\h01, \h29, \h39, \h85, \h87, \h89}

Computed(opcode, a, b) ==
  CASE opcode \in {\h01, \h03} -> (a + b) % Words
    [] opcode \in {\h29, \h2B} -> (a - b) % Words
    [] opcode = \h33 /\ a = b -> 0
    [] opcode \in {\h89, \h8B} -> b

\* 32 bits of a register clear the rest of it; in memory the rest stays.
Written(dest, old, new, wide) ==
  CASE wide -> new
    [] ~wide /\ dest.is_reg -> Low(new)
    [] ~wide /\ ~dest.is_reg -> old - Low(old) + Low(new)

ExecuteTwo ==
  /\ Executes(ToReg \cup FromReg)
  /\ LET f == Fields
         dest == IF f.opcode \in ToReg THEN f.reg ELSE f.rm
         source == IF f.opcode \in ToReg THEN f.rm ELSE f.reg
     IN  /\ m' = CASE NoLoc \in {dest, source} -> [m EXCEPT !.flags = Undefined]
                   [] f.opcode \in {\h39, \h3B} ->
                        [m EXCEPT !.flags = <<m.at[dest], m.at[source]>>]
                   [] f.opcode = \h85 /\ dest = source -> [m EXCEPT !.flags = <<m.at[dest], 0>>]
                   [] f.opcode = \h87 ->
                        [m EXCEPT !.at[dest] = m.at[source], !.at[source] = m.at[dest]]
                   [] OTHER ->
                        [m EXCEPT !.at[dest] =
                           Written(dest, @, Computed(f.opcode, @, m.at[source]), f.wide)]
         /\ Continue(f.next)
  /\ UNCHANGED <<op, before, stage>>

\* The digit says what is done with a constant.
WithConst(dest, digit, k, wide) ==
  CASE digit = 0 -> [m EXCEPT !.at[dest] = (@ + k) % Words]
    [] digit = 5 -> [m EXCEPT !.at[dest] = (@ - k) % Words]
    [] digit = 7 ->
         [m EXCEPT !.flags = IF wide THEN <<m.at[dest], k>>
                             ELSE <<Signed(Low(m.at[dest])), Signed(k % Ints)>>]

ExecuteConst ==
  LET f == Fields
  IN  /\ Executes({\h81, \h83})
      /\ m' = WithConst(f.rm, f.digit, IF f.opcode = \h83 THEN Extended(code[f.next])
                                       ELSE Signed(code[f.next]), f.wide)
      /\ Continue(f.next + 1)
      /\ UNCHANGED <<op, before, stage>>

ExecuteConstOnRAX ==
  LET f == Fields
  IN  /\ Executes({\h05, \h2D, \h3D})
      /\ m' = WithConst(RAX, (f.opcode \div 8), Signed(code[f.after_opcode]), f.wide)
      /\ Continue(f.after_opcode + 1)
      /\ UNCHANGED <<op, before, stage>>

ExecuteMovConst ==
  LET f == Fields
  IN  /\ Executes(\hB8 .. \hBF)
      /\ m' = [m EXCEPT !.at[f.in_opcode] =
                 IF f.wide THEN code[f.after_opcode] ELSE Low(code[f.after_opcode])]
      /\ Continue(f.after_opcode + 1)
      /\ UNCHANGED <<op, before, stage>>

ExecuteCall ==
  LET f == Fields
  IN  /\ Executes({\hFF})
      /\ f.digit = 2
      /\ m' = Step(m, Call(f.rm, op.k))
      /\ Continue(f.next)
      /\ UNCHANGED <<op, before, stage>>

ExecuteStack ==
  LET f == Fields
  IN  /\ Executes(\h50 .. \h5F)
      /\ m' = Step(m, IF f.opcode < \h58 THEN Push(f.in_opcode) ELSE Pop(f.in_opcode))
      /\ Continue(f.after_opcode)
      /\ UNCHANGED <<op, before, stage>>

ExecuteShift ==
  LET f == Fields
  IN  /\ Executes({\hC1})
      /\ f.digit = 5 /\ code[f.next] = 48
      /\ m' = [m EXCEPT !.at[f.rm] = Tag(@)]
      /\ Continue(f.next + 1)
      /\ UNCHANGED <<op, before, stage>>

Taken(cond, flags) ==
  CASE cond = \h84 -> flags[1] = flags[2]
    [] cond = \h85 -> flags[1] # flags[2]
    [] cond = \h8C -> flags[1] < flags[2]
    [] cond = \h8D -> flags[1] >= flags[2]
    [] cond = \h8E -> flags[1] <= flags[2]
    [] cond = \h8F -> flags[1] > flags[2]

\* A jump that is taken leaves the code.
ExecuteJump ==
  /\ Executes({\h0F})
  /\ m' = [m EXCEPT !.error = Taken(code[2], m.flags)]
  /\ IF m'.error THEN code' = << >> ELSE Continue(4)
  /\ UNCHANGED <<op, before, stage>>

-----------------------------------------------------------------------------
(***************************************************************************)
(* Any operation, on any contents of its places.                           *)
(***************************************************************************)
Conds == {"less", "less_equal", "equal", "not_equal", "greater", "greater_equal"}
Variables == {Slot(n) : n \in Slots}
Pool == Registers \ {TMP1, TMP2}
Small == Constants \cap 0 .. Ints - 1

Operations ==
  [op : {"mov", "mov32", "xchg", "add", "sub"},
   dest : Registers \cup Variables, source : Registers \cup Variables]
    \cup [op : {"cmp"}, dest : Pool \cup Variables, source : Pool \cup Variables]
    \cup [op : {"addi", "subi", "cmpi"}, dest : Registers, k : Small]
    \cup [op : {"word"}, dest : Registers, k : Constants]
    \cup [op : {"call"}, source : Pool \cup Variables, k : 0 .. 3]
    \cup [op : {"push"}, source : {RAX, RCX, RDX}]
    \cup [op : {"pop"}, dest : {RAX, RCX, RDX}]
    \cup [op : {"check"}, source : Pool \cup Variables, dest : {TMP1, TMP2}]
    \cup [op : {"unless"}, k : Conds]
    \cup [op : {"test"}, dest : Registers]

Dest(o) == IF "dest" \in DOMAIN o THEN o.dest ELSE NoLoc
Source(o) == IF "source" \in DOMAIN o THEN o.source ELSE NoLoc

\* Where the processor finds a variable: the distance has eight bits and a sign.
Where(l) == IF l.is_reg THEN l ELSE Slot(Extended(Offset(l)) \div 8)
Places == Registers \cup {StackPointer, BasePointer} \cup {Where(l) : l \in Variables}

Init ==
  /\ op \in Operations
  /\ \E a, b \in Samples :
       before = [at |-> [l \in Places |-> CASE l = Where(Dest(op)) -> a
                                            [] l = Where(Source(op)) -> b
                                            [] OTHER -> Junk(l)],
                 stack |-> <<a>>, flags |-> <<a, b>>, calls |-> << >>, error |-> FALSE]
  /\ stage = "encode"
  /\ code = << >>
  /\ m = before

Next ==
  \/ EncodeMov \/ EncodeMov32 \/ EncodeXchg \/ EncodeAdd \/ EncodeSub \/ EncodeCmp
  \/ EncodeConst \/ EncodeCall \/ EncodeStack \/ EncodeCheck \/ EncodeBranch
  \/ ExecuteTwo \/ ExecuteConst \/ ExecuteConstOnRAX \/ ExecuteMovConst
  \/ ExecuteCall \/ ExecuteStack \/ ExecuteShift \/ ExecuteJump

Spec == Init /\ [][Next]_vars

-----------------------------------------------------------------------------
\* The operation, with variables where the processor finds them.
Found ==
  LET there == IF "dest" \in DOMAIN op THEN [op EXCEPT !.dest = Where(@)] ELSE op
  IN  IF "source" \in DOMAIN op THEN [there EXCEPT !.source = Where(@)] ELSE there

Expected ==
  CASE op.op = "unless" ->
         [before EXCEPT !.error = ~Holds(op.k, before.flags[1], before.flags[2])]
    [] op.op = "test" ->
         [before EXCEPT !.flags = <<before.at[op.dest], 0>>, !.error = before.at[op.dest] = 0]
    [] OTHER -> Step(before, Found)

Opcodes ==
  ToReg \cup FromReg \cup \hB8 .. \hBF \cup \h50 .. \h5F
    \cup {\h05, \h0F, \h2D, \h3D, \h81, \h83, \hC1, \hFF}

\* Whatever registers, variables and constants an operation names, the processor
\* can decode its bytes, and executing them does what Machine says: to the places,
\* the stack, the functions called, and, where a branch may follow, the flags.  What
\* the code generator gets by a form that is wrong for its purpose is in Machine and
\* in Where: short constants and offsets have a sign (Imm64), and a constant on the
\* left of a comparison is compared from the right (CmpFlags).
BytesDoTheOperation ==
  stage = "execute" =>
    /\ code # << >> => Fields.opcode \in Opcodes
    /\ code = << >> =>
         /\ m.at = Expected.at /\ m.stack = Expected.stack
         /\ m.calls = Expected.calls /\ m.error = Expected.error
         /\ op.op \in {"cmp", "cmpi", "test"} => m.flags = Expected.flags

=============================================================================
