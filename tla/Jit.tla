-------------------------------- MODULE Jit --------------------------------
(***************************************************************************)
(* The JIT and the code it makes, at work on one stack.  A host adds       *)
(* files, and calls or dumps functions by name; a function is compiled     *)
(* when it is first needed.  Compiled code enters and leaves its frame,    *)
(* saves the registers in use around a call, calls the runtime to find the *)
(* code of a function by its name, and calls that code.  One action is     *)
(* what runs up to the next call or return; there is one thread, and       *)
(* nothing can come between.  stack[1] is the highest word; RSP is its     *)
(* length, and what lies below RSP is no more.                             *)
(***************************************************************************)
EXTENDS Naturals, Sequences

CONSTANTS
  Files, Names, Values, Ints,
  MaxStack  \* with more words on the stack, a branch is taken

VARIABLES
  function_records,  \* as known in Calls
  compiled,          \* the definitions with code
  reg,               \* RAX, RCX, RDX and RBP
  stack,
  at,                \* the instruction to run, <<definition, number>>
  host,
  answer

vars == <<function_records, compiled, reg, stack, at, host, answer>>

\* The definitions and words of Calls.
Text == INSTANCE Calls WITH known <- function_records, activations <- << >>
None == Text!None
Op(d, k) == Text!Op(d, k)
Code(d) == Text!Code(d)
Junk == Text!Junk

HostWord == <<"host">>
Address(n) == <<"address", n>>
ReturnTo(d, k) == <<"return", d, k>>
ReturnToHost == <<"return">>
Shadow == [n \in 1 .. 4 |-> Junk]
\* The stack of the host when it makes a call: the 32 bytes are the callee's.
HostStack == <<HostWord>> \o Shadow

\* Slot 0 is at RBP: the word that holds the caller's RBP.
Slot == "slot 0"
IsSlot(p) == p = Slot
UsesSlots(d) == \E k \in DOMAIN Text!Body(d) : Slot \in Op(d, k).live
MaxNumVars(d) == IF UsesSlots(d) THEN 1 ELSE 0

-----------------------------------------------------------------------------
(***************************************************************************)
(* The processor.  m is [reg, stack, ok]; ok is FALSE when RSP or an       *)
(* access leaves the stack.                                                *)
(***************************************************************************)
Push(r) == [op |-> "push", from |-> r]
Pop(r) == [op |-> "pop", into |-> r]
Mov(p, q) == [op |-> "mov", into |-> p, from |-> q]
Word(r, w) == [op |-> "word", into |-> r, word |-> w]
SubRSP(n) == [op |-> "sub", n |-> n]
AddRSP(n) == [op |-> "add", n |-> n]
MovRBPRSP == [op |-> "frame"]
MovRSPRBP == [op |-> "unwind"]

HasFrame(m) == m.reg["RBP"][1] = "address" /\ m.reg["RBP"][2] <= Len(m.stack)
Frame(m) == m.reg["RBP"][2]
Get(m, p) == IF IsSlot(p) THEN m.stack[Frame(m)] ELSE m.reg[p]
Put(m, p, w) ==
  IF IsSlot(p) THEN [m EXCEPT !.stack[Frame(m)] = w] ELSE [m EXCEPT !.reg[p] = w]
Astray(m) == [m EXCEPT !.ok = FALSE]

Do(m, i) ==
  CASE i.op = "push" -> [m EXCEPT !.stack = Append(@, m.reg[i.from])]
    [] i.op = "pop" ->
         IF m.stack = << >> THEN Astray(m)
         ELSE [Put(m, i.into, m.stack[Len(m.stack)]) EXCEPT
                 !.stack = SubSeq(@, 1, Len(@) - 1)]
    [] i.op = "mov" ->
         IF ~HasFrame(m) /\ (IsSlot(i.into) \/ IsSlot(i.from)) THEN Astray(m)
         ELSE Put(m, i.into, Get(m, i.from))
    [] i.op = "word" -> Put(m, i.into, i.word)
    [] i.op = "sub" -> [m EXCEPT !.stack = @ \o [n \in 1 .. i.n |-> Junk]]
    [] i.op = "add" ->
         IF i.n > Len(m.stack) THEN Astray(m)
         ELSE [m EXCEPT !.stack = SubSeq(@, 1, Len(@) - i.n)]
    [] i.op = "frame" -> [m EXCEPT !.reg["RBP"] = Address(Len(m.stack))]
    [] i.op = "unwind" ->
         IF HasFrame(m) THEN [m EXCEPT !.stack = SubSeq(@, 1, Frame(m))] ELSE Astray(m)

Exec(m, code) ==
  LET After[k \in 0 .. Len(code)] ==
        IF k = 0 THEN m
        ELSE CHOOSE after \in {IF before.ok THEN Do(before, code[k]) ELSE before :
                                 before \in {After[k - 1]}} : TRUE
  IN  After[Len(code)]

\* A function of the runtime, written in C: it may write the four words above
\* its return address, and gives up the registers a callee need not save.
Runtime(m, word) ==
  IF Len(m.stack) < 4 THEN Astray(m)
  ELSE [m EXCEPT !.reg["RAX"] = word, !.reg["RCX"] = Junk, !.reg["RDX"] = Junk,
                 !.stack = SubSeq(@, 1, Len(@) - 4) \o Shadow]

Machine == [reg |-> reg, stack |-> stack, ok |-> TRUE]

-----------------------------------------------------------------------------
(***************************************************************************)
(* The code of a function: its entry, what stands before and after a call, *)
(* its end and the exit of a failed check.                                 *)
(***************************************************************************)
Entry(d) == <<Push("RBP"), MovRBPRSP, SubRSP(MaxNumVars(d))>>
\* Mutant: the caller's RBP is popped into a register that is free.
LeaveElsewhere == <<MovRSPRBP, Pop("RCX")>>
Leave == <<MovRSPRBP, Pop("RBP")>>

\* used_registers where the instruction is emitted, less its own place.
Used(d, k) == Text!Needed(d, k)
Pushes(used) == [n \in 1 .. Len(used) |-> Push(used[n])]
\* Mutant: restored in the order they were saved in.
PopsInPushOrder(used) == [n \in 1 .. Len(used) |-> Pop(used[n])]
Pops(used) == [n \in 1 .. Len(used) |-> Pop(used[Len(used) + 1 - n])]
SavedBy(d, k) == SelectSeq(<<"RAX", "RDX", "RCX">>, LAMBDA r : r \in Used(d, k))

Arguments(i) ==
  IF i.op = "call" THEN <<Mov("RCX", i.arg)>>
  ELSE <<Word("RDX", <<"name", i.name>>), Word("RCX", <<"jit">>), Word("RAX", <<"callback">>)>>
\* Mutant: the shadow space of the callee is left out.
BeforeCallUnshadowed(d, k) == Pushes(SavedBy(d, k)) \o Arguments(Op(d, k))
BeforeCall(d, k) == Pushes(SavedBy(d, k)) \o Arguments(Op(d, k)) \o <<SubRSP(4)>>
AfterCall(d, k) == <<AddRSP(4), Mov(Op(d, k).into, "RAX")>> \o Pops(SavedBy(d, k))
CallsError == <<Word("RAX", <<"ojit_jit_error">>), SubRSP(4)>>
AfterError == <<AddRSP(4)>> \o Leave \o <<Mov("RAX", "RCX")>>

-----------------------------------------------------------------------------
Init ==
  /\ function_records = [n \in Names |-> None]
  /\ compiled = {}
  /\ reg = [r \in {"RAX", "RCX", "RDX", "RBP"} |-> HostWord]
  /\ stack = HostStack
  /\ at = <<None, 0>>
  /\ host = "idle"
  /\ answer = [of |-> None, word |-> Junk]

\* The pointer of an unknown name is not set, and it is followed.
Undefined ==
  /\ host' = "undefined"
  /\ UNCHANGED <<function_records, compiled, reg, stack, at, answer>>

\* The processor has left the code and the stack.
GoAstray ==
  /\ host' = "astray"
  /\ UNCHANGED <<function_records, reg, stack, at, answer>>

Became(m) == reg' = m.reg /\ stack' = m.stack

\* jit_add_file, for a file that parses: parse_function inserts each function,
\* and hash_table_insert leaves a name that is there.
jit_add_file ==
  /\ host = "idle"
  /\ \E f \in DOMAIN Files : function_records' = Text!WithFile(function_records, f)
  /\ UNCHANGED <<compiled, reg, stack, at, host, answer>>

\* jit_dump_function: when the function has code already, the length of the
\* dump is not set.
jit_dump_function ==
  /\ host = "idle"
  /\ \E n \in Names :
       \/ /\ function_records[n] # None
          /\ compiled' = compiled \union {function_records[n]}
          /\ UNCHANGED <<function_records, reg, stack, at, host, answer>>
       \/ function_records[n] = None /\ Undefined

\* Control reaches the first instruction of d, the return address pushed.
Enter(d, m, returnTo) ==
  \E entered \in {Exec([m EXCEPT !.stack = Append(@, returnTo)], Entry(d))} :
    Became(entered) /\ at' = <<d, 1>>

\* jit_get_function and jit_call_function.
jit_call_function ==
  /\ host = "idle"
  /\ \E n \in Names, v \in Values :
       LET d == function_records[n]
       IN  \/ /\ d # None
              /\ compiled' = compiled \union {d}
              /\ Enter(d, [reg |-> [r \in DOMAIN reg |-> IF r = "RCX" THEN Text!Value(v)
                                                          ELSE HostWord],
                           stack |-> HostStack, ok |-> TRUE], ReturnToHost)
              /\ host' = "running"
              /\ UNCHANGED <<function_records, answer>>
           \/ d = None /\ Undefined

-----------------------------------------------------------------------------
Now == Op(at[1], at[2])
Running(op) == host = "running" /\ Now.op = op
GoOn(after, k) ==
  \E m \in {after} :
    IF m.ok THEN /\ Became(m)
                 /\ at' = <<at[1], k>>
                 /\ UNCHANGED <<function_records, host, answer>>
    ELSE GoAstray

Compute ==
  /\ Running("value")
  /\ \E v \in Values : GoOn(Put(Machine, Now.into, Text!Value(v)), at[2] + 1)
  /\ UNCHANGED compiled

Move ==
  /\ Running("move")
  /\ GoOn(Exec(Machine, <<Mov(Now.into, Now.from)>>), at[2] + 1)
  /\ UNCHANGED compiled

Branch ==
  /\ Running("branch")
  /\ \/ Len(stack) <= MaxStack /\ GoOn(Machine, at[2] + 1)
     \/ GoOn(Machine, Now.to)
  /\ UNCHANGED compiled

\* emit_global; jit_compiled_callback and jit_get_compiled_function.
LookUp ==
  /\ Running("global")
  /\ \E d \in {function_records[Now.name]},
        m \in {Exec(Machine, BeforeCall(at[1], at[2]))} :
       \/ /\ d # None
          /\ compiled' = compiled \union {d}
          /\ GoOn(Exec(Runtime(m, Code(d)), AfterCall(at[1], at[2])), at[2] + 1)
       \/ d = None /\ Undefined

\* emit_call.
Call ==
  /\ Running("call")
  /\ \E m \in {Exec(Machine, BeforeCall(at[1], at[2]))} :
       LET callee == Get(m, Now.callee)
       IN  \/ /\ Text!IsCode(callee)
              /\ Enter(callee[2], m, ReturnTo(at[1], at[2]))
              /\ UNCHANGED <<function_records, host, answer>>
           \/ ~Text!IsCode(callee) /\ Undefined
  /\ UNCHANGED compiled

\* ret, and what the caller does next.
ReturnsTo(m) == m.stack[Len(m.stack)]
Returned(m) == Exec(m, <<AddRSP(1)>>)
GiveBack(after) ==
  \E m \in {after} :
    CASE ~m.ok \/ m.stack = << >> \/ ReturnsTo(m)[1] # "return" -> GoAstray
      [] ReturnsTo(m) = ReturnToHost ->
           /\ Became(Returned(m))
           /\ at' = <<None, 0>>
           /\ host' = "idle"
           /\ answer' = [of |-> at[1], word |-> m.reg["RAX"]]
           /\ UNCHANGED function_records
      [] OTHER ->
           \E caller \in {ReturnsTo(m)} :
           \E back \in {Exec(Returned(m), AfterCall(caller[2], caller[3]))} :
             IF back.ok THEN /\ Became(back)
                             /\ at' = <<caller[2], caller[3] + 1>>
                             /\ UNCHANGED <<function_records, host, answer>>
             ELSE GoAstray

\* emit_return.
Return ==
  /\ Running("return")
  /\ GiveBack(Exec(Machine, Leave \o <<Mov("RAX", Now.from)>>))
  /\ UNCHANGED compiled

\* emit_assert_loc_i32 and the exit of ojit_compile_function: what RCX holds
\* after ojit_jit_error becomes the value of the function.
Check ==
  /\ Running("check")
  /\ LET w == Get(Machine, Now.from)
     IN  \/ Text!MayPass(w) /\ GoOn(Machine, at[2] + 1)
         \/ /\ Text!MayFail(w)
            /\ GiveBack(Exec(Runtime(Exec(Machine, CallsError), Junk), AfterError))
  /\ UNCHANGED compiled

Execute == Compute \/ Move \/ Branch \/ LookUp \/ Call \/ Return \/ Check
Next == jit_add_file \/ jit_dump_function \/ jit_call_function \/ Execute

\* The processor goes on; the host need not call.
Spec == Init /\ [][Next]_vars /\ WF_vars(Execute)

-----------------------------------------------------------------------------
(***************************************************************************)
(* The activations, read from the registers and the stack: RBP leads from  *)
(* a frame to its caller's; above it is the return address, and above the  *)
(* callee's shadow space the registers the caller has saved.               *)
(***************************************************************************)
Suspended(to, rbp, callee) ==
  LET saved == SavedBy(to[2], to[3])
      top == callee - 2 - 4
      HeldIn(p) == IF IsSlot(p) THEN stack[rbp]
                   ELSE LET n == CHOOSE n \in DOMAIN saved : saved[n] = p
                        IN  stack[top - Len(saved) + n]
  IN  [def |-> to[2], at |-> to[3], has |-> [p \in Text!Needed(to[2], to[3]) |-> HeldIn(p)]]

\* The callers of the function whose frame is at n.
Callers(m) ==
  LET From[n \in 0 .. Len(m)] ==
        IF n < 2 \/ m[n - 1] = ReturnToHost THEN << >>
        ELSE LET rbp == m[n][2] IN <<Suspended(m[n - 1], rbp, n)>> \o From[rbp]
  IN  From

Activations ==
  IF host # "running" THEN << >>
  ELSE <<[def |-> at[1], at |-> at[2],
          has |-> [p \in Now.live |-> Get(Machine, p)]]>> \o Callers(stack)[Frame(Machine)]

Promised == INSTANCE Calls WITH known <- function_records, activations <- Activations

-----------------------------------------------------------------------------
(***************************************************************************)
(* Correctness.                                                            *)
(***************************************************************************)
\* The stack, the registers and compilation on demand implement Calls: a call
\* runs the first definition of the name, whenever it was compiled, its caller
\* gets its value and finds the values it still needs, and after any number of
\* calls, failed checks and returns nothing is mixed up.  Functions with a
\* slot are called by the host only.
ImplementsCalls == Promised!Spec

\* When the host has its answer, its stack is as it was, and so is RBP unless
\* the function has a slot (compiler.c, prologue; emit_return).
HostFrameKept ==
  host = "idle" /\ answer.of # None =>
    /\ stack = HostStack
    /\ UsesSlots(answer.of) \/ reg["RBP"] = HostWord

\* A call of the host comes back, unless it has met an unknown name.
CallsReturn == host = "running" ~> host \in {"idle", "undefined"}

\* A caller may assume that RBP is used by it, and kept by what it calls.
RBPKept == host = "idle" /\ answer.of # None => reg["RBP"] = HostWord

=============================================================================
