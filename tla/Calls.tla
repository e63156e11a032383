------------------------------- MODULE Calls -------------------------------
(***************************************************************************)
(* What calling a function promises: a host adds files of definitions and  *)
(* calls functions by name; the first definition of a name is the one that *)
(* runs, for calls of the host and for calls of other functions; a call    *)
(* has an activation of its own, the values its caller still needs are     *)
(* what they were when it returns, and the caller gets the value returned. *)
(* A name without a definition has no meaning: anything may happen.        *)
(*                                                                         *)
(* A body is a sequence of instructions with the places (registers or a    *)
(* slot) in use before each, as the code generator has chosen them.        *)
(***************************************************************************)
EXTENDS Naturals, Sequences

CONSTANTS
  Files,   \* the files: sequences of [name, body]
  Names,   \* the names of functions
  Values,  \* the values a function may compute, as OJITValue
  Ints     \* those of them with the tag of an integer

VARIABLES
  known,        \* the definition of each name, <<file, number>>, or None
  activations,  \* the calls under way, the newest first
  host,         \* "idle", "running", or "undefined": anything may happen
  answer        \* what the last call of the host gave: definition and word

vars == <<known, activations, host, answer>>

None == << >>
Definitions == UNION {{<<f, n>> : n \in DOMAIN Files[f]} : f \in DOMAIN Files}
NameOf(d) == Files[d[1]][d[2]].name
Body(d) == Files[d[1]][d[2]].body
Op(d, k) == Body(d)[k]

Value(v) == <<"value", v>>
Code(d) == <<"code", d>>
Junk == <<"junk">>   \* a word nothing is known of
IsCode(w) == w[1] = "code"

\* The check of the tag; a word nothing is known of may pass it or not.
MayPass(w) == w = Junk \/ \E v \in Ints : w = Value(v)
MayFail(w) == ~\E v \in Ints : w = Value(v)

\* The first definition of a name in a file.
In(f, n) == {d \in Definitions : d[1] = f /\ NameOf(d) = n}
FirstIn(f, n) ==
  IF In(f, n) = {} THEN None ELSE CHOOSE d \in In(f, n) : \A e \in In(f, n) : d[2] <= e[2]
WithFile(records, f) ==
  [n \in Names |-> IF records[n] # None THEN records[n] ELSE FirstIn(f, n)]

Only(has, places) == [p \in places |-> has[p]]
Activation(d, w) == [def |-> d, at |-> 1, has |-> [p \in {"RCX"} |-> w]]
\* The places whose values outlast instruction k.
Needed(d, k) == Op(d, k + 1).live \ {Op(d, k).into}

Init ==
  /\ known = [n \in Names |-> None]
  /\ activations = << >>
  /\ host = "idle"
  /\ answer = [of |-> None, word |-> Junk]

-----------------------------------------------------------------------------
Undefined == host' = "undefined" /\ activations' = << >> /\ UNCHANGED <<known, answer>>

AddFile ==
  /\ host = "idle"
  /\ \E f \in DOMAIN Files : known' = WithFile(known, f)
  /\ UNCHANGED <<activations, host, answer>>

Start ==
  /\ host = "idle"
  /\ \E n \in Names, v \in Values :
       \/ /\ known[n] # None
          /\ activations' = <<Activation(known[n], Value(v))>>
          /\ host' = "running"
          /\ UNCHANGED <<known, answer>>
       \/ known[n] = None /\ Undefined

\* A dump of a function compiles it; of an unknown name, it follows no pointer.
Dump == host = "idle" /\ (\E n \in Names : known[n] = None) /\ Undefined

-----------------------------------------------------------------------------
Top == Head(activations)
Now == Op(Top.def, Top.at)
Running(op) == host = "running" /\ Now.op = op

Goto(k, has) ==
  /\ activations' =
       <<[Top EXCEPT !.at = k, !.has = Only(has, Op(Top.def, k).live)]>> \o Tail(activations)
  /\ UNCHANGED <<known, host, answer>>

With(p, w) == [q \in DOMAIN Top.has \union {p} |-> IF q = p THEN w ELSE Top.has[q]]

Compute == Running("value") /\ \E v \in Values : Goto(Top.at + 1, With(Now.into, Value(v)))

Move == Running("move") /\ Goto(Top.at + 1, With(Now.into, Top.has[Now.from]))

Branch == Running("branch") /\ \E k \in {Top.at + 1, Now.to} : Goto(k, Top.has)

LookUp ==
  /\ Running("global")
  /\ \/ /\ known[Now.name] # None
        /\ Goto(Top.at + 1, With(Now.into, Code(known[Now.name])))
     \/ known[Now.name] = None /\ Undefined

Call ==
  /\ Running("call")
  /\ LET callee == Top.has[Now.callee]
         caller == [Top EXCEPT !.has = Only(@, Needed(Top.def, Top.at))]
     IN  \/ /\ IsCode(callee)
            /\ activations' = <<Activation(callee[2], Top.has[Now.arg]), caller>>
                                \o Tail(activations)
            /\ UNCHANGED <<known, host, answer>>
         \/ ~IsCode(callee) /\ Undefined

GiveBack(w) ==
  IF Len(activations) = 1
  THEN /\ activations' = << >>
       /\ host' = "idle"
       /\ answer' = [of |-> Top.def, word |-> w]
       /\ known' = known
  ELSE LET caller == activations[2]
           op == Op(caller.def, caller.at)
       IN  /\ activations' =
                <<[caller EXCEPT !.at = @ + 1,
                                 !.has = [p \in Op(caller.def, caller.at + 1).live |->
                                            IF p = op.into THEN w ELSE caller.has[p]]]>>
                  \o SubSeq(activations, 3, Len(activations))
           /\ UNCHANGED <<known, host, answer>>

Return == Running("return") /\ GiveBack(Top.has[Now.from])

\* A failed check ends the function, which gives a word nothing is known of.
Check ==
  /\ Running("check")
  /\ \/ MayPass(Top.has[Now.from]) /\ Goto(Top.at + 1, Top.has)
     \/ MayFail(Top.has[Now.from]) /\ GiveBack(Junk)

Next ==
  AddFile \/ Start \/ Dump \/ Compute \/ Move \/ Branch \/ LookUp \/ Call \/ Return \/ Check

Spec == Init /\ [][Next]_vars

=============================================================================
