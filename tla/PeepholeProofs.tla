---------------------------- MODULE PeepholeProofs ----------------------------
(***************************************************************************)
(* The peephole optimizer, for blocks of any length and constants of any   *)
(* width: what is used elsewhere keeps its value, the reference counts     *)
(* cover every use that is still needed, and one pass leaves nothing       *)
(* behind that could be folded.                                            *)
(***************************************************************************)
EXTENDS Peephole, Induction, TLAPS, SequenceTheorems, FiniteSetTheorems

Instr == [id : {"PARAM", "INT", "ADD"}, constant : Word, a : Nat, b : Nat, refs : Int]

\* An addition reads what comes before it.
WellFormed(program) ==
  /\ program \in Seq(Instr)
  /\ \A i \in 1 .. Len(program) :
       program[i].id = "ADD" => program[i].a \in 1 .. i - 1 /\ program[i].b \in 1 .. i - 1

Shape ==
  /\ WellFormed(instrs)
  /\ users \subseteq 1 .. Len(instrs)
  /\ at \in 1 .. Len(instrs) + 1
  /\ stage \in {"build", "fold", "done"}
  /\ stage = "build" => at = 1

\* The uses of a value by the additions in S and by the others.
ByA(list, S, i) == {j \in S : list[j].id = "ADD" /\ list[j].a = i}
ByB(list, S, i) == {j \in S : list[j].id = "ADD" /\ list[j].b = i}
UsesIn(list, others, S, i) ==
  Cardinality(ByA(list, S, i)) + Cardinality(ByB(list, S, i)) + Cardinality(others \cap {i})

\* The instructions outside "live" were folded into their only user: no live one
\* reads them, and the counts cover the uses by the live ones.
Live(live) ==
  /\ live \subseteq 1 .. Len(instrs)
  /\ users \subseteq live
  /\ at .. Len(instrs) \subseteq live
  /\ \A i \in live : Is("ADD", i) => instrs[i].a \in live /\ instrs[i].b \in live
  /\ \A i \in live : instrs[i].refs >= UsesIn(instrs, users, live, i)

\* No instruction depends on more than it did in the source.
SourceCovers ==
  stage # "build" =>
    /\ WellFormed(source)
    /\ Len(source) = Len(instrs)
    /\ \A i \in 1 .. Len(instrs) : Reads(instrs)[i] \subseteq Reads(source)[i]

IInv ==
  /\ Shape
  /\ \E live : Live(live)
  /\ NothingLeftToFold
  /\ SourceCovers
  /\ UsedValuesStay

-----------------------------------------------------------------------------
(***************************************************************************)
(* Counting uses.                                                          *)
(***************************************************************************)
\* 1 for what is equal, or a member.
Same(i, j) == IF i = j THEN 1 ELSE 0
Member(i, S) == IF i \in S THEN 1 ELSE 0

\* The members of S that a function gives the value i.
With(S, f, i) == {j \in S : f[j] = i}

LEMMA WithFinite ==
  ASSUME NEW S, IsFiniteSet(S), NEW f, NEW i
  PROVE  IsFiniteSet(With(S, f, i)) /\ Cardinality(With(S, f, i)) \in Nat
  BY FS_Subset, FS_CardinalityType DEF With

\* One member gets another value.
Exchanged(S, f, g, s, i) ==
  Cardinality(With(S, g, i)) = Cardinality(With(S, f, i)) - Same(f[s], i) + Same(g[s], i)

LEMMA WithChanged ==
  ASSUME NEW S, IsFiniteSet(S), NEW f, NEW g, NEW s \in S, \A j \in S \ {s} : g[j] = f[j],
         NEW i
  PROVE  Exchanged(S, f, g, s, i)
<1>. DEFINE F == With(S, f, i)
            G == With(S, g, i)
            Rest == With(S \ {s}, f, i)
<1>1. /\ F = IF f[s] = i THEN Rest \cup {s} ELSE Rest
      /\ G = IF g[s] = i THEN Rest \cup {s} ELSE Rest
      /\ s \notin Rest
  BY DEF With
<1>2. IsFiniteSet(Rest) /\ Cardinality(Rest) \in Nat
  <2>1. IsFiniteSet(S \ {s})
    BY FS_RemoveElement
  <2>2. QED
    BY <2>1, WithFinite
<1>3. Cardinality(Rest \cup {s}) = Cardinality(Rest) + 1
  BY <1>1, <1>2, FS_AddElement
<1>. HIDE DEF F, G, Rest
<1>4. Cardinality(G) = Cardinality(F) - Same(f[s], i) + Same(g[s], i)
  BY <1>1, <1>2, <1>3 DEF Same, Member
<1>5. QED
  BY <1>4 DEF F, G, Exchanged

\* One member leaves.
LEMMA WithLess ==
  ASSUME NEW S, IsFiniteSet(S), NEW f, NEW s \in S, NEW i
  PROVE  Cardinality(With(S \ {s}, f, i)) = Cardinality(With(S, f, i)) - Same(f[s], i)
<1>1. With(S \ {s}, f, i) = With(S, f, i) \ {s}
  BY DEF With
<1>2. s \in With(S, f, i) <=> f[s] = i
  BY DEF With
<1>3. IsFiniteSet(With(S, f, i)) /\ Cardinality(With(S, f, i)) \in Nat
  BY WithFinite
<1>4. PICK F : F = With(S, f, i)
  OBVIOUS
<1>5. Cardinality(F \ {s}) = IF s \in F THEN Cardinality(F) - 1 ELSE Cardinality(F)
  BY <1>3, <1>4, FS_RemoveElement
<1>6. With(S \ {s}, f, i) = F \ {s} /\ (s \in F <=> f[s] = i) /\ Cardinality(F) \in Nat
  BY <1>1, <1>2, <1>3, <1>4
<1>7. Cardinality(F \ {s}) = Cardinality(F) - Same(f[s], i)
  BY <1>5, <1>6 DEF Same, Member
<1>8. QED
  BY <1>4, <1>6, <1>7

\* One member joins.
Joined(S, f, s, i) ==
  Cardinality(With(S \cup {s}, f, i)) = Cardinality(With(S, f, i)) + Same(f[s], i)

LEMMA WithMore ==
  ASSUME NEW S, IsFiniteSet(S), NEW f, NEW s, s \notin S, NEW i
  PROVE  Joined(S, f, s, i)
<1>1. With(S \cup {s}, f, i) = IF f[s] = i THEN With(S, f, i) \cup {s} ELSE With(S, f, i)
  BY DEF With
<1>2. s \notin With(S, f, i)
  BY DEF With
<1>3. IsFiniteSet(With(S, f, i)) /\ Cardinality(With(S, f, i)) \in Nat
  BY WithFinite
<1>4. PICK F : F = With(S, f, i)
  OBVIOUS
<1>5. Cardinality(F \cup {s}) = Cardinality(F) + 1
  BY <1>2, <1>3, <1>4, FS_AddElement
<1>6. QED
  BY <1>1, <1>3, <1>4, <1>5 DEF Same, Joined

\* The operands of the additions; 0 for the other instructions.
OperandsA(list) == [j \in 1 .. Len(list) |-> IF list[j].id = "ADD" THEN list[j].a ELSE 0]
OperandsB(list) == [j \in 1 .. Len(list) |-> IF list[j].id = "ADD" THEN list[j].b ELSE 0]

Counted(list, others, S, i) ==
  /\ Cardinality(With(S, OperandsA(list), i)) \in Nat
  /\ Cardinality(With(S, OperandsB(list), i)) \in Nat
  /\ UsesIn(list, others, S, i) =
       Cardinality(With(S, OperandsA(list), i)) + Cardinality(With(S, OperandsB(list), i))
         + Member(i, others)

LEMMA UsesCounted ==
  ASSUME NEW list, Len(list) \in Nat, NEW others, NEW S \in SUBSET (1 .. Len(list)),
         NEW i \in 1 .. Len(list)
  PROVE  IsFiniteSet(S) /\ Counted(list, others, S, i)
<1>1. IsFiniteSet(S)
  <2>1. IsFiniteSet(1 .. Len(list))
    BY FS_Interval
  <2>2. QED
    BY <2>1, FS_Subset
<1>2. i # 0
  OBVIOUS
<1>3. ByA(list, S, i) = With(S, OperandsA(list), i) /\ ByB(list, S, i) = With(S, OperandsB(list), i)
  BY <1>2 DEF ByA, ByB, With, OperandsA, OperandsB
<1>4. Cardinality(others \cap {i}) = Member(i, others)
  <2>1. others \cap {i} = IF i \in others THEN {i} ELSE {}
    OBVIOUS
  <2>2. QED
    BY <2>1, FS_EmptySet, FS_Singleton DEF Same, Member
<1>5. QED
  BY <1>1, <1>3, <1>4, WithFinite DEF Counted, UsesIn

-----------------------------------------------------------------------------
(***************************************************************************)
(* What the actions do to each field of the instructions.                  *)
(***************************************************************************)
Added(a, b) ==
  LET new == Len(instrs) + 1
  IN  /\ instrs' \in Seq(Instr)
      /\ Len(instrs') = new
      /\ instrs'[new].id = "ADD" /\ instrs'[new].a = a /\ instrs'[new].b = b
      /\ instrs'[new].refs = 0
      /\ \A i \in 1 .. Len(instrs) :
           /\ instrs'[i].id = instrs[i].id
           /\ instrs'[i].a = instrs[i].a /\ instrs'[i].b = instrs[i].b
           /\ instrs'[i].refs = instrs[i].refs + Same(i, a) + Same(i, b)

LEMMA AddedBy ==
  ASSUME WellFormed(instrs), NEW a \in 1 .. Len(instrs), NEW b \in 1 .. Len(instrs),
         BuilderAdd(a, b)
  PROVE  Added(a, b)
<1>. DEFINE Incremented(i) == [instrs[i] EXCEPT !.refs = @ + (IF i = a THEN 1 ELSE 0)
                                                       + (IF i = b THEN 1 ELSE 0)]
            counted == [i \in DOMAIN instrs |-> Incremented(i)]
            new == AddOf(a, b)
<1>1. instrs \in Seq(Instr) /\ Len(instrs) \in Nat
  BY DEF WellFormed
<1>2. ASSUME NEW i \in 1 .. Len(instrs)
      PROVE  /\ Incremented(i) \in Instr
             /\ Incremented(i).id = instrs[i].id
             /\ Incremented(i).a = instrs[i].a /\ Incremented(i).b = instrs[i].b
             /\ Incremented(i).refs = instrs[i].refs + Same(i, a) + Same(i, b)
  <2>1. instrs[i] \in Instr
    BY <1>1
  <2>2. QED
    BY <2>1 DEF Instr, Same, Member
<1>3. new \in Instr /\ new.id = "ADD" /\ new.a = a /\ new.b = b /\ new.refs = 0
  <2>1. 0 \in Word
    BY PeepholeAssumption DEF Word
  <2>2. QED
    BY <2>1, <1>1 DEF AddOf, Instr
<1>4. instrs' = Append(counted, new)
  BY DEF BuilderAdd
<1>. HIDE DEF Incremented, new
<1>5. /\ counted \in Seq(Instr) /\ Len(counted) = Len(instrs)
      /\ \A i \in 1 .. Len(instrs) : counted[i] = Incremented(i)
  BY <1>1, <1>2
<1>. HIDE DEF counted
<1>6. /\ instrs' \in Seq(Instr)
      /\ Len(instrs') = Len(instrs) + 1
      /\ instrs'[Len(instrs) + 1] = new
  BY <1>1, <1>3, <1>4, <1>5
<1>7. \A i \in 1 .. Len(instrs) : instrs'[i] = Incremented(i)
  BY <1>1, <1>3, <1>4, <1>5
<1>8. QED
  BY <1>2, <1>3, <1>6, <1>7 DEF Added

\* An addition of two constants becomes their sum.
FoldedInt ==
  /\ at \in 1 .. Len(instrs)
  /\ instrs[at].id = "ADD"
  /\ instrs[instrs[at].a].id = "INT" /\ instrs[instrs[at].b].id = "INT"
  /\ instrs' \in Seq(Instr)
  /\ Len(instrs') = Len(instrs)
  /\ \A i \in 1 .. Len(instrs) :
       /\ instrs'[i].id = IF i = at THEN "INT" ELSE instrs[i].id
       /\ instrs'[i].constant =
            IF i = at THEN (instrs[instrs[at].a].constant + instrs[instrs[at].b].constant) % Ints
            ELSE instrs[i].constant
       /\ instrs'[i].a = instrs[i].a /\ instrs'[i].b = instrs[i].b
       /\ instrs'[i].refs = instrs[i].refs

LEMMA SumIsWord ==
  ASSUME NEW c \in Word, NEW d \in Word
  PROVE  (c + d) % Ints \in Word
  BY PeepholeAssumption DEF Word

LEMMA FoldedIntBy ==
  ASSUME Shape, FoldIntInt
  PROVE  FoldedInt
<1>1. /\ instrs \in Seq(Instr) /\ Len(instrs) \in Nat
      /\ \A i \in 1 .. Len(instrs) : instrs[i] \in Instr
      /\ at \in 1 .. Len(instrs)
      /\ instrs[at].id = "ADD"
      /\ instrs[instrs[at].a].id = "INT" /\ instrs[instrs[at].b].id = "INT"
  BY DEF Shape, WellFormed, FoldIntInt, Folding, MatchAdd, Is
<1>2. instrs[at].a \in 1 .. Len(instrs) /\ instrs[at].b \in 1 .. Len(instrs)
  BY <1>1 DEF Shape, WellFormed
<1>3. PICK sum \in Word :
        sum = (instrs[instrs[at].a].constant + instrs[instrs[at].b].constant) % Ints
  <2>1. instrs[instrs[at].a].constant \in Word /\ instrs[instrs[at].b].constant \in Word
    BY <1>1, <1>2 DEF Instr
  <2>2. QED
    BY <2>1, SumIsWord
<1>4. PICK new : new = [[instrs[at] EXCEPT !.id = "INT"] EXCEPT !.constant = sum]
  OBVIOUS
<1>5. /\ new \in Instr /\ new.id = "INT" /\ new.constant = sum
      /\ new.a = instrs[at].a /\ new.b = instrs[at].b /\ new.refs = instrs[at].refs
  BY <1>1, <1>4 DEF Instr
<1>6. instrs' = [instrs EXCEPT ![at] = new]
  BY <1>3, <1>4 DEF FoldIntInt, ReplaceInt, Sum
<1>7. /\ instrs' \in Seq(Instr)
      /\ Len(instrs') = Len(instrs)
      /\ \A i \in 1 .. Len(instrs) : instrs'[i] = IF i = at THEN new ELSE instrs[i]
  BY <1>1, <1>5, <1>6
<1>8. ASSUME NEW i \in 1 .. Len(instrs)
      PROVE  /\ instrs'[i].id = IF i = at THEN "INT" ELSE instrs[i].id
             /\ instrs'[i].constant = IF i = at THEN sum ELSE instrs[i].constant
             /\ instrs'[i].a = instrs[i].a /\ instrs'[i].b = instrs[i].b
             /\ instrs'[i].refs = instrs[i].refs
  BY <1>5, <1>7
<1>9. QED
  BY <1>1, <1>3, <1>7, <1>8 DEF FoldedInt

\* An addition of c and of inner, which adds k and v and has no other use: c
\* becomes the sum of both constants, and v is added to that.
Folded(inner, c, k, v) ==
  /\ at \in 1 .. Len(instrs)
  /\ inner \in 1 .. at - 1 /\ c \in 1 .. at - 1
  /\ k \in 1 .. inner - 1 /\ v \in 1 .. inner - 1
  /\ instrs[at].id = "ADD" /\ instrs[inner].id = "ADD"
  /\ instrs[c].id = "INT" /\ instrs[k].id = "INT"
  /\ <<instrs[at].a, instrs[at].b>> \in {<<c, inner>>, <<inner, c>>}
  /\ <<instrs[inner].a, instrs[inner].b>> \in {<<k, v>>, <<v, k>>}
  /\ instrs[inner].refs = 1
  /\ instrs' \in Seq(Instr)
  /\ Len(instrs') = Len(instrs)
  /\ \A i \in 1 .. Len(instrs) :
       /\ instrs'[i].id = instrs[i].id
       /\ instrs'[i].constant = IF i = c THEN (instrs[c].constant + instrs[k].constant) % Ints
                                ELSE instrs[i].constant
       /\ instrs'[i].a = IF i = at THEN c ELSE instrs[i].a
       /\ instrs'[i].b = IF i = at THEN v ELSE instrs[i].b
       /\ instrs'[i].refs = instrs[i].refs - Same(i, inner) - Same(i, k)
  /\ overwritten' = IF UsedOutside(c, {at, inner}) THEN overwritten \cup {c} ELSE overwritten

\* One use less of the instruction s.
Released(list, result, s) ==
  /\ result \in Seq(Instr) /\ Len(result) = Len(list)
  /\ \A i \in 1 .. Len(list) :
       /\ result[i].id = list[i].id /\ result[i].constant = list[i].constant
       /\ result[i].a = list[i].a /\ result[i].b = list[i].b
       /\ result[i].refs = list[i].refs - Same(i, s)

LEMMA ReleasedBy ==
  ASSUME NEW list \in Seq(Instr), NEW s \in 1 .. Len(list)
  PROVE  Released(list, [list EXCEPT ![s].refs = @ - 1], s)
<1>1. PICK old \in Instr : old = list[s]
  OBVIOUS
<1>2. PICK new : new = [old EXCEPT !.refs = @ - 1]
  OBVIOUS
<1>3. /\ new \in Instr /\ new.id = old.id /\ new.constant = old.constant
      /\ new.a = old.a /\ new.b = old.b /\ new.refs = old.refs - 1
  <2>1. PICK less \in Int : less = old.refs - 1
    BY DEF Instr
  <2>2. new = [old EXCEPT !.refs = less]
    BY <1>2, <2>1
  <2>3. QED
    BY <2>1, <2>2 DEF Instr
<1>4. PICK result : result = [list EXCEPT ![s] = new]
  OBVIOUS
<1>5. /\ result \in Seq(Instr) /\ Len(result) = Len(list)
      /\ \A i \in 1 .. Len(list) : result[i] = IF i = s THEN new ELSE list[i]
  BY <1>3, <1>4
<1>6. ASSUME NEW i \in 1 .. Len(list) PROVE list[i].refs \in Int
  <2>1. list[i] \in Instr
    OBVIOUS
  <2>2. QED
    BY <2>1 DEF Instr
<1>7. Released(list, result, s)
  BY <1>1, <1>3, <1>5, <1>6 DEF Released, Same, Member
<1>8. result = [list EXCEPT ![s].refs = @ - 1]
  BY <1>1, <1>2, <1>4
<1>9. QED
  BY <1>7, <1>8

LEMMA FoldedBy ==
  ASSUME Shape, Folding, Is("ADD", at), NEW inner, Is("ADD", inner), Foldable(inner),
         NEW c, Is("INT", c),
         <<instrs[at].a, instrs[at].b>> \in {<<c, inner>>, <<inner, c>>},
         FoldCommutative(inner, c)
  PROVE  \E k, v : Folded(inner, c, k, v)
<1>1. /\ instrs \in Seq(Instr) /\ Len(instrs) \in Nat
      /\ \A i \in 1 .. Len(instrs) : instrs[i] \in Instr
      /\ at \in 1 .. Len(instrs)
      /\ instrs[at].id = "ADD" /\ instrs[inner].id = "ADD" /\ instrs[c].id = "INT"
      /\ instrs[inner].refs = 1
  BY DEF Shape, WellFormed, Folding, Is, Foldable
<1>2. ASSUME NEW i \in 1 .. Len(instrs), instrs[i].id = "ADD"
      PROVE  instrs[i].a \in 1 .. i - 1 /\ instrs[i].b \in 1 .. i - 1
  BY <1>2 DEF Shape, WellFormed
<1>3. inner \in 1 .. at - 1 /\ c \in 1 .. at - 1
  BY <1>1, <1>2
<1>4. inner \in 1 .. Len(instrs) /\ c \in 1 .. Len(instrs) /\ c # inner /\ at # c /\ at # inner
  BY <1>1, <1>3
<1>5. PICK k, v : /\ k = InnerConst(inner) /\ v = InnerVal(inner)
                  /\ k \in 1 .. inner - 1 /\ v \in 1 .. inner - 1
                  /\ instrs[k].id = "INT"
                  /\ <<instrs[inner].a, instrs[inner].b>> \in {<<k, v>>, <<v, k>>}
  BY <1>1, <1>2, <1>4 DEF InnerConst, InnerVal, Foldable, Is
<1>6. k \in 1 .. Len(instrs) /\ v \in 1 .. Len(instrs) /\ k # inner /\ k # at /\ v # at
  BY <1>3, <1>4, <1>5
<1>7. PICK sum \in Word : sum = (instrs[c].constant + instrs[k].constant) % Ints
  <2>1. instrs[c].constant \in Word /\ instrs[k].constant \in Word
    BY <1>1, <1>4, <1>6 DEF Instr
  <2>2. QED
    BY <2>1, SumIsWord
<1>8. PICK one : one = [instrs EXCEPT ![c] = ReplaceInt(@, sum)]
  OBVIOUS
<1>9. /\ one \in Seq(Instr) /\ Len(one) = Len(instrs)
      /\ \A i \in 1 .. Len(instrs) :
           /\ one[i].id = instrs[i].id
           /\ one[i].constant = IF i = c THEN sum ELSE instrs[i].constant
           /\ one[i].a = instrs[i].a /\ one[i].b = instrs[i].b
           /\ one[i].refs = instrs[i].refs
  <2>1. PICK new : new = ReplaceInt(instrs[c], sum)
    OBVIOUS
  <2>2. /\ new \in Instr /\ new.id = "INT" /\ new.constant = sum
        /\ new.a = instrs[c].a /\ new.b = instrs[c].b /\ new.refs = instrs[c].refs
    BY <2>1, <1>1, <1>4 DEF ReplaceInt, Instr
  <2>3. one = [instrs EXCEPT ![c] = new]
    BY <2>1, <1>8 DEF ReplaceInt
  <2>4. /\ one \in Seq(Instr) /\ Len(one) = Len(instrs)
        /\ \A i \in 1 .. Len(instrs) : one[i] = IF i = c THEN new ELSE instrs[i]
    BY <2>2, <2>3, <1>1, <1>4
  <2>5. QED
    BY <2>2, <2>4, <1>1
<1>10. PICK two : two = [one EXCEPT ![at] = ReplaceAdd(@, c, v)]
  OBVIOUS
<1>11. /\ two \in Seq(Instr) /\ Len(two) = Len(instrs)
       /\ \A i \in 1 .. Len(instrs) :
            /\ two[i].id = one[i].id /\ two[i].constant = one[i].constant
            /\ two[i].a = IF i = at THEN c ELSE one[i].a
            /\ two[i].b = IF i = at THEN v ELSE one[i].b
            /\ two[i].refs = one[i].refs
  <2>1. PICK new : new = ReplaceAdd(one[at], c, v)
    OBVIOUS
  <2>2. one[at] \in Instr /\ one[at].id = "ADD" /\ c \in Nat /\ v \in Nat
    BY <1>1, <1>4, <1>6, <1>9
  <2>3. /\ new \in Instr /\ new.id = "ADD" /\ new.constant = one[at].constant
        /\ new.a = c /\ new.b = v /\ new.refs = one[at].refs
    BY <2>1, <2>2 DEF ReplaceAdd, Instr
  <2>4. two = [one EXCEPT ![at] = new]
    BY <2>1, <1>10 DEF ReplaceAdd
  <2>5. /\ two \in Seq(Instr) /\ Len(two) = Len(instrs)
        /\ \A i \in 1 .. Len(instrs) : two[i] = IF i = at THEN new ELSE one[i]
    BY <2>3, <2>4, <1>1, <1>9
  <2>6. QED
    BY <2>2, <2>3, <2>5
<1>12. PICK three : three = [two EXCEPT ![inner].refs = @ - 1]
  OBVIOUS
<1>13. Released(two, three, inner)
  BY <1>4, <1>11, <1>12, ReleasedBy
<1>14. PICK four : four = [three EXCEPT ![k].refs = @ - 1]
  OBVIOUS
<1>15. Released(three, four, k)
  BY <1>6, <1>11, <1>13, <1>14, ReleasedBy DEF Released
<1>16. instrs' = four
  <2>1. PICK replaced :
          /\ replaced = [instrs EXCEPT ![c] = ReplaceInt(@, sum),
                                       ![at] = ReplaceAdd(@, c, v),
                                       ![inner].refs = @ - 1]
          /\ instrs' = [replaced EXCEPT ![k].refs = @ - 1]
    BY <1>5, <1>7 DEF FoldCommutative, Sum
  <2>2. PICK A, B, C : /\ A = ReplaceInt(instrs[c], sum)
                       /\ B = ReplaceAdd(instrs[at], c, v)
                       /\ C = [instrs[inner] EXCEPT !.refs = @ - 1]
    OBVIOUS
  <2>3. replaced = [instrs EXCEPT ![c] = A, ![at] = B, ![inner] = C]
    BY <2>1, <2>2, <1>1, <1>4 DEF ReplaceInt, ReplaceAdd
  <2>4. one = [instrs EXCEPT ![c] = A]
    BY <2>2, <1>8 DEF ReplaceInt
  <2>5. two = [one EXCEPT ![at] = B]
    <3>1. one[at] = instrs[at]
      BY <2>4, <1>1, <1>4
    <3>2. two = [one EXCEPT ![at] = ReplaceAdd(one[at], c, v)]
      BY <1>10 DEF ReplaceAdd
    <3>3. QED
      BY <3>1, <3>2, <2>2
  <2>6. three = [two EXCEPT ![inner] = C]
    <3>1. two[inner] = instrs[inner]
      BY <2>4, <2>5, <1>1, <1>4
    <3>2. three = [two EXCEPT ![inner] = [two[inner] EXCEPT !.refs = @ - 1]]
      BY <1>12
    <3>3. QED
      BY <3>1, <3>2, <2>2
  <2>7. replaced = three
    BY <2>3, <2>4, <2>5, <2>6
  <2>8. QED
    BY <2>1, <2>7, <1>14
<1>17. ASSUME NEW i \in 1 .. Len(instrs)
       PROVE  /\ instrs'[i].id = instrs[i].id
              /\ instrs'[i].constant = IF i = c THEN sum ELSE instrs[i].constant
              /\ instrs'[i].a = IF i = at THEN c ELSE instrs[i].a
              /\ instrs'[i].b = IF i = at THEN v ELSE instrs[i].b
              /\ instrs'[i].refs = instrs[i].refs - Same(i, inner) - Same(i, k)
  BY <1>9, <1>11, <1>13, <1>15, <1>16 DEF Released
<1>18. overwritten' = IF UsedOutside(c, {at, inner}) THEN overwritten \cup {c} ELSE overwritten
  BY DEF FoldCommutative
<1>19. Folded(inner, c, k, v)
  BY <1>1, <1>3, <1>5, <1>7, <1>11, <1>13, <1>15, <1>16, <1>17, <1>18 DEF Folded, Released
<1>20. QED
  BY <1>19

LEMMA FoldedEither ==
  ASSUME Shape, FoldIntAdd \/ FoldAddInt
  PROVE  /\ \E inner, c, k, v : Folded(inner, c, k, v)
         /\ UNCHANGED <<users, stage, at, source>>
         /\ stage = "fold"
<1>1. CASE FoldIntAdd
  <2>1. \E k, v : Folded(instrs[at].b, instrs[at].a, k, v)
    BY <1>1, FoldedBy DEF FoldIntAdd, MatchAdd
  <2>2. QED
    BY <2>1, <1>1 DEF FoldIntAdd, FoldCommutative, Folding
<1>2. CASE FoldAddInt
  <2>1. \E k, v : Folded(instrs[at].a, instrs[at].b, k, v)
    BY <1>2, FoldedBy DEF FoldAddInt, MatchAdd
  <2>2. QED
    BY <2>1, <1>2 DEF FoldAddInt, FoldCommutative, Folding
<1>3. QED
  BY <1>1, <1>2

-----------------------------------------------------------------------------
(***************************************************************************)
(* The live instructions.                                                  *)
(***************************************************************************)
\* What is folded into its only user is read by nothing else that is live.
LEMMA InnerUnused ==
  ASSUME WellFormed(instrs), NEW live, Live(live), at \in live,
         NEW inner \in live, instrs[at].id = "ADD",
         instrs[at].a = inner \/ instrs[at].b = inner, instrs[inner].refs = 1
  PROVE  /\ inner \notin users
         /\ \A j \in live \ {at} :
              instrs[j].id = "ADD" => instrs[j].a # inner /\ instrs[j].b # inner
         /\ instrs[at].a # instrs[at].b
<1>. DEFINE f == OperandsA(instrs)
            g == OperandsB(instrs)
            Fs == With(live, f, inner)
            Gs == With(live, g, inner)
            Fr == With(live \ {at}, f, inner)
            Gr == With(live \ {at}, g, inner)
<1>1. /\ live \subseteq 1 .. Len(instrs)
      /\ Len(instrs) \in Nat
      /\ UsesIn(instrs, users, live, inner) <= 1
      /\ at \in 1 .. Len(instrs) /\ inner \in 1 .. Len(instrs)
  BY DEF Live, WellFormed
<1>2. IsFiniteSet(live) /\ Counted(instrs, users, live, inner)
  BY <1>1, UsesCounted
<1>3. /\ Cardinality(Fs) \in Nat /\ Cardinality(Gs) \in Nat
      /\ UsesIn(instrs, users, live, inner) = Cardinality(Fs) + Cardinality(Gs) + Member(inner, users)
  BY <1>2 DEF Counted
<1>4. /\ Cardinality(Fr) = Cardinality(Fs) - Same(f[at], inner)
      /\ Cardinality(Gr) = Cardinality(Gs) - Same(g[at], inner)
  BY <1>2, WithLess
<1>5. /\ IsFiniteSet(Fr) /\ Cardinality(Fr) \in Nat
      /\ IsFiniteSet(Gr) /\ Cardinality(Gr) \in Nat
  <2>1. IsFiniteSet(live \ {at})
    BY <1>2, FS_RemoveElement
  <2>2. QED
    BY <2>1, WithFinite
<1>6. f[at] = instrs[at].a /\ g[at] = instrs[at].b
  BY <1>1 DEF OperandsA, OperandsB
<1>7. /\ Cardinality(Fr) = 0 /\ Cardinality(Gr) = 0 /\ inner \notin users
      /\ ~(f[at] = inner /\ g[at] = inner)
  <2>. HIDE DEF f, g, Fs, Gs, Fr, Gr
  <2>1. f[at] = inner \/ g[at] = inner
    BY <1>6
  <2>2. QED
    BY <2>1, <1>1, <1>3, <1>4, <1>5 DEF Same, Member
<1>8. Fr = {} /\ Gr = {}
  <2>. HIDE DEF Fr, Gr
  <2>1. QED
    BY <1>5, <1>7, FS_EmptySet
<1>9. ASSUME NEW j \in live \ {at}, instrs[j].id = "ADD"
      PROVE  instrs[j].a # inner /\ instrs[j].b # inner
  <2>1. f[j] = instrs[j].a /\ g[j] = instrs[j].b
    BY <1>1, <1>9 DEF OperandsA, OperandsB
  <2>2. f[j] # inner /\ g[j] # inner
    BY <1>8 DEF With
  <2>3. QED
    BY <2>1, <2>2
<1>10. QED
  BY <1>6, <1>7, <1>9

\* After a commutative fold, everything that was live but the inner addition is.
LEMMA LiveFolded ==
  ASSUME WellFormed(instrs), NEW live, Live(live),
         NEW inner, NEW c, NEW k, NEW v, Folded(inner, c, k, v), UNCHANGED <<users, at>>
  PROVE  Live(live \ {inner})'
<1>. DEFINE rest == live \ {inner}
            f == OperandsA(instrs)
            g == OperandsB(instrs)
            f2 == OperandsA(instrs')
            g2 == OperandsB(instrs')
<1>1. PICK len \in Nat : len = Len(instrs) /\ len = Len(instrs')
  BY DEF WellFormed, Folded
<1>2. /\ at \in 1 .. len /\ inner \in 1 .. at - 1 /\ c \in 1 .. at - 1
      /\ k \in 1 .. inner - 1 /\ v \in 1 .. inner - 1
      /\ instrs[at].id = "ADD" /\ instrs[inner].id = "ADD"
      /\ instrs[c].id = "INT"
      /\ <<instrs[at].a, instrs[at].b>> \in {<<c, inner>>, <<inner, c>>}
      /\ <<instrs[inner].a, instrs[inner].b>> \in {<<k, v>>, <<v, k>>}
      /\ instrs[inner].refs = 1
  BY <1>1 DEF Folded
<1>3. ASSUME NEW i \in 1 .. len
      PROVE  /\ instrs'[i].id = instrs[i].id
             /\ instrs'[i].a = IF i = at THEN c ELSE instrs[i].a
             /\ instrs'[i].b = IF i = at THEN v ELSE instrs[i].b
             /\ instrs'[i].refs = instrs[i].refs - Same(i, inner) - Same(i, k)
  BY <1>1 DEF Folded
<1>4. /\ live \subseteq 1 .. len /\ users \subseteq live /\ at .. len \subseteq live
      /\ at \in live
      /\ \A i \in live : instrs[i].refs >= UsesIn(instrs, users, live, i)
  BY <1>1, <1>2 DEF Live
<1>5. ASSUME NEW i \in live, instrs[i].id = "ADD" PROVE instrs[i].a \in live /\ instrs[i].b \in live
  BY <1>5 DEF Live, Is
<1>6. inner \in live /\ c \in live /\ k \in live /\ v \in live
  BY <1>2, <1>4, <1>5
<1>7. /\ inner \notin users
      /\ \A j \in live \ {at} : instrs[j].id = "ADD" => instrs[j].a # inner /\ instrs[j].b # inner
  BY <1>2, <1>4, <1>6, InnerUnused
<1>8. /\ rest \subseteq 1 .. len /\ users \subseteq rest /\ at .. len \subseteq rest
  <2>1. inner \notin at .. len
    BY <1>2
  <2>2. QED
    BY <2>1, <1>4, <1>7
<1>9. ASSUME NEW i \in rest, instrs'[i].id = "ADD"
      PROVE  instrs'[i].a \in rest /\ instrs'[i].b \in rest
  <2>1. CASE i = at
    BY <2>1, <1>2, <1>3, <1>6
  <2>2. CASE i # at
    <3>1. /\ instrs[i].id = "ADD" /\ instrs'[i].a = instrs[i].a /\ instrs'[i].b = instrs[i].b
      BY <2>2, <1>3, <1>4, <1>9
    <3>2. QED
      BY <3>1, <2>2, <1>5, <1>7
  <2>3. QED
    BY <2>1, <2>2
<1>10. ASSUME NEW i \in rest
       PROVE  instrs'[i].refs >= UsesIn(instrs', users, rest, i)
  <2>1. i \in 1 .. len /\ i \in live /\ i # inner
    BY <1>4
  <2>2. IsFiniteSet(live) /\ Counted(instrs, users, live, i) /\ Counted(instrs', users, rest, i)
    BY <2>1, <1>1, <1>4, <1>8, UsesCounted
  <2>3. /\ \A j \in live \ {at} : f2[j] = f[j] /\ g2[j] = g[j]
        /\ f[at] = instrs[at].a /\ g[at] = instrs[at].b /\ f2[at] = c /\ g2[at] = v
        /\ f2[inner] = instrs[inner].a /\ g2[inner] = instrs[inner].b
    BY <1>1, <1>2, <1>3, <1>4 DEF OperandsA, OperandsB
  <2>4. PICK A \in Nat, B \in Nat, A2 \in Nat, B2 \in Nat :
          /\ A = Cardinality(With(live, f, i)) /\ B = Cardinality(With(live, g, i))
          /\ A2 = Cardinality(With(rest, f2, i)) /\ B2 = Cardinality(With(rest, g2, i))
          /\ UsesIn(instrs, users, live, i) = A + B + Member(i, users)
          /\ UsesIn(instrs', users, rest, i) = A2 + B2 + Member(i, users)
    BY <2>2 DEF Counted
  <2>. HIDE DEF f, g, f2, g2
  <2>5. /\ A2 = A - Same(f[at], i) + Same(f2[at], i) - Same(f2[inner], i)
        /\ B2 = B - Same(g[at], i) + Same(g2[at], i) - Same(g2[inner], i)
    <3>1. Exchanged(live, f, f2, at, i) /\ Exchanged(live, g, g2, at, i)
      BY <2>2, <2>3, <1>4, WithChanged
    <3>2. PICK X \in Nat, Y \in Nat :
            X = Cardinality(With(live, f2, i)) /\ Y = Cardinality(With(live, g2, i))
      BY <2>2, WithFinite
    <3>3. X = A - Same(f[at], i) + Same(f2[at], i) /\ Y = B - Same(g[at], i) + Same(g2[at], i)
      BY <3>1, <3>2, <2>4 DEF Exchanged
    <3>4. A2 = X - Same(f2[inner], i) /\ B2 = Y - Same(g2[inner], i)
      BY <3>2, <2>2, <2>4, <1>6, WithLess
    <3>5. PICK p \in Int, q \in Int, r \in Int :
            p = Same(f[at], i) /\ q = Same(f2[at], i) /\ r = Same(f2[inner], i)
      BY DEF Same
    <3>6. PICK s \in Int, u \in Int, w \in Int :
            s = Same(g[at], i) /\ u = Same(g2[at], i) /\ w = Same(g2[inner], i)
      BY DEF Same
    <3>7. A2 = A - p + q - r
      BY <3>3, <3>4, <3>5
    <3>8. B2 = B - s + u - w
      BY <3>3, <3>4, <3>6
    <3>9. QED
      BY <3>5, <3>6, <3>7, <3>8
  <2>6. /\ Same(f[at], i) + Same(g[at], i) = Same(c, i)
        /\ Same(f2[inner], i) + Same(g2[inner], i) = Same(k, i) + Same(v, i)
        /\ f2[at] = c /\ g2[at] = v
    <3>1. Same(f[at], i) + Same(g[at], i) = Same(c, i)
      BY <2>1, <2>3, <1>2 DEF Same, Member
    <3>2. Same(f2[inner], i) + Same(g2[inner], i) = Same(k, i) + Same(v, i)
      BY <2>1, <2>3, <1>2 DEF Same, Member
    <3>3. QED
      BY <3>1, <3>2, <2>3
  <2>7. A2 + B2 = A + B - Same(k, i)
    BY <2>5, <2>6 DEF Same, Member
  <2>8. instrs'[i].refs = instrs[i].refs - Same(i, k) /\ instrs[i].refs \in Int
    <3>1. instrs[i] \in Instr
      <4>1. instrs \in Seq(Instr) /\ i \in 1 .. Len(instrs)
        BY <2>1, <1>1 DEF WellFormed
      <4>2. QED
        BY <4>1
    <3>2. QED
      BY <3>1, <2>1, <1>3 DEF Instr, Same, Member
  <2>9. instrs[i].refs >= A + B + Member(i, users)
    BY <2>1, <2>4, <1>4
  <2>10. QED
    BY <2>4, <2>7, <2>8, <2>9 DEF Same, Member
<1>11. QED
  BY <1>1, <1>8, <1>9, <1>10 DEF Live, Is

LEMMA LiveFoldedInt ==
  ASSUME WellFormed(instrs), NEW live, Live(live), FoldedInt, UNCHANGED <<users, at>>
  PROVE  Live(live)'
<1>1. PICK len \in Nat : len = Len(instrs) /\ len = Len(instrs')
  BY DEF WellFormed, FoldedInt
<1>2. /\ live \subseteq 1 .. len /\ at \in live
      /\ \A i \in live : instrs[i].refs >= UsesIn(instrs, users, live, i)
  BY <1>1 DEF Live, FoldedInt
<1>3. ASSUME NEW i \in live
      PROVE  instrs'[i].refs >= UsesIn(instrs', users, live, i)
  <2>1. i \in 1 .. len /\ i # 0
    BY <1>2
  <2>. DEFINE f == OperandsA(instrs)
              g == OperandsB(instrs)
              f2 == OperandsA(instrs')
              g2 == OperandsB(instrs')
  <2>2. IsFiniteSet(live) /\ Counted(instrs, users, live, i) /\ Counted(instrs', users, live, i)
    BY <2>1, <1>1, <1>2, UsesCounted
  <2>3. /\ \A j \in live \ {at} : f2[j] = f[j] /\ g2[j] = g[j]
        /\ f2[at] = 0 /\ g2[at] = 0
    BY <1>1, <1>2 DEF OperandsA, OperandsB, FoldedInt
  <2>4. /\ UsesIn(instrs, users, live, i) =
             Cardinality(With(live, f, i)) + Cardinality(With(live, g, i)) + Member(i, users)
        /\ UsesIn(instrs', users, live, i) =
             Cardinality(With(live, f2, i)) + Cardinality(With(live, g2, i)) + Member(i, users)
        /\ Cardinality(With(live, f, i)) \in Nat /\ Cardinality(With(live, g, i)) \in Nat
    BY <2>2 DEF Counted
  <2>. HIDE DEF f, g, f2, g2
  <2>5. Exchanged(live, f, f2, at, i) /\ Exchanged(live, g, g2, at, i)
    BY <2>2, <2>3, <1>2, WithChanged
  <2>6. instrs'[i].refs = instrs[i].refs /\ instrs[i].refs \in Int
    <3>1. instrs[i] \in Instr
      <4>1. instrs \in Seq(Instr) /\ i \in 1 .. Len(instrs)
        BY <2>1, <1>1 DEF WellFormed
      <4>2. QED
        BY <4>1
    <3>2. QED
      BY <3>1, <2>1, <1>1 DEF Instr, FoldedInt
  <2>7. /\ Cardinality(With(live, f2, i)) <= Cardinality(With(live, f, i))
        /\ Cardinality(With(live, g2, i)) <= Cardinality(With(live, g, i))
        /\ Cardinality(With(live, f2, i)) \in Int /\ Cardinality(With(live, g2, i)) \in Int
    BY <2>1, <2>3, <2>4, <2>5 DEF Same, Exchanged
  <2>8. QED
    BY <2>1, <2>4, <2>6, <2>7, <1>2 DEF Member
<1>4. ASSUME NEW i \in live, instrs'[i].id = "ADD"
      PROVE  instrs'[i].a \in live /\ instrs'[i].b \in live
  <2>1. /\ instrs[i].id = "ADD" /\ instrs'[i].a = instrs[i].a /\ instrs'[i].b = instrs[i].b
    BY <1>1, <1>2, <1>4 DEF FoldedInt
  <2>2. QED
    BY <2>1 DEF Live, Is
<1>5. QED
  BY <1>1, <1>2, <1>3, <1>4 DEF Live, Is

\* A new addition: every instruction of a block under construction is live.
LEMMA LiveAdded ==
  ASSUME WellFormed(instrs), NEW len \in Nat, len = Len(instrs), Live(1 .. len),
         NEW a \in 1 .. len, NEW b \in 1 .. len, Added(a, b),
         users = {}, users' = {}, at = 1, at' = 1
  PROVE  Live(1 .. len + 1)'
<1>. DEFINE old == 1 .. len
            new == len + 1
            f == OperandsA(instrs)
            g == OperandsB(instrs)
            f2 == OperandsA(instrs')
            g2 == OperandsB(instrs')
<1>1. /\ Len(instrs') = new
      /\ instrs'[new].id = "ADD" /\ instrs'[new].a = a /\ instrs'[new].b = b
      /\ instrs'[new].refs = 0
      /\ \A i \in old : /\ instrs'[i].id = instrs[i].id
                        /\ instrs'[i].a = instrs[i].a /\ instrs'[i].b = instrs[i].b
                        /\ instrs'[i].refs = instrs[i].refs + Same(i, a) + Same(i, b)
  BY DEF Added
<1>2. ASSUME NEW i \in old, instrs[i].id = "ADD"
      PROVE  instrs[i].a \in 1 .. i - 1 /\ instrs[i].b \in 1 .. i - 1
  BY <1>2 DEF WellFormed
<1>3. /\ new \in 1 .. new /\ old \subseteq 1 .. new /\ new \notin old
      /\ 1 .. new = old \cup {new} /\ a # new /\ b # new /\ new # 0
  OBVIOUS
<1>4. /\ \A j \in old : f2[j] = f[j] /\ g2[j] = g[j]
      /\ f2[new] = a /\ g2[new] = b
      /\ \A j \in 1 .. new : f2[j] # new /\ g2[j] # new
  <2>1. /\ \A j \in 1 .. new : f2[j] = IF instrs'[j].id = "ADD" THEN instrs'[j].a ELSE 0
        /\ \A j \in 1 .. new : g2[j] = IF instrs'[j].id = "ADD" THEN instrs'[j].b ELSE 0
        /\ \A j \in old : f[j] = IF instrs[j].id = "ADD" THEN instrs[j].a ELSE 0
        /\ \A j \in old : g[j] = IF instrs[j].id = "ADD" THEN instrs[j].b ELSE 0
    BY <1>1 DEF OperandsA, OperandsB
  <2>. HIDE DEF f, g, f2, g2
  <2>2. ASSUME NEW j \in old PROVE f2[j] = f[j] /\ g2[j] = g[j] /\ f2[j] # new /\ g2[j] # new
    BY <2>1, <1>1, <1>2
  <2>3. f2[new] = a /\ g2[new] = b
    BY <2>1, <1>1, <1>3
  <2>4. QED
    BY <2>2, <2>3, <1>3
<1>5. ASSUME NEW i \in 1 .. new
      PROVE  instrs'[i].refs >= UsesIn(instrs', users', 1 .. new, i)
  <2>1. Counted(instrs', users', 1 .. new, i)
    BY <1>1, UsesCounted
  <2>2. PICK A2 \in Nat, B2 \in Nat :
          /\ A2 = Cardinality(With(1 .. new, f2, i)) /\ B2 = Cardinality(With(1 .. new, g2, i))
          /\ UsesIn(instrs', users', 1 .. new, i) = A2 + B2
    <3>1. Member(i, users') = 0
      BY DEF Member
    <3>2. QED
      BY <2>1, <3>1 DEF Counted
  <2>3. CASE i = new
    <3>1. With(1 .. new, f2, i) = {} /\ With(1 .. new, g2, i) = {}
      BY <2>3, <1>4 DEF With
    <3>2. A2 = 0 /\ B2 = 0
      BY <3>1, <2>2, FS_EmptySet
    <3>3. QED
      BY <3>2, <2>2, <2>3, <1>1
  <2>4. CASE i \in old
    <3>1. IsFiniteSet(old) /\ Counted(instrs, users, old, i)
      BY <2>4, UsesCounted
    <3>2. PICK A \in Nat, B \in Nat :
            /\ A = Cardinality(With(old, f, i)) /\ B = Cardinality(With(old, g, i))
            /\ UsesIn(instrs, users, old, i) = A + B
      <4>1. Member(i, users) = 0
        BY DEF Member
      <4>2. QED
        BY <3>1, <4>1 DEF Counted
    <3>3. With(old, f2, i) = With(old, f, i) /\ With(old, g2, i) = With(old, g, i)
      BY <1>4 DEF With
    <3>4. PICK p \in Int, q \in Int : /\ p = Same(a, i) /\ p = Same(i, a)
                                     /\ q = Same(b, i) /\ q = Same(i, b)
                                     /\ A2 = A + p /\ B2 = B + q
      <4>. HIDE DEF f, g, f2, g2, old, new
      <4>1. PICK p \in Int, q \in Int : /\ p = Same(a, i) /\ p = Same(i, a)
                                       /\ q = Same(b, i) /\ q = Same(i, b)
        BY DEF Same
      <4>2. Joined(old, f2, new, i) /\ Joined(old, g2, new, i)
        BY <3>1, <1>3, WithMore
      <4>3. A2 = A + p /\ B2 = B + q
        BY <4>1, <4>2, <3>2, <3>3, <2>2, <1>3, <1>4 DEF Joined
      <4>4. QED
        BY <4>1, <4>3
    <3>5. instrs[i].refs >= A + B
      BY <2>4, <3>2 DEF Live
    <3>6. instrs'[i].refs = instrs[i].refs + Same(i, a) + Same(i, b) /\ instrs[i].refs \in Int
      <4>1. instrs[i] \in Instr
        BY <2>4 DEF WellFormed
      <4>2. QED
        BY <4>1, <2>4, <1>1 DEF Instr
    <3>7. PICK r \in Int, s \in Int :
            r = instrs[i].refs /\ s = instrs'[i].refs /\ s = r + p + q /\ r >= A + B
      BY <3>4, <3>5, <3>6, SMTT(30)
    <3>8. A2 + B2 = A + B + p + q
      BY <3>4
    <3>9. s >= A2 + B2
      <4>1. s = r + p + q /\ r >= A + B
        BY <3>7
      <4>2. QED
        BY <4>1, <3>8
    <3>10. QED
      BY <2>2, <3>7, <3>9
  <2>5. QED
    BY <2>3, <2>4
<1>6. ASSUME NEW i \in 1 .. new, instrs'[i].id = "ADD"
      PROVE  instrs'[i].a \in 1 .. new /\ instrs'[i].b \in 1 .. new
  <2>1. CASE i = new
    BY <2>1, <1>1
  <2>2. CASE i \in old
    BY <2>2, <1>1, <1>2, <1>6
  <2>3. QED
    BY <2>1, <2>2
<1>7. QED
  BY <1>1, <1>5, <1>6 DEF Live, Is

\* Another use of the value s.
LEMMA LiveUsed ==
  ASSUME WellFormed(instrs), NEW live, Live(live), NEW s \in live, s \notin users,
         Released(instrs', instrs, s), instrs' \in Seq(Instr), Len(instrs') = Len(instrs),
         users' = users \cup {s}, at' = at
  PROVE  Live(live)'
<1>1. PICK len \in Nat : len = Len(instrs) /\ len = Len(instrs')
  BY DEF WellFormed
<1>2. /\ live \subseteq 1 .. len
      /\ \A i \in live : instrs[i].refs >= UsesIn(instrs, users, live, i)
  BY <1>1 DEF Live
<1>3. ASSUME NEW i \in 1 .. len
      PROVE  /\ instrs'[i].id = instrs[i].id
             /\ instrs'[i].a = instrs[i].a /\ instrs'[i].b = instrs[i].b
             /\ instrs[i].refs = instrs'[i].refs - Same(i, s)
             /\ instrs[i].refs \in Int /\ instrs'[i].refs \in Int
  <2>1. instrs[i] \in Instr /\ instrs'[i] \in Instr
    BY <1>1 DEF WellFormed
  <2>2. QED
    BY <2>1, <1>1 DEF Released, Instr
<1>4. ASSUME NEW i \in live
      PROVE  instrs'[i].refs >= UsesIn(instrs', users', live, i)
  <2>. DEFINE f == OperandsA(instrs)
              g == OperandsB(instrs)
              f2 == OperandsA(instrs')
              g2 == OperandsB(instrs')
  <2>1. i \in 1 .. len
    BY <1>2
  <2>2. Counted(instrs, users, live, i) /\ Counted(instrs', users', live, i)
    BY <2>1, <1>1, <1>2, UsesCounted
  <2>3. f2 = f /\ g2 = g
    BY <1>1, <1>3 DEF OperandsA, OperandsB
  <2>4. PICK A \in Nat, B \in Nat :
          /\ UsesIn(instrs, users, live, i) = A + B + Member(i, users)
          /\ UsesIn(instrs', users', live, i) = A + B + Member(i, users')
    BY <2>2, <2>3 DEF Counted
  <2>5. Member(i, users') = Member(i, users) + Same(i, s)
    BY DEF Member, Same
  <2>6. QED
    BY <2>1, <2>4, <2>5, <1>2, <1>3 DEF Same, Member
<1>5. ASSUME NEW i \in live, instrs'[i].id = "ADD"
      PROVE  instrs'[i].a \in live /\ instrs'[i].b \in live
  BY <1>2, <1>3, <1>5 DEF Live, Is
<1>6. users' \subseteq live /\ at' .. len \subseteq live
  BY <1>1 DEF Live
<1>7. QED
  BY <1>1, <1>2, <1>4, <1>5, <1>6 DEF Live, Is

-----------------------------------------------------------------------------
(***************************************************************************)
(* The instructions remain well formed, and those the loop has passed need *)
(* no other fold.                                                          *)
(***************************************************************************)
LEMMA ShapeFolded ==
  ASSUME Shape, NEW inner, NEW c, NEW k, NEW v, Folded(inner, c, k, v),
         UNCHANGED <<users, stage, at>>
  PROVE  Shape'
<1>1. PICK len \in Nat : len = Len(instrs) /\ len = Len(instrs')
  BY DEF Shape, WellFormed, Folded
<1>2. ASSUME NEW i \in 1 .. len, instrs'[i].id = "ADD"
      PROVE  instrs'[i].a \in 1 .. i - 1 /\ instrs'[i].b \in 1 .. i - 1
  <2>1. instrs[i].id = "ADD" /\ instrs[i].a \in 1 .. i - 1 /\ instrs[i].b \in 1 .. i - 1
    BY <1>1, <1>2 DEF Folded, Shape, WellFormed
  <2>2. /\ instrs'[i].a = IF i = at THEN c ELSE instrs[i].a
        /\ instrs'[i].b = IF i = at THEN v ELSE instrs[i].b
        /\ c \in 1 .. at - 1 /\ inner \in 1 .. at - 1 /\ v \in 1 .. inner - 1
    BY <1>1 DEF Folded
  <2>3. v \in 1 .. at - 1
    BY <2>2, <1>1 DEF Folded
  <2>4. QED
    BY <2>1, <2>2, <2>3
<1>3. WellFormed(instrs)'
  BY <1>1, <1>2 DEF WellFormed, Folded
<1>4. QED
  BY <1>1, <1>3 DEF Shape

LEMMA ShapeFoldedInt ==
  ASSUME Shape, FoldedInt, UNCHANGED <<users, stage, at>>
  PROVE  Shape'
<1>1. PICK len \in Nat : len = Len(instrs) /\ len = Len(instrs')
  BY DEF Shape, WellFormed, FoldedInt
<1>2. ASSUME NEW i \in 1 .. len, instrs'[i].id = "ADD"
      PROVE  instrs'[i].a \in 1 .. i - 1 /\ instrs'[i].b \in 1 .. i - 1
  BY <1>1, <1>2 DEF FoldedInt, Shape, WellFormed
<1>3. WellFormed(instrs)'
  BY <1>1, <1>2 DEF WellFormed, FoldedInt
<1>4. QED
  BY <1>1, <1>3 DEF Shape

\* No pattern fits the instruction i.
Moves(list, j) ==
  /\ list[j].id = "ADD" /\ list[j].refs = 1
  /\ list[list[j].a].id = "INT" \/ list[list[j].b].id = "INT"
Settled(list, i) ==
  list[i].id = "ADD" =>
    /\ ~(list[list[i].a].id = "INT" /\ list[list[i].b].id = "INT")
    /\ ~(list[list[i].a].id = "INT" /\ Moves(list, list[i].b))
    /\ ~(Moves(list, list[i].a) /\ list[list[i].b].id = "INT")

LEMMA NothingFolded ==
  ASSUME Shape, stage = "fold", NothingLeftToFold,
         NEW inner, NEW c, NEW k, NEW v, Folded(inner, c, k, v), UNCHANGED <<users, stage, at>>
  PROVE  NothingLeftToFold'
<1>1. PICK len \in Nat : len = Len(instrs) /\ len = Len(instrs')
  BY DEF Shape, WellFormed, Folded
<1>2. PICK here \in 1 .. len : here = at
  BY <1>1 DEF Folded
<1>3. ASSUME NEW i \in 1 .. len, instrs[i].id = "ADD"
      PROVE  instrs[i].a \in 1 .. i - 1 /\ instrs[i].b \in 1 .. i - 1
  BY <1>1, <1>3 DEF Shape, WellFormed
<1>4. ASSUME NEW i \in 1 .. here - 1
      PROVE  /\ instrs'[i].id = instrs[i].id
             /\ instrs'[i].a = instrs[i].a /\ instrs'[i].b = instrs[i].b
             /\ instrs[i].id = "ADD" /\ instrs'[i].refs = 1 => instrs[i].refs = 1
  <2>1. i \in 1 .. len /\ i # at
    BY <1>2
  <2>2. /\ instrs'[i].id = instrs[i].id
        /\ instrs'[i].a = instrs[i].a /\ instrs'[i].b = instrs[i].b
        /\ instrs'[i].refs = instrs[i].refs - Same(i, inner) - Same(i, k)
        /\ instrs[inner].refs = 1 /\ instrs[k].id = "INT" /\ instrs[i].refs \in Int
    <3>1. instrs[i] \in Instr
      <4>1. instrs \in Seq(Instr) /\ i \in 1 .. Len(instrs)
        BY <2>1, <1>1 DEF Shape, WellFormed
      <4>2. QED
        BY <4>1
    <3>2. QED
      BY <2>1, <3>1, <1>1 DEF Folded, Instr
  <2>3. instrs[i].id = "ADD" /\ instrs'[i].refs = 1 => instrs[i].refs = 1
    <3>1. CASE i = k
      BY <3>1, <2>2
    <3>2. CASE i # k
      BY <3>2, <2>2 DEF Same
    <3>3. QED
      BY <3>1, <3>2
  <2>4. QED
    BY <2>2, <2>3
<1>5. ASSUME NEW j \in 1 .. here - 1, Moves(instrs', j)
      PROVE  Moves(instrs, j)
  <2>1. instrs[j].id = "ADD" /\ instrs[j].refs = 1
    BY <1>4, <1>5 DEF Moves
  <2>2. instrs[j].a \in 1 .. here - 1 /\ instrs[j].b \in 1 .. here - 1
    BY <2>1, <1>3
  <2>3. QED
    BY <2>1, <2>2, <1>4, <1>5 DEF Moves
<1>6. ASSUME NEW i \in 1 .. here - 1
      PROVE  Settled(instrs', i)
  <2>1. Settled(instrs, i)
    BY <1>2 DEF NothingLeftToFold, Settled, Moves, Is
  <2>2. instrs[i].id = "ADD" => instrs[i].a \in 1 .. here - 1 /\ instrs[i].b \in 1 .. here - 1
    BY <1>3
  <2>3. QED
    BY <2>1, <2>2, <1>4, <1>5 DEF Settled
<1>7. QED
  BY <1>2, <1>6 DEF NothingLeftToFold, Settled, Moves, Is

LEMMA NothingFoldedInt ==
  ASSUME Shape, stage = "fold", NothingLeftToFold, FoldedInt, UNCHANGED <<users, stage, at>>
  PROVE  NothingLeftToFold'
<1>1. PICK len \in Nat : len = Len(instrs) /\ len = Len(instrs')
  BY DEF Shape, WellFormed, FoldedInt
<1>2. PICK here \in 1 .. len : here = at
  BY <1>1 DEF FoldedInt
<1>3. ASSUME NEW i \in 1 .. len, instrs[i].id = "ADD"
      PROVE  instrs[i].a \in 1 .. i - 1 /\ instrs[i].b \in 1 .. i - 1
  BY <1>1, <1>3 DEF Shape, WellFormed
<1>4. ASSUME NEW i \in 1 .. here - 1
      PROVE  /\ instrs'[i].id = instrs[i].id
             /\ instrs'[i].a = instrs[i].a /\ instrs'[i].b = instrs[i].b
             /\ instrs'[i].refs = instrs[i].refs
  BY <1>1, <1>2 DEF FoldedInt
<1>5. ASSUME NEW j \in 1 .. here - 1, Moves(instrs', j)
      PROVE  Moves(instrs, j)
  <2>1. instrs[j].id = "ADD" /\ instrs[j].refs = 1
    BY <1>4, <1>5 DEF Moves
  <2>2. instrs[j].a \in 1 .. here - 1 /\ instrs[j].b \in 1 .. here - 1
    BY <2>1, <1>3
  <2>3. QED
    BY <2>1, <2>2, <1>4, <1>5 DEF Moves
<1>6. ASSUME NEW i \in 1 .. here - 1
      PROVE  Settled(instrs', i)
  <2>1. Settled(instrs, i)
    BY <1>2 DEF NothingLeftToFold, Settled, Moves, Is
  <2>2. instrs[i].id = "ADD" => instrs[i].a \in 1 .. here - 1 /\ instrs[i].b \in 1 .. here - 1
    BY <1>3
  <2>3. QED
    BY <2>1, <2>2, <1>4, <1>5 DEF Settled
<1>7. QED
  BY <1>2, <1>6 DEF NothingLeftToFold, Settled, Moves, Is

-----------------------------------------------------------------------------
(***************************************************************************)
(* What the instructions compute and depend on: both are defined by        *)
(* recursion over a block in which operands come first.                    *)
(***************************************************************************)
HasValue(program, x, i) ==
  LET value == Values(program, x)
  IN  /\ value[i] \in Word
      /\ program[i].id = "PARAM" => value[i] = x
      /\ program[i].id = "INT" => value[i] = program[i].constant
      /\ program[i].id = "ADD" =>
           value[i] = (value[program[i].a] + value[program[i].b]) % Ints

HasReads(program, i) ==
  LET reads == Reads(program)
  IN  reads[i] = IF program[i].id # "ADD" THEN {i}
                 ELSE {i} \cup reads[program[i].a] \cup reads[program[i].b]

LEMMA ReadsDefined ==
  ASSUME NEW program, WellFormed(program)
  PROVE  \A i \in 1 .. Len(program) : HasReads(program, i)
<1>. DEFINE Def(f) == [i \in DOMAIN program |->
              IF program[i].id # "ADD" THEN {i} ELSE {i} \cup f[program[i].a] \cup f[program[i].b]]
<1>1. PICK len \in Nat : len = Len(program) /\ DOMAIN program = 1 .. len
  BY DEF WellFormed
<1>2. ASSUME NEW i \in 1 .. len, program[i].id = "ADD"
      PROVE  program[i].a \in 1 .. i - 1 /\ program[i].b \in 1 .. i - 1
  BY <1>1, <1>2 DEF WellFormed
<1>3. ASSUME NEW f, NEW i \in 1 .. len
      PROVE  Def(f)[i] = IF program[i].id # "ADD" THEN {i}
                         ELSE {i} \cup f[program[i].a] \cup f[program[i].b]
  BY <1>1
<1>4. \E f : f = Def(f)
  <2>. DEFINE V == SUBSET (1 .. len)
              F == [1 .. len -> V]
              next == [g \in F |-> Def(g)]
  <2>1. ASSUME NEW g \in F PROVE Def(g) \in F
    <3>1. ASSUME NEW i \in 1 .. len PROVE Def(g)[i] \in V
      <4>. HIDE DEF Def
      <4>1. CASE program[i].id # "ADD"
        <5>1. Def(g)[i] = {i}
          BY <4>1, <1>3
        <5>2. QED
          BY <5>1
      <4>2. CASE program[i].id = "ADD"
        <5>1. program[i].a \in 1 .. len /\ program[i].b \in 1 .. len
          BY <4>2, <1>2
        <5>2. g[program[i].a] \in V /\ g[program[i].b] \in V
          BY <5>1
        <5>3. Def(g)[i] = {i} \cup g[program[i].a] \cup g[program[i].b]
          BY <4>2, <1>3
        <5>4. QED
          BY <5>2, <5>3
      <4>3. QED
        BY <4>1, <4>2
    <3>2. Def(g) = [i \in 1 .. len |-> Def(g)[i]]
      BY <1>1
    <3>3. QED
      <4>. HIDE DEF Def, V
      <4>1. QED
        BY <3>1, <3>2
  <2>2. ASSUME NEW g \in F, NEW h \in F, NEW i \in 1 .. len, \A j \in 1 .. i - 1 : g[j] = h[j]
        PROVE  Def(g)[i] = Def(h)[i]
    <3>. HIDE DEF Def
    <3>1. CASE program[i].id # "ADD"
      BY <3>1, <1>3
    <3>2. CASE program[i].id = "ADD"
      <4>1. g[program[i].a] = h[program[i].a] /\ g[program[i].b] = h[program[i].b]
        BY <3>2, <1>2, <2>2
      <4>2. /\ Def(g)[i] = {i} \cup g[program[i].a] \cup g[program[i].b]
            /\ Def(h)[i] = {i} \cup h[program[i].a] \cup h[program[i].b]
        BY <3>2, <1>3
      <4>3. QED
        BY <4>1, <4>2
    <3>3. QED
      BY <3>1, <3>2
  <2>3. {} \in V
    OBVIOUS
  <2>. HIDE DEF Def, V
  <2>4. next \in [F -> F] /\ \A g \in F : next[g] = Def(g)
    BY <2>1
  <2>. HIDE DEF next
  <2>5. Causal(next, len, V)
    <3>1. ASSUME NEW g \in F, NEW h \in F, NEW i \in 1 .. len, \A j \in 1 .. i - 1 : g[j] = h[j]
          PROVE  next[g][i] = next[h][i]
      BY <2>2, <2>4, <3>1, ZenonT(40)
    <3>2. QED
      BY <3>1 DEF Causal
  <2>6. PICK G, v : G = F /\ v = {} /\ v \in V
    BY <2>3
  <2>7. G = [1 .. len -> V]
    BY <2>6
  <2>. HIDE DEF F
  <2>8. Fixpoint(G, next)
    BY <2>4, <2>5, <2>6, <2>7, CausalFixpoint
  <2>9. QED
    BY <2>4, <2>6, <2>8 DEF Fixpoint
<1>5. Reads(program) = CHOOSE f : f = Def(f)
  BY DEF Reads
<1>6. PICK f : f = Reads(program) /\ f = Def(f)
  <2>. HIDE DEF Def
  <2>1. QED
    BY <1>4, <1>5
<1>. HIDE DEF Def
<1>7. ASSUME NEW i \in 1 .. len
      PROVE  f[i] = IF program[i].id # "ADD" THEN {i}
                    ELSE {i} \cup f[program[i].a] \cup f[program[i].b]
  <2>1. PICK g : g = f /\ f = Def(g)
    BY <1>6
  <2>2. Def(g)[i] = IF program[i].id # "ADD" THEN {i}
                    ELSE {i} \cup g[program[i].a] \cup g[program[i].b]
    BY <1>3
  <2>3. QED
    BY <2>1, <2>2
<1>8. QED
  BY <1>1, <1>6, <1>7 DEF HasReads

LEMMA ValuesDefined ==
  ASSUME NEW program, WellFormed(program), NEW x \in Word
  PROVE  \A i \in 1 .. Len(program) : HasValue(program, x, i)
<1>. DEFINE Expected(f, i) ==
              IF program[i].id = "ADD" THEN (f[program[i].a] + f[program[i].b]) % Ints
              ELSE IF program[i].id = "INT" THEN program[i].constant ELSE x
            Def(f) == [i \in DOMAIN program |-> Expected(f, i)]
<1>1. PICK len \in Nat : len = Len(program) /\ DOMAIN program = 1 .. len
  BY DEF WellFormed
<1>2. ASSUME NEW i \in 1 .. len, program[i].id = "ADD"
      PROVE  program[i].a \in 1 .. i - 1 /\ program[i].b \in 1 .. i - 1
  BY <1>1, <1>2 DEF WellFormed
<1>3. ASSUME NEW i \in 1 .. len
      PROVE  program[i].id \in {"PARAM", "INT", "ADD"} /\ program[i].constant \in Word
  <2>1. program[i] \in Instr
    BY <1>1 DEF WellFormed
  <2>2. QED
    BY <2>1 DEF Instr
<1>4. ASSUME NEW f, NEW i \in 1 .. len
      PROVE  /\ program[i].id = "PARAM" => Def(f)[i] = x
             /\ program[i].id = "INT" => Def(f)[i] = program[i].constant
             /\ program[i].id = "ADD" => Def(f)[i] = (f[program[i].a] + f[program[i].b]) % Ints
  <2>1. Def(f)[i] = Expected(f, i)
    BY <1>1
  <2>2. QED
    BY <2>1
<1>5. ASSUME NEW f PROVE Def(f) = [i \in 1 .. len |-> Def(f)[i]]
  <2>. HIDE DEF Expected
  <2>1. QED
    BY <1>1
<1>6. Values(program, x) = CHOOSE f : f = Def(f)
  BY Zenon DEF Values
<1>. HIDE DEF Def
\* A sum of two words is a word again.
<1>7. ASSUME NEW f, NEW g, NEW i \in 1 .. len, f[i] = Def(g)[i],
             program[i].id = "ADD" => g[program[i].a] \in Word /\ g[program[i].b] \in Word
      PROVE  f[i] \in Word
  <2>1. CASE program[i].id = "ADD"
    <3>1. (g[program[i].a] + g[program[i].b]) % Ints \in Word
      BY <2>1, <1>7, SumIsWord
    <3>2. QED
      BY <3>1, <2>1, <1>4, <1>7
  <2>2. CASE program[i].id # "ADD"
    BY <2>2, <1>3, <1>4, <1>7
  <2>3. QED
    BY <2>1, <2>2
<1>8. \E f : f = Def(f)
  <2>. DEFINE F == [1 .. len -> Word]
              next == [g \in F |-> Def(g)]
  <2>1. ASSUME NEW g \in F PROVE Def(g) \in F
    <3>1. ASSUME NEW i \in 1 .. len PROVE Def(g)[i] \in Word
      <4>1. program[i].id = "ADD" => program[i].a \in 1 .. len /\ program[i].b \in 1 .. len
        BY <1>2
      <4>2. PICK f : f = Def(g)
        OBVIOUS
      <4>3. QED
        BY <4>1, <4>2, <1>7
    <3>2. Def(g) = [i \in 1 .. len |-> Def(g)[i]]
      BY <1>5
    <3>3. QED
      BY <3>1, <3>2
  <2>2. ASSUME NEW g \in F, NEW h \in F, NEW i \in 1 .. len, \A j \in 1 .. i - 1 : g[j] = h[j]
        PROVE  Def(g)[i] = Def(h)[i]
    <3>1. CASE program[i].id # "ADD"
      BY <3>1, <1>3, <1>4
    <3>2. CASE program[i].id = "ADD"
      <4>1. g[program[i].a] = h[program[i].a] /\ g[program[i].b] = h[program[i].b]
        BY <3>2, <1>2, <2>2
      <4>2. QED
        BY <4>1, <3>2, <1>4
    <3>3. QED
      BY <3>1, <3>2
  <2>4. next \in [F -> F] /\ \A g \in F : next[g] = Def(g)
    BY <2>1
  <2>. HIDE DEF next
  <2>5. Causal(next, len, Word)
    <3>1. ASSUME NEW g \in F, NEW h \in F, NEW i \in 1 .. len, \A j \in 1 .. i - 1 : g[j] = h[j]
          PROVE  next[g][i] = next[h][i]
      BY <2>2, <2>4, <3>1, ZenonT(60)
    <3>2. QED
      BY <3>1 DEF Causal
  <2>6. PICK G : G = F
    OBVIOUS
  <2>7. G = [1 .. len -> Word]
    BY <2>6
  <2>. HIDE DEF F
  <2>8. Fixpoint(G, next)
    BY <2>4, <2>5, <2>6, <2>7, CausalFixpoint
  <2>9. QED
    BY <2>4, <2>6, <2>8 DEF Fixpoint
<1>9. PICK f : f = Values(program, x) /\ f = Def(f)
  BY <1>8, <1>6
<1>10. PICK g : g = f /\ f = Def(g)
  BY <1>9
<1>11. \A i \in 1 .. len : f[i] \in Word
  <2>. DEFINE T == {i \in 1 .. len : f[i] \notin Word}
  <2>1. SUFFICES ASSUME T # {} PROVE FALSE
    OBVIOUS
  <2>2. PICK i \in T : \A j \in T : i <= j
    <3>1. T \in SUBSET Nat
      OBVIOUS
    <3>. HIDE DEF T
    <3>2. QED
      BY <2>1, <3>1, LeastNumber
  <2>3. \A j \in 1 .. i - 1 : f[j] \in Word
    BY <2>2
  <2>4. f[i] \in Word
    <3>1. program[i].id = "ADD" => g[program[i].a] \in Word /\ g[program[i].b] \in Word
      BY <2>2, <2>3, <1>2, <1>10
    <3>2. f[i] = Def(g)[i] /\ i \in 1 .. len
      BY <2>2, <1>10
    <3>3. QED
      BY <3>1, <3>2, <1>7
  <2>5. QED
    BY <2>2, <2>4
<1>12. ASSUME NEW i \in 1 .. len
       PROVE  /\ program[i].id = "PARAM" => f[i] = x
              /\ program[i].id = "INT" => f[i] = program[i].constant
              /\ program[i].id = "ADD" => f[i] = (f[program[i].a] + f[program[i].b]) % Ints
  BY <1>4, <1>10
<1>13. QED
  BY <1>1, <1>9, <1>11, <1>12 DEF HasValue

-----------------------------------------------------------------------------
(***************************************************************************)
(* Folding never makes an instruction depend on more, so what is live      *)
(* reads what is live only, and the counts are right for what is needed.   *)
(***************************************************************************)
LEMMA ReadsLive ==
  ASSUME WellFormed(instrs), NEW live, Live(live)
  PROVE  \A i \in live : Reads(instrs)[i] \subseteq live
<1>. DEFINE T == {i \in live : Reads(instrs)[i] \subseteq live}
<1>1. live \subseteq 1 .. Len(instrs) /\ Len(instrs) \in Nat
  BY DEF Live, WellFormed
<1>2. live \in SUBSET Nat
  BY <1>1
<1>3. ASSUME NEW i \in live, \A j \in live : j < i => j \in T
      PROVE  i \in T
  <2>1. HasReads(instrs, i)
    BY <1>1, ReadsDefined
  <2>2. CASE instrs[i].id # "ADD"
    BY <2>1, <2>2 DEF HasReads
  <2>3. CASE instrs[i].id = "ADD"
    <3>1. instrs[i].a \in live /\ instrs[i].b \in live
      BY <2>3 DEF Live, Is
    <3>2. instrs[i].a < i /\ instrs[i].b < i
      BY <2>3, <1>1 DEF WellFormed
    <3>3. Reads(instrs)[instrs[i].a] \subseteq live /\ Reads(instrs)[instrs[i].b] \subseteq live
      BY <3>1, <3>2, <1>3
    <3>4. Reads(instrs)[i] = {i} \cup Reads(instrs)[instrs[i].a] \cup Reads(instrs)[instrs[i].b]
      BY <2>1, <2>3 DEF HasReads
    <3>5. QED
      BY <3>3, <3>4
  <2>4. QED
    BY <2>2, <2>3
<1>4. live \subseteq T
  <2>1. Inherited(live, T)
    <3>. HIDE DEF T
    <3>1. QED
      BY <1>3 DEF Inherited
  <2>. HIDE DEF T
  <2>2. QED
    BY <1>2, <2>1, StrongInduction
<1>5. QED
  BY <1>4

LEMMA ReadsItself ==
  ASSUME NEW program, WellFormed(program), NEW i \in 1 .. Len(program)
  PROVE  i \in Reads(program)[i]
<1>1. HasReads(program, i)
  BY ReadsDefined
<1>2. QED
  BY <1>1 DEF HasReads

\* What an instruction reads reads no more than that instruction.
LEMMA ReadsTransitive ==
  ASSUME NEW program, WellFormed(program)
  PROVE  \A i \in 1 .. Len(program) : \A j \in Reads(program)[i] :
           Reads(program)[j] \subseteq Reads(program)[i]
<1>. DEFINE reads == Reads(program)
            S == 1 .. Len(program)
            T == {i \in S : \A j \in reads[i] : reads[j] \subseteq reads[i]}
<1>1. ASSUME NEW i \in S, \A j \in S : j < i => j \in T
      PROVE  i \in T
  <2>1. HasReads(program, i)
    BY ReadsDefined
  <2>2. CASE program[i].id # "ADD"
    <3>1. reads[i] = {i}
      BY <2>1, <2>2 DEF HasReads
    <3>2. QED
      BY <3>1
  <2>3. CASE program[i].id = "ADD"
    <3>1. PICK a, b : a = program[i].a /\ b = program[i].b
      OBVIOUS
    <3>2. a \in S /\ b \in S /\ a < i /\ b < i
      BY <2>3, <3>1 DEF WellFormed
    <3>3. reads[i] = {i} \cup reads[a] \cup reads[b]
      BY <2>1, <2>3, <3>1 DEF HasReads
    <3>4. /\ \A j \in reads[a] : reads[j] \subseteq reads[a]
          /\ \A j \in reads[b] : reads[j] \subseteq reads[b]
      BY <3>2, <1>1
    <3>. HIDE DEF reads
    <3>5. QED
      BY <3>3, <3>4
  <2>4. QED
    BY <2>2, <2>3
<1>2. S \subseteq T
  <2>1. Inherited(S, T)
    <3>. HIDE DEF T
    <3>1. QED
      BY <1>1 DEF Inherited
  <2>2. S \in SUBSET Nat
    BY DEF WellFormed
  <2>. HIDE DEF S, T
  <2>3. QED
    BY <2>1, <2>2, StrongInduction
<1>3. QED
  BY <1>2

\* A program whose additions have operands that the same instruction of another
\* program reads depends on no more than that one.
Narrows(old, new) ==
  \A i \in 1 .. Len(old) : new[i].id = "ADD" =>
    /\ new[i].a \in Reads(old)[i] /\ new[i].b \in Reads(old)[i]

LEMMA ReadsShrink ==
  ASSUME NEW old, WellFormed(old), NEW new, WellFormed(new), Len(new) = Len(old),
         Narrows(old, new)
  PROVE  \A i \in 1 .. Len(old) : Reads(new)[i] \subseteq Reads(old)[i]
<1>. DEFINE before == Reads(old)
            after == Reads(new)
            S == 1 .. Len(old)
            T == {i \in S : after[i] \subseteq before[i]}
<1>1. ASSUME NEW i \in S, \A j \in S : j < i => j \in T
      PROVE  i \in T
  <2>1. HasReads(new, i) /\ i \in before[i]
    BY ReadsDefined, ReadsItself
  <2>2. CASE new[i].id # "ADD"
    BY <2>1, <2>2 DEF HasReads
  <2>3. CASE new[i].id = "ADD"
    <3>1. PICK a, b : a = new[i].a /\ b = new[i].b
      OBVIOUS
    <3>2. a \in S /\ b \in S /\ a < i /\ b < i
      BY <2>3, <3>1 DEF WellFormed
    <3>3. after[i] = {i} \cup after[a] \cup after[b]
      BY <2>1, <2>3, <3>1 DEF HasReads
    <3>4. after[a] \subseteq before[a] /\ after[b] \subseteq before[b]
      BY <3>2, <1>1
    <3>5. before[a] \subseteq before[i] /\ before[b] \subseteq before[i]
      <4>1. a \in before[i] /\ b \in before[i]
        BY <2>3, <3>1 DEF Narrows
      <4>2. QED
        BY <4>1, ReadsTransitive
    <3>. HIDE DEF before, after
    <3>6. QED
      BY <2>1, <3>3, <3>4, <3>5
  <2>4. QED
    BY <2>2, <2>3
<1>2. S \subseteq T
  <2>1. Inherited(S, T)
    <3>. HIDE DEF T
    <3>1. QED
      BY <1>1 DEF Inherited
  <2>2. S \in SUBSET Nat
    BY DEF WellFormed
  <2>. HIDE DEF S, T
  <2>3. QED
    BY <2>1, <2>2, StrongInduction
<1>3. QED
  BY <1>2

-----------------------------------------------------------------------------
(***************************************************************************)
(* The values that the folds leave as they are.                            *)
(***************************************************************************)
\* Sums of words may be regrouped.
LEMMA ResiduesRegroup ==
  ASSUME NEW W \in Nat \ {0}, NEW c \in 0 .. W - 1, NEW k \in 0 .. W - 1, NEW v \in 0 .. W - 1
  PROVE  (((c + k) % W) + v) % W = (c + ((k + v) % W)) % W
<1>1. ASSUME NEW d \in 0 .. W - 1 PROVE d % W = d
  OBVIOUS
<1>2. ASSUME NEW d \in W .. 2 * W - 1 PROVE d % W = d - W
  OBVIOUS
<1>. DEFINE Reduced(d) == IF d < W THEN d ELSE d - W
<1>3. ASSUME NEW d \in 0 .. 2 * W - 1
      PROVE  d % W = Reduced(d) /\ (d <= 2 * W - 2 => Reduced(d) \in 0 .. W - 1)
  <2>1. CASE d < W
    BY <2>1, <1>1
  <2>2. CASE d >= W
    <3>1. d \in W .. 2 * W - 1
      BY <2>2
    <3>2. QED
      BY <2>2, <3>1, <1>2
  <2>3. QED
    BY <2>1, <2>2
<1>4. /\ c + k \in 0 .. 2 * W - 1 /\ c + k <= 2 * W - 2
      /\ k + v \in 0 .. 2 * W - 1 /\ k + v <= 2 * W - 2
  OBVIOUS
<1>5. PICK ck \in 0 .. W - 1, kv \in 0 .. W - 1 :
        ck = Reduced(c + k) /\ kv = Reduced(k + v)
  <2>1. Reduced(c + k) \in 0 .. W - 1 /\ Reduced(k + v) \in 0 .. W - 1
    <3>. HIDE DEF Reduced
    <3>1. QED
      BY <1>3, <1>4
  <2>2. QED
    BY <2>1
<1>6. ck = (c + k) % W /\ kv = (k + v) % W
  <2>. HIDE DEF Reduced
  <2>1. QED
    BY <1>3, <1>4, <1>5
<1>7. ck + v \in 0 .. 2 * W - 1 /\ c + kv \in 0 .. 2 * W - 1
  OBVIOUS
<1>8. (ck + v) % W = Reduced(ck + v) /\ (c + kv) % W = Reduced(c + kv)
  <2>. HIDE DEF Reduced
  <2>1. QED
    BY <1>3, <1>7
<1>9. Reduced(ck + v) = Reduced(c + kv)
  BY <1>5
<1>10. QED
  <2>. HIDE DEF Reduced
  <2>1. QED
    BY <1>6, <1>8, <1>9

LEMMA SumsRegroup ==
  ASSUME NEW c \in Word, NEW k \in Word, NEW v \in Word
  PROVE  (((c + k) % Ints) + v) % Ints = (c + ((k + v) % Ints)) % Ints
  BY PeepholeAssumption, ResiduesRegroup DEF Word

\* The instructions in S compute the same if each of them does as soon as those
\* before it do.
SameSoFar(old, new, x, S, i) ==
  (\A j \in S : j < i => Values(new, x)[j] = Values(old, x)[j])
    => Values(new, x)[i] = Values(old, x)[i]
AllSameSoFar(old, new, x, S) == \A i \in S : SameSoFar(old, new, x, S, i)

LEMMA ValuesStay ==
  ASSUME NEW old, NEW new, NEW x, NEW S \in SUBSET Nat, AllSameSoFar(old, new, x, S)
  PROVE  \A i \in S : Values(new, x)[i] = Values(old, x)[i]
<1>. DEFINE T == {i \in S : Values(new, x)[i] = Values(old, x)[i]}
<1>1. ASSUME NEW i \in S, \A j \in S : j < i => j \in T PROVE i \in T
  BY <1>1 DEF SameSoFar, AllSameSoFar
<1>2. Inherited(S, T)
  <2>. HIDE DEF T
  <2>1. QED
    BY <1>1 DEF Inherited
<1>3. S \subseteq T
  <2>. HIDE DEF T
  <2>1. QED
    BY <1>2, StrongInduction
<1>4. QED
  BY <1>3

\* An instruction with the same fields and operands in S.
Copied(old, new, S, i) ==
  /\ new[i].id = old[i].id /\ new[i].constant = old[i].constant
  /\ new[i].a = old[i].a /\ new[i].b = old[i].b
  /\ new[i].id = "ADD" => new[i].a \in S /\ new[i].b \in S

LEMMA CopiedStays ==
  ASSUME NEW old, WellFormed(old), NEW new, WellFormed(new), Len(new) = Len(old),
         NEW x \in Word, NEW S \in SUBSET (1 .. Len(old)), NEW i \in S, Copied(old, new, S, i)
  PROVE  SameSoFar(old, new, x, S, i)
<1>1. HasValue(old, x, i) /\ HasValue(new, x, i)
  BY ValuesDefined
<1>2. new[i].id \in {"PARAM", "INT", "ADD"}
  <2>1. new[i] \in Instr
    BY DEF WellFormed
  <2>2. QED
    BY <2>1 DEF Instr
<1>3. CASE new[i].id = "ADD"
  <2>1. PICK a, b : /\ a = new[i].a /\ b = new[i].b /\ a = old[i].a /\ b = old[i].b
                    /\ a \in S /\ b \in S
    BY <1>3 DEF Copied
  <2>2. a < i /\ b < i
    <3>1. Len(new) \in Nat /\ i \in 1 .. Len(new)
      BY DEF WellFormed
    <3>2. new[i].a \in 1 .. i - 1 /\ new[i].b \in 1 .. i - 1
      BY <3>1, <1>3 DEF WellFormed
    <3>3. QED
      BY <3>1, <3>2, <2>1
  <2>3. /\ Values(old, x)[i] = (Values(old, x)[a] + Values(old, x)[b]) % Ints
        /\ Values(new, x)[i] = (Values(new, x)[a] + Values(new, x)[b]) % Ints
    BY <2>1, <1>1, <1>3 DEF HasValue, Copied
  <2>4. QED
    BY <2>1, <2>2, <2>3 DEF SameSoFar
<1>4. CASE new[i].id # "ADD"
  BY <1>1, <1>2, <1>4 DEF HasValue, Copied, SameSoFar
<1>5. QED
  BY <1>3, <1>4

\* An addition of constants computes what it is replaced by.
LEMMA ValuesFoldedInt ==
  ASSUME WellFormed(instrs), NEW new, new = instrs', WellFormed(new), FoldedInt, NEW x \in Word
  PROVE  \A i \in 1 .. Len(instrs) : Values(new, x)[i] = Values(instrs, x)[i]
<1>1. PICK len \in Nat : len = Len(instrs) /\ len = Len(new)
  BY DEF WellFormed, FoldedInt
<1>2. PICK old : old = instrs
  OBVIOUS
<1>3. ASSUME NEW i \in 1 .. len
      PROVE  SameSoFar(old, new, x, 1 .. len, i)
  <2>1. CASE i = at
    <3>1. PICK a, b : /\ a = old[i].a /\ b = old[i].b
                      /\ old[i].id = "ADD" /\ old[a].id = "INT" /\ old[b].id = "INT"
                      /\ new[i].id = "INT"
                      /\ new[i].constant = (old[a].constant + old[b].constant) % Ints
      BY <2>1, <1>1, <1>2 DEF FoldedInt
    <3>2. a \in 1 .. len /\ b \in 1 .. len
      BY <3>1, <1>1, <1>2 DEF WellFormed
    <3>3. HasValue(old, x, i) /\ HasValue(old, x, a) /\ HasValue(old, x, b) /\ HasValue(new, x, i)
      BY <3>2, <1>1, <1>2, ValuesDefined
    <3>4. /\ Values(old, x)[a] = old[a].constant /\ Values(old, x)[b] = old[b].constant
          /\ Values(old, x)[i] = (Values(old, x)[a] + Values(old, x)[b]) % Ints
          /\ Values(new, x)[i] = new[i].constant
      BY <3>1, <3>3 DEF HasValue
    <3>5. QED
      BY <3>1, <3>4 DEF SameSoFar
  <2>2. CASE i # at
    <3>1. /\ new[i].id = old[i].id /\ new[i].constant = old[i].constant
          /\ new[i].a = old[i].a /\ new[i].b = old[i].b
      BY <2>2, <1>1, <1>2 DEF FoldedInt
    <3>2. old[i].id = "ADD" => old[i].a \in 1 .. len /\ old[i].b \in 1 .. len
      BY <1>1, <1>2 DEF WellFormed
    <3>3. Copied(old, new, 1 .. len, i)
      BY <3>1, <3>2 DEF Copied
    <3>4. QED
      BY <3>3, <1>1, <1>2, CopiedStays
  <2>3. QED
    BY <2>1, <2>2
<1>4. 1 .. len \in SUBSET Nat
  OBVIOUS
<1>5. \A i \in 1 .. len : Values(new, x)[i] = Values(old, x)[i]
  <2>1. AllSameSoFar(old, new, x, 1 .. len)
    BY <1>3 DEF AllSameSoFar
  <2>2. QED
    BY <2>1, <1>4, ValuesStay
<1>6. QED
  BY <1>1, <1>2, <1>5

\* If nothing else uses the outer constant, a commutative fold changes the value
\* of nothing that is live but of that constant and the inner addition.
LEMMA ValuesFolded ==
  ASSUME Shape, NothingLeftToFold, stage = "fold",
         NEW new, new = instrs', WellFormed(new), NEW live, Live(live),
         NEW inner, NEW c, NEW k, NEW v, Folded(inner, c, k, v),
         ~UsedOutside(c, {at, inner}), NEW x \in Word
  PROVE  \A i \in users : Values(new, x)[i] = Values(instrs, x)[i]
<1>. DEFINE S == live \ {inner, c}
<1>1. PICK len \in Nat, old \in Seq(Instr), here \in Nat :
        len = Len(instrs) /\ len = Len(new) /\ old = instrs /\ here = at /\ here \in 1 .. len
  BY DEF Shape, WellFormed, Folded
<1>2. WellFormed(old) /\ WellFormed(new)
  BY <1>1 DEF Shape
<1>3. /\ inner \in 1 .. here - 1 /\ c \in 1 .. here - 1
      /\ k \in 1 .. inner - 1 /\ v \in 1 .. inner - 1
      /\ old[here].id = "ADD" /\ old[inner].id = "ADD"
      /\ old[c].id = "INT" /\ old[k].id = "INT" /\ old[inner].refs = 1
      /\ <<old[here].a, old[here].b>> \in {<<c, inner>>, <<inner, c>>}
      /\ <<old[inner].a, old[inner].b>> \in {<<k, v>>, <<v, k>>}
  BY <1>1 DEF Folded
<1>4. ASSUME NEW i \in 1 .. len
      PROVE  /\ new[i].id = old[i].id
             /\ new[i].constant = IF i = c THEN (old[c].constant + old[k].constant) % Ints
                                  ELSE old[i].constant
             /\ new[i].a = IF i = here THEN c ELSE old[i].a
             /\ new[i].b = IF i = here THEN v ELSE old[i].b
  BY <1>1 DEF Folded
<1>5. live \subseteq 1 .. len /\ users \subseteq live /\ here \in live
  <2>1. here \in at .. Len(instrs)
    BY <1>1
  <2>2. QED
    BY <2>1, <1>1 DEF Live
<1>6. ASSUME NEW i \in live, old[i].id = "ADD" PROVE old[i].a \in live /\ old[i].b \in live
  BY <1>1, <1>6 DEF Live, Is
<1>7. inner \in live /\ c \in live /\ k \in live /\ v \in live
  BY <1>3, <1>5, <1>6
<1>8. /\ inner \notin users
      /\ \A j \in live \ {here} : old[j].id = "ADD" => old[j].a # inner /\ old[j].b # inner
  BY <1>1, <1>2, <1>3, <1>5, <1>7, InnerUnused
<1>9. /\ c \notin users
      /\ \A j \in (1 .. len) \ {here, inner} : old[j].id = "ADD" => old[j].a # c /\ old[j].b # c
  <2>1. DOMAIN instrs = 1 .. len
    <3>1. DOMAIN old = 1 .. Len(old)
      OBVIOUS
    <3>2. QED
      BY <3>1, <1>1
  <2>2. QED
    BY <2>1, <1>1 DEF UsedOutside, Is
\* The inner addition would have been folded if both its operands were constants.
<1>10. old[v].id # "INT" /\ v # c /\ v # inner /\ v # here
  <2>1. Settled(old, inner)
    BY <1>1, <1>3 DEF NothingLeftToFold, Settled, Moves, Is
  <2>2. QED
    BY <2>1, <1>3 DEF Settled
<1>11. v \in S /\ S \subseteq 1 .. len
  BY <1>5, <1>7, <1>10
<1>12. ASSUME NEW i \in S
       PROVE  SameSoFar(old, new, x, S, i)
  <2>1. CASE i = here
    <3>1. /\ HasValue(old, x, here) /\ HasValue(old, x, inner) /\ HasValue(old, x, c)
          /\ HasValue(old, x, k) /\ HasValue(old, x, v)
          /\ HasValue(new, x, here) /\ HasValue(new, x, c)
      <4>1. inner \in 1 .. len /\ c \in 1 .. len /\ k \in 1 .. len /\ v \in 1 .. len
        BY <1>1, <1>3
      <4>2. QED
        BY <4>1, <1>1, <1>2, ValuesDefined
    <3>2. PICK C \in Word, K \in Word, V \in Word :
            /\ C = old[c].constant /\ C = Values(old, x)[c]
            /\ K = old[k].constant /\ K = Values(old, x)[k]
            /\ V = Values(old, x)[v]
      BY <3>1, <1>3 DEF HasValue
    <3>3. Values(old, x)[inner] = (K + V) % Ints
      <4>1. CASE old[inner].a = k /\ old[inner].b = v
        BY <4>1, <3>1, <3>2, <1>3 DEF HasValue
      <4>2. CASE old[inner].a = v /\ old[inner].b = k
        <5>1. Values(old, x)[inner] = (V + K) % Ints
          BY <4>2, <3>1, <3>2, <1>3 DEF HasValue
        <5>2. V + K = K + V
          BY DEF Word
        <5>3. QED
          BY <5>1, <5>2
      <4>3. QED
        BY <4>1, <4>2, <1>3
    <3>4. PICK KV \in Word : KV = (K + V) % Ints
      BY SumIsWord
    <3>5. Values(old, x)[here] = (C + KV) % Ints
      <4>1. CASE old[here].a = c /\ old[here].b = inner
        BY <4>1, <3>1, <3>2, <3>3, <3>4, <1>3 DEF HasValue
      <4>2. CASE old[here].a = inner /\ old[here].b = c
        <5>1. Values(old, x)[here] = (KV + C) % Ints
          BY <4>2, <3>1, <3>2, <3>3, <3>4, <1>3 DEF HasValue
        <5>2. KV + C = C + KV
          BY DEF Word
        <5>3. QED
          BY <5>1, <5>2
      <4>3. QED
        BY <4>1, <4>2, <1>3
    <3>6. PICK CK \in Word : CK = (C + K) % Ints
      BY SumIsWord
    <3>7. Values(new, x)[c] = CK
      <4>1. new[c].id = "INT" /\ new[c].constant = CK
        BY <1>1, <1>3, <1>4, <3>2, <3>6
      <4>2. QED
        BY <4>1, <3>1 DEF HasValue
    <3>8. Values(new, x)[here] = (CK + Values(new, x)[v]) % Ints
      <4>1. new[here].id = "ADD" /\ new[here].a = c /\ new[here].b = v
        BY <1>1, <1>3, <1>4
      <4>2. QED
        BY <4>1, <3>1, <3>7 DEF HasValue
    <3>9. (CK + V) % Ints = (C + KV) % Ints
      BY <3>4, <3>6, SumsRegroup
    <3>10. v < here
      BY <1>3
    <3>11. QED
      BY <2>1, <3>2, <3>5, <3>8, <3>9, <3>10, <1>11 DEF SameSoFar
  <2>2. CASE i # here
    <3>1. i \in 1 .. len /\ i \in live /\ i # c /\ i # inner
      BY <1>5
    <3>2. /\ new[i].id = old[i].id /\ new[i].constant = old[i].constant
          /\ new[i].a = old[i].a /\ new[i].b = old[i].b
      BY <2>2, <3>1, <1>4
    <3>3. old[i].id = "ADD" => old[i].a \in S /\ old[i].b \in S
      BY <2>2, <3>1, <1>6, <1>8, <1>9
    <3>4. Copied(old, new, S, i)
      BY <3>2, <3>3 DEF Copied
    <3>. HIDE DEF S
    <3>5. QED
      BY <3>4, <1>1, <1>2, <1>11, CopiedStays
  <2>3. QED
    BY <2>1, <2>2
<1>13. \A i \in S : Values(new, x)[i] = Values(old, x)[i]
  <2>1. AllSameSoFar(old, new, x, S)
    BY <1>12 DEF AllSameSoFar
  <2>2. S \in SUBSET Nat
    BY <1>11
  <2>. HIDE DEF S
  <2>3. QED
    BY <2>1, <2>2, ValuesStay
<1>14. QED
  BY <1>1, <1>5, <1>8, <1>9, <1>13

\* Otherwise what does not depend on the outer constant keeps its value.
LEMMA ValuesApart ==
  ASSUME Shape, NEW new, new = instrs', WellFormed(new),
         NEW inner, NEW c, NEW k, NEW v, Folded(inner, c, k, v), NEW x \in Word,
         NEW i \in 1 .. Len(instrs), c \notin Reads(instrs)[i]
  PROVE  Values(new, x)[i] = Values(instrs, x)[i]
<1>1. PICK len \in Nat, old \in Seq(Instr), here \in Nat :
        len = Len(instrs) /\ len = Len(new) /\ old = instrs /\ here = at /\ here \in 1 .. len
  BY DEF Shape, WellFormed, Folded
<1>2. WellFormed(old) /\ WellFormed(new)
  BY <1>1 DEF Shape
<1>. DEFINE S == {j \in 1 .. len : c \notin Reads(old)[j]}
<1>3. /\ inner \in 1 .. here - 1 /\ c \in 1 .. here - 1 /\ old[here].id = "ADD"
      /\ <<old[here].a, old[here].b>> \in {<<c, inner>>, <<inner, c>>}
  BY <1>1 DEF Folded
<1>4. ASSUME NEW j \in S
      PROVE  Copied(old, new, S, j)
  <2>1. HasReads(old, j)
    BY <1>1, <1>2, ReadsDefined
  <2>2. ASSUME old[j].id = "ADD"
        PROVE  old[j].a \in S /\ old[j].b \in S
    <3>1. Reads(old)[j] = {j} \cup Reads(old)[old[j].a] \cup Reads(old)[old[j].b]
      BY <2>1, <2>2 DEF HasReads
    <3>2. old[j].a \in 1 .. len /\ old[j].b \in 1 .. len
      <4>1. j \in 1 .. Len(old) /\ len = Len(old)
        BY <1>1
      <4>2. old[j].a \in 1 .. j - 1 /\ old[j].b \in 1 .. j - 1
        BY <4>1, <1>2, <2>2 DEF WellFormed
      <4>3. QED
        BY <4>1, <4>2
    <3>3. QED
      BY <3>1, <3>2
  <2>3. j # c
    <3>1. j \in Reads(old)[j]
      BY <1>1, <1>2, ReadsItself
    <3>2. QED
      BY <3>1
  <2>4. j # here
    <3>1. c \in Reads(old)[c]
      <4>1. c \in 1 .. len
        BY <1>1, <1>3
      <4>2. len = Len(old)
        BY <1>1
      <4>3. QED
        BY <4>1, <4>2, <1>2, ReadsItself
    <3>2. c \notin S
      BY <3>1
    <3>3. QED
      BY <2>2, <3>2, <1>3
  <2>5. /\ new[j].id = old[j].id /\ new[j].constant = old[j].constant
        /\ new[j].a = old[j].a /\ new[j].b = old[j].b
    BY <2>3, <2>4, <1>1 DEF Folded
  <2>. HIDE DEF S
  <2>6. QED
    BY <2>2, <2>5 DEF Copied
<1>5. S \in SUBSET (1 .. Len(old)) /\ i \in S /\ S \in SUBSET Nat
  <2>1. 1 .. len = 1 .. Len(old) /\ i \in 1 .. len /\ c \notin Reads(old)[i]
    BY <1>1
  <2>2. S \subseteq 1 .. len /\ i \in S
    BY <2>1
  <2>. HIDE DEF S
  <2>3. QED
    BY <2>1, <2>2
<1>. HIDE DEF S
<1>6. AllSameSoFar(old, new, x, S)
  BY <1>1, <1>2, <1>4, <1>5, CopiedStays DEF AllSameSoFar
<1>7. \A j \in S : Values(new, x)[j] = Values(old, x)[j]
  BY <1>5, <1>6, ValuesStay
<1>8. QED
  BY <1>1, <1>5, <1>7

-----------------------------------------------------------------------------
(***************************************************************************)
(* The folds against the source.                                           *)
(***************************************************************************)
LEMMA SourceFolded ==
  ASSUME Shape, Shape', NEW live, Live(live), NothingLeftToFold, SourceCovers, UsedValuesStay,
         stage = "fold", NEW inner, NEW c, NEW k, NEW v, Folded(inner, c, k, v),
         UNCHANGED <<users, stage, at, source>>
  PROVE  SourceCovers' /\ UsedValuesStay'
<1>1. PICK new \in Seq(Instr), old \in Seq(Instr), len \in Nat, here \in Nat, from \in {source} :
        /\ new = instrs' /\ old = instrs /\ len = Len(old) /\ len = Len(new) /\ here = at
        /\ from = source
  BY DEF Shape, WellFormed, Folded
<1>2. WellFormed(old) /\ WellFormed(new) /\ users \subseteq 1 .. len
  BY <1>1 DEF Shape
<1>3. /\ WellFormed(from) /\ Len(from) = len
      /\ \A i \in 1 .. len : Reads(old)[i] \subseteq Reads(from)[i]
  BY <1>1 DEF SourceCovers
<1>4. Narrows(old, new)
  <2>. DEFINE reads == Reads(old)
  <2>1. ASSUME NEW i \in 1 .. len, new[i].id = "ADD"
        PROVE  new[i].a \in reads[i] /\ new[i].b \in reads[i]
    <3>1. HasReads(old, i)
      BY <1>1, <1>2, ReadsDefined
    <3>2. old[i].id = "ADD"
      BY <2>1, <1>1 DEF Folded
    <3>3. PICK a, b : a = old[i].a /\ b = old[i].b /\ a \in 1 .. len /\ b \in 1 .. len
      <4>1. i \in 1 .. Len(old)
        BY <1>1
      <4>2. old[i].a \in 1 .. i - 1 /\ old[i].b \in 1 .. i - 1
        BY <4>1, <3>2, <1>2 DEF WellFormed
      <4>3. QED
        BY <4>2
    <3>4. reads[i] = {i} \cup reads[a] \cup reads[b]
      BY <3>1, <3>2, <3>3 DEF HasReads
    <3>5. a \in reads[a] /\ b \in reads[b]
      BY <3>3, <1>1, <1>2, ReadsItself
    <3>6. CASE i # here
      <4>1. new[i].a = a /\ new[i].b = b
        BY <3>3, <3>6, <1>1 DEF Folded
      <4>. HIDE DEF reads
      <4>2. QED
        BY <4>1, <3>4, <3>5
    <3>7. CASE i = here
      <4>1. /\ new[i].a = c /\ new[i].b = v
            /\ <<a, b>> \in {<<c, inner>>, <<inner, c>>}
            /\ old[inner].id = "ADD" /\ inner \in 1 .. here - 1
            /\ <<old[inner].a, old[inner].b>> \in {<<k, v>>, <<v, k>>}
            /\ v \in 1 .. inner - 1
        BY <3>3, <3>7, <1>1 DEF Folded
      <4>2. inner \in 1 .. len /\ v \in 1 .. len
        BY <4>1, <3>7
      <4>3. reads[inner] = {inner} \cup reads[old[inner].a] \cup reads[old[inner].b]
        <5>1. HasReads(old, inner)
          BY <4>2, <1>1, <1>2, ReadsDefined
        <5>2. QED
          BY <5>1, <4>1 DEF HasReads
      <4>4. v \in reads[v]
        BY <4>2, <1>1, <1>2, ReadsItself
      <4>5. v \in reads[inner]
        <5>1. reads[v] \subseteq reads[inner]
          <6>1. v = old[inner].a \/ v = old[inner].b
            BY <4>1
          <6>. HIDE DEF reads
          <6>2. QED
            BY <6>1, <4>3
        <5>2. QED
          BY <5>1, <4>4
      <4>6. c \in reads[i] /\ reads[inner] \subseteq reads[i]
        <5>. HIDE DEF reads
        <5>1. CASE a = c /\ b = inner
          BY <5>1, <3>4, <3>5
        <5>2. CASE a = inner /\ b = c
          BY <5>2, <3>4, <3>5
        <5>3. QED
          BY <5>1, <5>2, <4>1
      <4>. HIDE DEF reads
      <4>7. QED
        BY <4>1, <4>5, <4>6
    <3>8. QED
      BY <3>6, <3>7
  <2>2. QED
    BY <2>1, <1>1 DEF Narrows
<1>5. \A i \in 1 .. len : Reads(new)[i] \subseteq Reads(from)[i]
  <2>1. \A i \in 1 .. len : Reads(new)[i] \subseteq Reads(old)[i]
    BY <1>1, <1>2, <1>4, ReadsShrink
  <2>2. QED
    BY <2>1, <1>3
<1>6. SourceCovers'
  BY <1>1, <1>3, <1>5 DEF SourceCovers
<1>7. ASSUME NEW i \in users, Reads(from)[i] \cap overwritten' = {}, NEW x \in Word
      PROVE  Values(new, x)[i] = Values(from, x)[i]
  <2>1. Values(old, x)[i] = Values(from, x)[i]
    <3>1. Reads(from)[i] \cap overwritten = {}
      BY <1>7 DEF Folded
    <3>2. QED
      BY <3>1, <1>1 DEF UsedValuesStay
  <2>2. Values(new, x)[i] = Values(old, x)[i]
    <3>1. CASE UsedOutside(c, {at, inner})
      <4>1. c \in overwritten'
        BY <3>1 DEF Folded
      <4>2. c \notin Reads(old)[i] /\ i \in 1 .. len
        BY <4>1, <1>2, <1>3, <1>7
      <4>3. QED
        BY <4>2, <1>1, <1>2, ValuesApart
    <3>2. CASE ~UsedOutside(c, {at, inner})
      BY <3>2, <1>1, <1>2, ValuesFolded
    <3>3. QED
      BY <3>1, <3>2
  <2>3. QED
    BY <2>1, <2>2
<1>8. UsedValuesStay'
  BY <1>1, <1>7 DEF UsedValuesStay
<1>9. QED
  BY <1>6, <1>8

LEMMA SourceFoldedInt ==
  ASSUME Shape, Shape', SourceCovers, UsedValuesStay, stage = "fold", FoldedInt,
         UNCHANGED <<users, stage, at, source, overwritten>>
  PROVE  SourceCovers' /\ UsedValuesStay'
<1>1. PICK new \in Seq(Instr), old \in Seq(Instr), len \in Nat, from \in {source} :
        /\ new = instrs' /\ old = instrs /\ len = Len(old) /\ len = Len(new) /\ from = source
  BY DEF Shape, WellFormed, FoldedInt
<1>2. WellFormed(old) /\ WellFormed(new) /\ users \subseteq 1 .. len
  BY <1>1 DEF Shape
<1>3. /\ WellFormed(from) /\ Len(from) = len
      /\ \A i \in 1 .. len : Reads(old)[i] \subseteq Reads(from)[i]
  BY <1>1 DEF SourceCovers
<1>4. Narrows(old, new)
  <2>. DEFINE reads == Reads(old)
  <2>1. ASSUME NEW i \in 1 .. len, new[i].id = "ADD"
        PROVE  new[i].a \in reads[i] /\ new[i].b \in reads[i]
    <3>1. HasReads(old, i)
      BY <1>1, <1>2, ReadsDefined
    <3>2. old[i].id = "ADD" /\ new[i].a = old[i].a /\ new[i].b = old[i].b
      BY <2>1, <1>1 DEF FoldedInt
    <3>3. PICK a, b : a = old[i].a /\ b = old[i].b /\ a \in 1 .. len /\ b \in 1 .. len
      <4>1. i \in 1 .. Len(old)
        BY <1>1
      <4>2. old[i].a \in 1 .. i - 1 /\ old[i].b \in 1 .. i - 1
        BY <4>1, <3>2, <1>2 DEF WellFormed
      <4>3. QED
        BY <4>2
    <3>4. reads[i] = {i} \cup reads[a] \cup reads[b]
      BY <3>1, <3>2, <3>3 DEF HasReads
    <3>5. a \in reads[a] /\ b \in reads[b]
      BY <3>3, <1>1, <1>2, ReadsItself
    <3>. HIDE DEF reads
    <3>6. QED
      BY <3>2, <3>3, <3>4, <3>5
  <2>2. QED
    BY <2>1, <1>1 DEF Narrows
<1>5. \A i \in 1 .. len : Reads(new)[i] \subseteq Reads(from)[i]
  <2>1. \A i \in 1 .. len : Reads(new)[i] \subseteq Reads(old)[i]
    BY <1>1, <1>2, <1>4, ReadsShrink
  <2>2. QED
    BY <2>1, <1>3
<1>6. SourceCovers'
  BY <1>1, <1>3, <1>5 DEF SourceCovers
<1>7. ASSUME NEW i \in users, Reads(from)[i] \cap overwritten = {}, NEW x \in Word
      PROVE  Values(new, x)[i] = Values(from, x)[i]
  <2>1. Values(old, x)[i] = Values(from, x)[i]
    BY <1>7, <1>1 DEF UsedValuesStay
  <2>2. i \in 1 .. Len(instrs)
    BY <1>1, <1>2
  <2>3. Values(new, x)[i] = Values(old, x)[i]
    BY <2>2, <1>1, <1>2, ValuesFoldedInt
  <2>4. QED
    BY <2>1, <2>3
<1>8. UsedValuesStay'
  BY <1>1, <1>7 DEF UsedValuesStay
<1>9. QED
  BY <1>6, <1>8

-----------------------------------------------------------------------------
(***************************************************************************)
(* The invariant.                                                          *)
(***************************************************************************)
LEMMA InitIInv ==
  ASSUME Init
  PROVE  IInv
<1>. DEFINE numbers == [n \in DOMAIN Constants |-> Number(Constants[n])]
<1>1. Parameter \in Instr /\ Parameter.id # "ADD" /\ Parameter.refs = 0
  <2>1. 0 \in Word
    BY PeepholeAssumption DEF Word
  <2>2. QED
    BY <2>1 DEF Parameter, Instr
<1>2. /\ numbers \in Seq(Instr)
      /\ \A n \in 1 .. Len(numbers) : numbers[n].id # "ADD" /\ numbers[n].refs = 0
  <2>1. PICK list \in Seq(Word) : list = Constants
    BY PeepholeAssumption DEF Word
  <2>2. ASSUME NEW n \in 1 .. Len(list)
        PROVE  /\ Number(list[n]) \in Instr
               /\ Number(list[n]).id # "ADD" /\ Number(list[n]).refs = 0
    <3>1. PICK word \in Word : word = list[n]
      OBVIOUS
    <3>2. QED
      BY <3>1 DEF Number, Instr
  <2>3. numbers = [n \in 1 .. Len(list) |-> Number(list[n])]
    BY <2>1
  <2>. HIDE DEF numbers
  <2>4. numbers \in Seq(Instr) /\ Len(numbers) = Len(list)
    BY <2>2, <2>3
  <2>5. QED
    BY <2>2, <2>3, <2>4
<1>3. /\ instrs \in Seq(Instr) /\ Len(instrs) >= 1
      /\ \A i \in 1 .. Len(instrs) : instrs[i].id # "ADD" /\ instrs[i].refs = 0
  <2>. HIDE DEF numbers
  <2>1. PICK list \in Seq(Instr), first \in Instr :
          list = numbers /\ first = Parameter /\ instrs = <<first>> \o list
    BY <1>1, <1>2 DEF Init, numbers
  <2>2. instrs \in Seq(Instr) /\ Len(instrs) = 1 + Len(list)
    BY <2>1
  <2>3. ASSUME NEW i \in 1 .. Len(instrs)
        PROVE  instrs[i].id # "ADD" /\ instrs[i].refs = 0
    <3>1. CASE i = 1
      <4>1. instrs[i] = first
        BY <3>1, <2>1
      <4>2. QED
        BY <4>1, <2>1, <1>1
    <3>2. CASE i # 1
      <4>1. instrs[i] = list[i - 1] /\ i - 1 \in 1 .. Len(list)
        BY <3>2, <2>1, <2>2
      <4>2. QED
        BY <4>1, <2>1, <1>2
    <3>3. QED
      BY <3>1, <3>2
  <2>4. QED
    BY <2>2, <2>3
<1>4. users = {} /\ stage = "build" /\ at = 1
  BY DEF Init
<1>5. Shape
  BY <1>3, <1>4 DEF Shape, WellFormed
<1>6. Live(1 .. Len(instrs))
  <2>1. ASSUME NEW i \in 1 .. Len(instrs)
        PROVE  instrs[i].refs >= UsesIn(instrs, users, 1 .. Len(instrs), i)
    <3>1. /\ ByA(instrs, 1 .. Len(instrs), i) = {} /\ ByB(instrs, 1 .. Len(instrs), i) = {}
          /\ users \cap {i} = {}
      BY <1>3, <1>4 DEF ByA, ByB
    <3>2. Cardinality({}) = 0
      BY FS_EmptySet
    <3>3. UsesIn(instrs, users, 1 .. Len(instrs), i) = 0 + 0 + 0
      <4>. HIDE DEF ByA, ByB
      <4>1. QED
        BY <3>1, <3>2 DEF UsesIn
    <3>4. QED
      BY <3>3, <1>3
  <2>2. QED
    BY <2>1, <1>3, <1>4 DEF Live, Is
<1>7. NothingLeftToFold /\ SourceCovers /\ UsedValuesStay
  BY <1>4 DEF NothingLeftToFold, SourceCovers, UsedValuesStay
<1>8. QED
  BY <1>5, <1>6, <1>7 DEF IInv

LEMMA BuilderAddIInv ==
  ASSUME IInv, NEW a \in DOMAIN instrs, NEW b \in DOMAIN instrs, BuilderAdd(a, b)
  PROVE  IInv'
<1>1. PICK len \in Nat : len = Len(instrs)
  BY DEF IInv, Shape, WellFormed
<1>2. /\ WellFormed(instrs) /\ a \in 1 .. len /\ b \in 1 .. len
      /\ stage = "build" /\ stage' = "build" /\ at = 1 /\ at' = 1 /\ users = {} /\ users' = {}
  BY <1>1 DEF IInv, Shape, WellFormed, BuilderAdd
<1>3. Added(a, b)
  BY <1>1, <1>2, AddedBy
<1>4. /\ instrs' \in Seq(Instr) /\ Len(instrs') = len + 1
      /\ instrs'[len + 1].id = "ADD" /\ instrs'[len + 1].a = a /\ instrs'[len + 1].b = b
      /\ \A i \in 1 .. len : /\ instrs'[i].id = instrs[i].id
                             /\ instrs'[i].a = instrs[i].a /\ instrs'[i].b = instrs[i].b
  BY <1>1, <1>3 DEF Added
<1>5. Shape'
  <2>1. ASSUME NEW i \in 1 .. len + 1, instrs'[i].id = "ADD"
        PROVE  instrs'[i].a \in 1 .. i - 1 /\ instrs'[i].b \in 1 .. i - 1
    <3>1. CASE i = len + 1
      BY <3>1, <1>2, <1>4
    <3>2. CASE i # len + 1
      <4>1. i \in 1 .. len
        BY <3>2
      <4>2. QED
        BY <4>1, <2>1, <1>1, <1>2, <1>4 DEF WellFormed
    <3>3. QED
      BY <3>1, <3>2
  <2>2. WellFormed(instrs)'
    BY <2>1, <1>4 DEF WellFormed
  <2>3. QED
    BY <2>2, <1>2, <1>4 DEF Shape
<1>6. (\E live : Live(live))'
  <2>1. Live(1 .. len)
    <3>1. PICK live : Live(live)
      BY DEF IInv
    <3>2. live = 1 .. len
      BY <3>1, <1>1, <1>2 DEF Live
    <3>3. QED
      BY <3>1, <3>2
  <2>2. PICK live : live = 1 .. len + 1
    OBVIOUS
  <2>3. Live(live)'
    BY <2>1, <2>2, <1>1, <1>2, <1>3, LiveAdded
  <2>4. QED
    BY <2>3
<1>7. NothingLeftToFold' /\ SourceCovers' /\ UsedValuesStay'
  BY <1>2 DEF NothingLeftToFold, SourceCovers, UsedValuesStay
<1>8. QED
  BY <1>5, <1>6, <1>7 DEF IInv

LEMMA OtherUseIInv ==
  ASSUME IInv, NEW s \in DOMAIN instrs, OtherUse(s)
  PROVE  IInv'
<1>1. PICK len \in Nat, old \in Seq(Instr) : len = Len(instrs) /\ old = instrs /\ len = Len(old)
  BY DEF IInv, Shape, WellFormed
<1>2. /\ WellFormed(old) /\ s \in 1 .. len /\ s \notin users /\ users' = users \cup {s}
      /\ stage = "build" /\ stage' = "build" /\ at = 1 /\ at' = 1
      /\ users \subseteq 1 .. len
  BY <1>1 DEF IInv, Shape, WellFormed, OtherUse
<1>3. PICK one \in Instr, new \in Seq(Instr) :
        /\ one.id = old[s].id /\ one.constant = old[s].constant
        /\ one.a = old[s].a /\ one.b = old[s].b /\ one.refs = old[s].refs + 1
        /\ new = instrs' /\ Len(new) = len
        /\ \A i \in 1 .. len : new[i] = IF i = s THEN one ELSE old[i]
  <2>1. PICK was \in Instr : was = old[s]
    BY <1>1, <1>2
  <2>2. PICK more \in Int : more = was.refs + 1
    BY DEF Instr
  <2>3. PICK one : one = [was EXCEPT !.refs = more]
    OBVIOUS
  <2>4. /\ one \in Instr /\ one.id = was.id /\ one.constant = was.constant
        /\ one.a = was.a /\ one.b = was.b /\ one.refs = was.refs + 1
    BY <2>2, <2>3 DEF Instr
  <2>5. instrs' = [old EXCEPT ![s] = one]
    BY <2>1, <2>2, <2>3, <1>1 DEF OtherUse
  <2>6. PICK new : new = [old EXCEPT ![s] = one]
    OBVIOUS
  <2>7. /\ new \in Seq(Instr) /\ Len(new) = len
        /\ \A i \in 1 .. len : new[i] = IF i = s THEN one ELSE old[i]
    BY <2>4, <2>6, <1>1, <1>2
  <2>8. QED
    BY <2>1, <2>4, <2>5, <2>6, <2>7
<1>4. ASSUME NEW i \in 1 .. len
      PROVE  /\ old[i].id = new[i].id /\ old[i].constant = new[i].constant
             /\ old[i].a = new[i].a /\ old[i].b = new[i].b
             /\ old[i].refs = new[i].refs - Same(i, s)
  <2>1. PICK was \in Instr : was = old[i]
    BY <1>1
  <2>2. was.refs \in Int
    BY DEF Instr
  <2>3. CASE i = s
    BY <2>1, <2>2, <2>3, <1>3 DEF Same
  <2>4. CASE i # s
    BY <2>1, <2>2, <2>4, <1>3 DEF Same
  <2>5. QED
    BY <2>3, <2>4
<1>5. Shape'
  <2>1. WellFormed(new)
    BY <1>1, <1>2, <1>3, <1>4 DEF WellFormed
  <2>2. WellFormed(instrs)'
    BY <2>1, <1>3
  <2>3. Len(instrs') = len
    BY <1>3
  <2>4. users' \subseteq 1 .. len /\ at' \in 1 .. len + 1
    <3>1. users' \subseteq 1 .. len
      BY <1>2
    <3>2. QED
      BY <3>1, <1>2
  <2>5. QED
    BY <2>2, <2>3, <2>4, <1>2 DEF Shape
<1>6. (\E live : Live(live))'
  <2>1. PICK live : Live(live)
    BY DEF IInv
  <2>2. s \in live
    BY <2>1, <1>1, <1>2 DEF Live
  <2>3. Released(instrs', instrs, s)
    BY <1>1, <1>3, <1>4 DEF Released
  <2>4. Live(live)'
    BY <2>1, <2>2, <2>3, <1>1, <1>2, <1>3, LiveUsed
  <2>5. QED
    BY <2>4
<1>7. NothingLeftToFold' /\ SourceCovers' /\ UsedValuesStay'
  BY <1>2 DEF NothingLeftToFold, SourceCovers, UsedValuesStay
<1>8. QED
  BY <1>5, <1>6, <1>7 DEF IInv

LEMMA OptimizeIInv ==
  ASSUME IInv, Optimize
  PROVE  IInv'
<1>1. PICK len \in Nat, old \in Seq(Instr) : len = Len(instrs) /\ old = instrs /\ len = Len(old)
  BY DEF IInv, Shape, WellFormed
<1>2. /\ WellFormed(old) /\ instrs' = old /\ source' = old /\ users' = users /\ stage' = "fold"
      /\ at = 1 /\ at' = 1
  BY <1>1 DEF IInv, Shape, Optimize
<1>3. Shape' /\ (\E live : Live(live))'
  <2>1. Shape'
    BY <1>1, <1>2 DEF IInv, Shape
  <2>2. PICK live : Live(live)
    BY DEF IInv
  <2>3. Live(live)'
    BY <2>2, <1>1, <1>2 DEF Live, Is
  <2>4. QED
    BY <2>1, <2>3
<1>4. NothingLeftToFold'
  BY <1>2 DEF NothingLeftToFold
<1>5. SourceCovers' /\ UsedValuesStay'
  BY <1>1, <1>2 DEF SourceCovers, UsedValuesStay
<1>6. QED
  BY <1>3, <1>4, <1>5 DEF IInv

LEMMA FoldIntIntIInv ==
  ASSUME IInv, FoldIntInt
  PROVE  IInv'
<1>1. FoldedInt /\ stage = "fold" /\ UNCHANGED <<users, stage, at, source, overwritten>>
  BY FoldedIntBy DEF IInv, FoldIntInt, Folding
<1>2. Shape'
  BY <1>1, ShapeFoldedInt DEF IInv
<1>3. NothingLeftToFold'
  BY <1>1, NothingFoldedInt DEF IInv
<1>4. (\E live : Live(live))'
  <2>1. PICK live : Live(live)
    BY DEF IInv
  <2>2. Live(live)'
    BY <2>1, <1>1, LiveFoldedInt DEF IInv, Shape
  <2>3. QED
    BY <2>2
<1>5. SourceCovers' /\ UsedValuesStay'
  BY <1>1, <1>2, SourceFoldedInt DEF IInv
<1>6. QED
  BY <1>2, <1>3, <1>4, <1>5 DEF IInv

LEMMA FoldCommutativeIInv ==
  ASSUME IInv, FoldIntAdd \/ FoldAddInt
  PROVE  IInv'
<1>1. PICK inner, c, k, v : Folded(inner, c, k, v)
  BY FoldedEither DEF IInv
<1>2. UNCHANGED <<users, stage, at, source>> /\ stage = "fold"
  BY FoldedEither DEF IInv
<1>3. PICK live : Live(live)
  BY DEF IInv
<1>4. Shape'
  BY <1>1, <1>2, ShapeFolded DEF IInv
<1>5. NothingLeftToFold'
  BY <1>1, <1>2, NothingFolded DEF IInv
<1>6. (\E l : Live(l))'
  <2>1. PICK rest : rest = live \ {inner}
    OBVIOUS
  <2>2. Live(rest)'
    BY <2>1, <1>1, <1>2, <1>3, LiveFolded DEF IInv, Shape
  <2>3. QED
    BY <2>2
<1>7. SourceCovers' /\ UsedValuesStay'
  BY <1>1, <1>2, <1>3, <1>4, SourceFolded DEF IInv
<1>8. QED
  BY <1>4, <1>5, <1>6, <1>7 DEF IInv

LEMMA ContinueFoldIInv ==
  ASSUME IInv, ContinueFold
  PROVE  IInv'
<1>1. PICK len \in Nat, here \in Nat :
        len = Len(instrs) /\ here = at /\ here \in 1 .. len /\ at' = here + 1
  BY DEF IInv, Shape, WellFormed, ContinueFold, Folding
<1>2. /\ UNCHANGED <<instrs, users, source, overwritten>>
      /\ stage = "fold" /\ stage' \in {"fold", "done"}
  BY DEF ContinueFold, Folding
<1>3. Shape'
  BY <1>1, <1>2 DEF IInv, Shape
<1>4. (\E live : Live(live))'
  <2>1. PICK live : Live(live)
    BY DEF IInv
  <2>2. here + 1 .. len \subseteq here .. len
    BY <1>1
  <2>3. Live(live)'
    BY <2>1, <2>2, <1>1, <1>2 DEF Live, Is
  <2>4. QED
    BY <2>3
<1>5. NothingLeftToFold'
  <2>1. Settled(instrs, here)
    BY <1>1 DEF ContinueFold, MatchAdd, Foldable, Is, Settled, Moves
  <2>2. \A i \in 1 .. here - 1 : Settled(instrs, i)
    BY <1>1, <1>2 DEF IInv, NothingLeftToFold, Settled, Moves, Is
  <2>3. \A i \in 1 .. here : Settled(instrs, i)
    BY <2>1, <2>2, <1>1
  <2>4. at' - 1 = here
    BY <1>1
  <2>5. QED
    BY <2>3, <2>4, <1>2 DEF NothingLeftToFold, Settled, Moves, Is
<1>6. SourceCovers' /\ UsedValuesStay'
  BY <1>2 DEF IInv, SourceCovers, UsedValuesStay
<1>7. QED
  BY <1>3, <1>4, <1>5, <1>6 DEF IInv

LEMMA NextIInv ==
  ASSUME IInv, [Next]_vars
  PROVE  IInv'
<1>1. CASE \E a, b \in DOMAIN instrs : BuilderAdd(a, b)
  BY <1>1, BuilderAddIInv
<1>2. CASE \E i \in DOMAIN instrs : OtherUse(i)
  BY <1>2, OtherUseIInv
<1>3. CASE Optimize
  BY <1>3, OptimizeIInv
<1>4. CASE FoldIntInt
  BY <1>4, FoldIntIntIInv
<1>5. CASE FoldIntAdd \/ FoldAddInt
  BY <1>5, FoldCommutativeIInv
<1>6. CASE ContinueFold
  BY <1>6, ContinueFoldIInv
<1>7. CASE UNCHANGED vars
  <2>1. UNCHANGED <<instrs, users, stage, at, source, overwritten>>
    BY <1>7 DEF vars
  <2>2. Shape' /\ NothingLeftToFold' /\ SourceCovers' /\ UsedValuesStay'
    BY <2>1, ZenonT(60) DEF IInv, Shape, NothingLeftToFold, Is, SourceCovers, UsedValuesStay
  <2>3. PICK live : Live(live)
    BY DEF IInv
  <2>4. Live(live)'
    BY <2>1, <2>3 DEF Live, Is
  <2>5. QED
    BY <2>2, <2>4 DEF IInv
<1>8. QED
  BY <1>1, <1>2, <1>3, <1>4, <1>5, <1>6, <1>7 DEF Next, Fold

\* The invariant holds in every state, for every block and any width.
THEOREM FoldingInvariant == Spec => []IInv
<1>1. Init => IInv
  BY InitIInv
<1>2. IInv /\ [Next]_vars => IInv'
  BY NextIInv
<1>3. QED
  BY <1>1, <1>2, PTL DEF Spec

\* What is folded keeps the value it has in the source wherever it is used, but
\* for what reads a constant that was overwritten under its other users.
THEOREM FoldingKeepsValues == Spec => []UsedValuesStay
<1>1. IInv => UsedValuesStay
  BY DEF IInv
<1>2. QED
  BY <1>1, FoldingInvariant, PTL

\* One pass over the block is enough.
THEOREM OnePassIsEnough == Spec => []NothingLeftToFold
<1>1. IInv => NothingLeftToFold
  BY DEF IInv
<1>2. QED
  BY <1>1, FoldingInvariant, PTL

\* What is needed reads what is live only, so the counts that cover the live uses
\* cover the needed ones.
LEMMA NeededIsCounted ==
  ASSUME IInv
  PROVE  CountsCoverUses
<1>. DEFINE reads == Reads(instrs)
            needed == UNION {reads[i] : i \in users}
<1>1. PICK len \in Nat : len = Len(instrs)
  BY DEF IInv, Shape, WellFormed
<1>2. PICK live : Live(live)
  BY DEF IInv
<1>3. WellFormed(instrs) /\ live \subseteq 1 .. len /\ users \subseteq live
  BY <1>1, <1>2 DEF IInv, Shape, Live
<1>4. needed \subseteq live
  <2>1. \A i \in live : reads[i] \subseteq live
    BY <1>2, <1>3, ReadsLive
  <2>. HIDE DEF reads
  <2>2. QED
    BY <2>1, <1>3
<1>. HIDE DEF needed
<1>5. ASSUME NEW i \in needed
      PROVE  instrs[i].refs >= Cardinality({j \in needed : Is("ADD", j) /\ instrs[j].a = i})
                             + Cardinality({j \in needed : Is("ADD", j) /\ instrs[j].b = i})
                             + Cardinality(users \cap {i})
  <2>. DEFINE A == {j \in needed : Is("ADD", j) /\ instrs[j].a = i}
              B == {j \in needed : Is("ADD", j) /\ instrs[j].b = i}
              C == users \cap {i}
              LA == ByA(instrs, live, i)
              LB == ByB(instrs, live, i)
  <2>1. i \in live /\ i \in 1 .. len
    BY <1>3, <1>4
  <2>2. IsFiniteSet(live)
    <3>1. IsFiniteSet(1 .. len)
      BY FS_Interval
    <3>2. QED
      BY <3>1, <1>3, FS_Subset
  <2>3. A \subseteq LA /\ B \subseteq LB /\ LA \subseteq live /\ LB \subseteq live /\ C \subseteq live
    BY <2>1, <1>4 DEF ByA, ByB, Is
  <2>4. instrs[i].refs >= Cardinality(LA) + Cardinality(LB) + Cardinality(C)
    BY <2>1, <1>2 DEF Live, UsesIn
  <2>. HIDE DEF A, B, C, LA, LB
  <2>5. IsFiniteSet(LA) /\ IsFiniteSet(LB) /\ IsFiniteSet(C)
    BY <2>2, <2>3, FS_Subset
  <2>6. /\ Cardinality(A) <= Cardinality(LA) /\ Cardinality(B) <= Cardinality(LB)
        /\ IsFiniteSet(A) /\ IsFiniteSet(B)
    BY <2>3, <2>5, FS_Subset
  <2>7. /\ Cardinality(A) \in Nat /\ Cardinality(B) \in Nat /\ Cardinality(C) \in Nat
        /\ Cardinality(LA) \in Nat /\ Cardinality(LB) \in Nat
    BY <2>5, <2>6, FS_CardinalityType
  <2>8. instrs[i].refs \in Int
    <3>1. instrs[i] \in Instr
      <4>1. instrs \in Seq(Instr) /\ i \in 1 .. Len(instrs)
        BY <2>1, <1>1, <1>3 DEF WellFormed
      <4>2. QED
        BY <4>1
    <3>2. QED
      BY <3>1 DEF Instr
  <2>9. instrs[i].refs >= Cardinality(A) + Cardinality(B) + Cardinality(C)
    BY <2>4, <2>6, <2>7, <2>8
  <2>10. QED
    BY <2>9 DEF A, B, C
<1>6. QED
  BY <1>5 DEF CountsCoverUses, needed

\* A fold that finds a count of one has found the only use before it.
THEOREM CountsAreRight == Spec => []CountsCoverUses
<1>1. IInv => CountsCoverUses
  BY NeededIsCounted
<1>2. QED
  BY <1>1, FoldingInvariant, PTL

===============================================================================
