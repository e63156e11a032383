---------------------------- MODULE SegmentsProofs ----------------------------
(***************************************************************************)
(* The code layout of compiler.c, for every number of blocks, every size   *)
(* of the emitted pieces and any number of them: the list of segments      *)
(* holds them all in one order, and after the three walks of               *)
(* stitch_segments they lie side by side and the jumps lead to their       *)
(* labels.                                                                 *)
(***************************************************************************)
EXTENDS Segments, Induction, TLAPS, SequenceTheorems

Types == {"label", "code", "jump"}
SegmentType ==
  [type : Types, max_size : Nat, final_size : Nat, offset : Int, jump_to : Nat,
   prev : Nat, next : Nat]

\* Every piece of code fits its array, and every jump has a label to go to.
Sized(list) ==
  \A s \in 1 .. Len(list) :
    /\ list[s].type = "code" => list[s].max_size <= CodeCapacity
    /\ list[s].type = "jump" => /\ list[s].max_size \in {NearJump, CondJump}
                                /\ list[s].jump_to \in 1 .. Len(list)
                                /\ list[list[s].jump_to].type = "label"

\* The two directions of the list belong together.
Linked(list) ==
  \A s \in 1 .. Len(list) :
    /\ list[s].next # 0 => list[s].next \in 1 .. Len(list) /\ list[list[s].next].prev = s
    /\ list[s].prev # 0 => list[s].prev \in 1 .. Len(list) /\ list[list[s].prev].next = s

\* p lists the numbers from 1 to len, each once.
Permutes(p, len) ==
  /\ p \in [1 .. len -> 1 .. len]
  /\ \A m, n \in 1 .. len : p[m] = p[n] => m = n
  /\ \A s \in 1 .. len : \E n \in 1 .. len : p[n] = s

\* p[n] is the nth segment of the list.
IsOrder(p, list) ==
  /\ Permutes(p, Len(list))
  /\ p[1] = FirstLabel
  /\ \A n \in 1 .. Len(list) : list[p[n]].next = IF n = Len(list) THEN 0 ELSE p[n + 1]

Good(list) ==
  /\ list \in Seq(SegmentType)
  /\ Len(list) > 0
  /\ Sized(list)
  /\ Linked(list)
  /\ \E p : IsOrder(p, list)

-----------------------------------------------------------------------------
(***************************************************************************)
(* The operations on the list.                                             *)
(***************************************************************************)
\* What an insertion does to each field.
Inserted(list, result, type, size, to, before, behind) ==
  LET new == Len(list) + 1
  IN  /\ result \in Seq(SegmentType)
      /\ Len(result) = new
      /\ result[new].type = type
      /\ result[new].max_size = size
      /\ result[new].jump_to = to
      /\ result[new].prev = before
      /\ result[new].next = behind
      /\ \A s \in 1 .. Len(list) :
           /\ result[s].type = list[s].type
           /\ result[s].max_size = list[s].max_size
           /\ result[s].jump_to = list[s].jump_to
           /\ result[s].next = IF s = before THEN new ELSE list[s].next
           /\ result[s].prev = IF s = behind THEN new ELSE list[s].prev

LEMMA InsertFields ==
  ASSUME NEW list \in Seq(SegmentType), NEW type \in Types, NEW size \in Nat,
         NEW to \in Nat, NEW before \in 1 .. Len(list), NEW behind \in 1 .. Len(list)
  PROVE  Inserted(list, Insert(list, type, size, to, before, behind),
                  type, size, to, before, behind)
<1>. DEFINE new == Len(list) + 1
            Relink(s) == [list[s] EXCEPT !.prev = IF s = behind THEN new ELSE @,
                                         !.next = IF s = before THEN new ELSE @]
            relinked == [s \in DOMAIN list |-> Relink(s)]
            added == NewSegment(type, size, to, before, behind)
            result == Insert(list, type, size, to, before, behind)
<1>1. /\ Len(list) \in Nat /\ new \in Nat
      /\ before \in Nat /\ behind \in Nat
  OBVIOUS
<1>2. \A s \in 1 .. Len(list) :
        /\ Relink(s) \in SegmentType
        /\ Relink(s).type = list[s].type
        /\ Relink(s).max_size = list[s].max_size
        /\ Relink(s).jump_to = list[s].jump_to
        /\ Relink(s).next = IF s = before THEN new ELSE list[s].next
        /\ Relink(s).prev = IF s = behind THEN new ELSE list[s].prev
  <2>1. TAKE s \in 1 .. Len(list)
  <2>2. list[s] \in SegmentType
    OBVIOUS
  <2>3. QED
    BY <1>1, <2>2 DEF SegmentType
<1>3. /\ added \in SegmentType
      /\ added.type = type /\ added.max_size = size /\ added.jump_to = to
      /\ added.prev = before /\ added.next = behind
  BY <1>1 DEF NewSegment, SegmentType
<1>. HIDE DEF Relink
<1>4. relinked \in Seq(SegmentType) /\ Len(relinked) = Len(list)
  BY <1>1, <1>2
<1>5a. \A s \in 1 .. Len(list) : relinked[s] = Relink(s)
  OBVIOUS
<1>. HIDE DEF relinked, added, result
<1>5. result = Append(relinked, added)
  BY DEF result, Insert, relinked, added, Relink
<1>6. /\ result \in Seq(SegmentType)
      /\ Len(result) = new
      /\ result[new] = added
  BY <1>1, <1>3, <1>4, <1>5
<1>6a. \A s \in 1 .. Len(list) : result[s] = relinked[s]
  BY <1>1, <1>3, <1>4, <1>5
<1>7. Inserted(list, result, type, size, to, before, behind)
  BY <1>2, <1>3, <1>5a, <1>6, <1>6a DEF Inserted
<1>8. QED
  BY <1>7 DEF result

\* A new element takes its place behind the kth of an order.
LEMMA Splice ==
  ASSUME NEW len \in Nat, NEW k \in 1 .. len, NEW p, Permutes(p, len)
  PROVE  \E q : /\ Permutes(q, len + 1)
                /\ \A n \in 1 .. k : q[n] = p[n]
                /\ q[k + 1] = len + 1
                /\ \A n \in k + 1 .. len : q[n + 1] = p[n]
<1>. DEFINE q == [n \in 1 .. len + 1 |->
                    IF n <= k THEN p[n] ELSE IF n = k + 1 THEN len + 1 ELSE p[n - 1]]
<1>1. p \in [1 .. len -> 1 .. len]
  BY DEF Permutes
<1>2. ASSUME NEW n \in 1 .. len + 1
      PROVE  /\ q[n] \in 1 .. len + 1
             /\ n <= k => q[n] = p[n] /\ n \in 1 .. len
             /\ n = k + 1 => q[n] = len + 1
             /\ n > k + 1 => q[n] = p[n - 1] /\ n - 1 \in 1 .. len
             /\ n # k + 1 => q[n] \in 1 .. len
  <2>1. n <= k => p[n] \in 1 .. len /\ n \in 1 .. len
    BY <1>1
  <2>2. n > k + 1 => p[n - 1] \in 1 .. len /\ n - 1 \in 1 .. len
    <3>1. n > k + 1 => n - 1 \in 1 .. len
      OBVIOUS
    <3>2. QED
      BY <3>1, <1>1
  <2>3. QED
    BY <2>1, <2>2
<1>3. q \in [1 .. len + 1 -> 1 .. len + 1]
  BY <1>2
<1>. HIDE DEF q
<1>4. ASSUME NEW n \in k + 1 .. len PROVE q[n + 1] = p[n]
  <2>1. n + 1 \in 1 .. len + 1 /\ n + 1 > k + 1 /\ (n + 1) - 1 = n
    OBVIOUS
  <2>2. QED
    BY <1>2, <2>1
<1>5. ASSUME NEW n \in 1 .. k PROVE q[n] = p[n]
  BY <1>2
<1>6. q[k + 1] = len + 1
  BY <1>2
<1>7. ASSUME NEW m \in 1 .. len, NEW n \in 1 .. len, p[m] = p[n] PROVE m = n
  BY <1>7 DEF Permutes
<1>8. ASSUME NEW m \in 1 .. len + 1, NEW n \in 1 .. len + 1, q[m] = q[n], m < n PROVE FALSE
  <2>1. m # k + 1 /\ n # k + 1
    BY <1>2, <1>6, <1>8
  <2>2. PICK i \in 1 .. len : q[m] = p[i] /\ i = IF m <= k THEN m ELSE m - 1
    BY <1>2, <2>1
  <2>3. PICK j \in 1 .. len : q[n] = p[j] /\ j = IF n <= k THEN n ELSE n - 1
    BY <1>2, <2>1
  <2>4. i = j
    BY <1>7, <1>8, <2>2, <2>3
  <2>5. QED
    BY <1>8, <2>1, <2>2, <2>3, <2>4
<1>9. ASSUME NEW m \in 1 .. len + 1, NEW n \in 1 .. len + 1, q[m] = q[n] PROVE m = n
  <2>1. ~(m < n) /\ ~(n < m)
    BY <1>8, <1>9
  <2>2. QED
    BY <2>1
<1>10. ASSUME NEW s \in 1 .. len + 1 PROVE \E n \in 1 .. len + 1 : q[n] = s
  <2>1. CASE s = len + 1
    BY <1>6, <2>1
  <2>2. CASE s \in 1 .. len
    <3>1. PICK n \in 1 .. len : p[n] = s
      BY <2>2 DEF Permutes
    <3>2. CASE n <= k
      BY <1>5, <3>1, <3>2
    <3>3. CASE n > k
      <4>1. q[n + 1] = s /\ n + 1 \in 1 .. len + 1
        BY <1>4, <3>1, <3>3
      <4>2. QED
        BY <4>1
    <3>4. QED
      BY <3>2, <3>3
  <2>3. QED
    BY <2>1, <2>2
<1>11. Permutes(q, len + 1)
  BY <1>3, <1>9, <1>10 DEF Permutes
<1>12. QED
  BY <1>4, <1>5, <1>6, <1>11

\* The order the new segment takes its place in.
LEMMA InsertOrder ==
  ASSUME NEW list \in Seq(SegmentType), NEW type \in Types, NEW size \in Nat,
         NEW to \in Nat, NEW before \in 1 .. Len(list), NEW behind \in 1 .. Len(list),
         list[before].next = behind, NEW p, IsOrder(p, list),
         NEW result, result = Insert(list, type, size, to, before, behind)
  PROVE  \E q : IsOrder(q, result)
<1>. DEFINE len == Len(list)
            new == len + 1
<1>1. /\ len \in Nat
      /\ Len(result) = new
      /\ result[new].next = behind
      /\ \A s \in 1 .. len : result[s].next = IF s = before THEN new ELSE list[s].next
  <2>1. Inserted(list, result, type, size, to, before, behind)
    BY InsertFields
  <2>2. QED
    BY <2>1 DEF Inserted
<1>2. Permutes(p, len) /\ p[1] = 1
  BY DEF IsOrder, FirstLabel
<1>3. ASSUME NEW n \in 1 .. len
      PROVE  p[n] \in 1 .. len /\ list[p[n]].next = IF n = len THEN 0 ELSE p[n + 1]
  BY DEF IsOrder, Permutes
<1>4. ASSUME NEW m \in 1 .. len, NEW n \in 1 .. len, p[m] = p[n] PROVE m = n
  BY <1>2, <1>4 DEF Permutes
<1>5. PICK k \in 1 .. len : p[k] = before
  BY <1>2 DEF Permutes
<1>6. k < len /\ p[k + 1] = behind
  <2>1. behind # 0 /\ behind = IF k = len THEN 0 ELSE p[k + 1]
    BY <1>1, <1>3, <1>5
  <2>2. QED
    BY <2>1, <1>1
<1>7. PICK q : /\ Permutes(q, new)
               /\ \A n \in 1 .. k : q[n] = p[n]
               /\ q[k + 1] = new
               /\ \A n \in k + 1 .. len : q[n + 1] = p[n]
  <2>. HIDE DEF len
  <2>1. len \in Nat /\ k \in 1 .. len /\ Permutes(p, len)
    BY <1>1, <1>2
  <2>2. QED
    BY <2>1, Splice
<1>8. ASSUME NEW n \in 1 .. len
       PROVE  result[p[n]].next = IF n = k THEN new ELSE IF n = len THEN 0 ELSE p[n + 1]
  <2>1. p[n] \in 1 .. len /\ (p[n] = before <=> n = k)
    BY <1>3, <1>4, <1>5
  <2>2. QED
    BY <2>1, <1>1, <1>3
<1>9. ASSUME NEW n \in 1 .. new
       PROVE  result[q[n]].next = IF n = new THEN 0 ELSE q[n + 1]
  <2>1. CASE n < k
    <3>1. n \in 1 .. len /\ n # len /\ n # new /\ q[n] = p[n] /\ q[n + 1] = p[n + 1]
      BY <2>1, <1>1, <1>7
    <3>2. QED
      BY <3>1, <2>1, <1>8
  <2>2. CASE n = k
    <3>1. q[n] = p[n] /\ q[n + 1] = new /\ n # new
      BY <2>2, <1>1, <1>7
    <3>2. QED
      BY <3>1, <2>2, <1>8
  <2>3. CASE n = k + 1
    <3>1. q[n] = new /\ q[n + 1] = p[k + 1] /\ n # new
      <4>1. k + 1 \in k + 1 .. len
        BY <1>1, <1>6
      <4>2. QED
        BY <4>1, <2>3, <1>1, <1>6, <1>7
    <3>2. QED
      BY <3>1, <1>1, <1>6
  <2>4. CASE n > k + 1
    <3>1. n - 1 \in 1 .. len /\ n - 1 # k /\ (n - 1) + 1 = n /\ n - 1 \in k + 1 .. len
      BY <2>4, <1>1
    <3>2. q[n] = p[n - 1]
      BY <3>1, <1>7
    <3>2a. n # new => q[n + 1] = p[n]
      <4>1. n # new => n \in k + 1 .. len
        BY <2>4, <1>1
      <4>2. QED
        BY <4>1, <1>7
    <3>3. result[p[n - 1]].next = IF n - 1 = len THEN 0 ELSE p[n]
      BY <3>1, <1>8
    <3>4. n - 1 = len <=> n = new
      BY <1>1
    <3>5. QED
      BY <3>2, <3>2a, <3>3, <3>4
  <2>5. QED
    BY <2>1, <2>2, <2>3, <2>4, <1>1
<1>10. q[1] = FirstLabel
  BY <1>1, <1>2, <1>7 DEF FirstLabel
<1>11. IsOrder(q, result)
  BY <1>1, <1>7, <1>9, <1>10 DEF IsOrder
<1>12. QED
  BY <1>11

\* What the compiler may rely on after insertions behind some segments: nothing
\* else leads elsewhere, and no segment becomes another one.
Extends(list, result, befores) ==
  /\ Len(result) \in Nat
  /\ Len(result) >= Len(list)
  /\ \A s \in 1 .. Len(list) :
       /\ result[s].type = list[s].type
       /\ s \notin befores => result[s].next = list[s].next

\* What may be put into the list.
Allowed(list, type, size, to) ==
  /\ type \in Types /\ size \in Nat /\ to \in Nat
  /\ type = "code" => size <= CodeCapacity
  /\ type = "jump" => /\ size \in {NearJump, CondJump}
                      /\ to \in 1 .. Len(list)
                      /\ list[to].type = "label"

Grown(list, result, type, before, behind) ==
  /\ Good(result)
  /\ Len(result) = Len(list) + 1
  /\ Extends(list, result, {before})
  /\ result[before].next = Len(list) + 1
  /\ result[Len(list) + 1].next = behind
  /\ result[Len(list) + 1].type = type

LEMMA InsertGood ==
  ASSUME NEW list, Good(list), NEW type, NEW size, NEW to, Allowed(list, type, size, to),
         NEW before \in 1 .. Len(list), NEW behind \in 1 .. Len(list),
         list[before].next = behind
  PROVE  Grown(list, Insert(list, type, size, to, before, behind), type, before, behind)
<1>. DEFINE result == Insert(list, type, size, to, before, behind)
<1>. type \in Types /\ size \in Nat /\ to \in Nat
  BY DEF Allowed
<1>. DEFINE new == Len(list) + 1
<1>1. list \in Seq(SegmentType) /\ Len(list) \in Nat
  BY DEF Good
<1>2. Inserted(list, result, type, size, to, before, behind)
  BY <1>1, InsertFields
<1>. HIDE DEF result
<1>. USE DEF Inserted
<1>4. Sized(result)
  <2>1. ASSUME NEW s \in 1 .. Len(list)
        PROVE  /\ result[s].type = "code" => result[s].max_size <= CodeCapacity
               /\ result[s].type = "jump" => /\ result[s].max_size \in {NearJump, CondJump}
                                             /\ result[s].jump_to \in 1 .. Len(list)
                                             /\ result[result[s].jump_to].type = "label"
    <3>1. /\ list[s].type = "code" => list[s].max_size <= CodeCapacity
          /\ list[s].type = "jump" => /\ list[s].max_size \in {NearJump, CondJump}
                                      /\ list[s].jump_to \in 1 .. Len(list)
                                      /\ list[list[s].jump_to].type = "label"
      BY DEF Good, Sized
    <3>2. \A t \in 1 .. Len(list) : /\ result[t].type = list[t].type
                                    /\ result[t].max_size = list[t].max_size
                                    /\ result[t].jump_to = list[t].jump_to
      BY <1>2
    <3>3. QED
      BY <3>1, <3>2
  <2>2. /\ type = "code" => size <= CodeCapacity
        /\ type = "jump" => /\ size \in {NearJump, CondJump}
                            /\ to \in 1 .. Len(list)
                            /\ result[to].type = "label"
    BY <1>2 DEF Allowed
  <2>3. QED
    BY <2>1, <2>2, <1>1, <1>2 DEF Sized
<1>5. Linked(result)
  <2>1. ASSUME NEW s \in 1 .. Len(list)
        PROVE  /\ list[s].next # 0 => list[s].next \in 1 .. Len(list) /\ list[list[s].next].prev = s
               /\ list[s].prev # 0 => list[s].prev \in 1 .. Len(list) /\ list[list[s].prev].next = s
    BY DEF Good, Linked
  <2>2. list[behind].prev = before
    BY <2>1
  <2>3. ASSUME NEW s \in 1 .. Len(list), result[s].next # 0
        PROVE  result[s].next \in 1 .. new /\ result[result[s].next].prev = s
    <3>1. CASE s = before
      BY <3>1, <1>1, <1>2
    <3>2. CASE s # before
      <4>1. /\ list[s].next \in 1 .. Len(list)
            /\ list[list[s].next].prev = s
            /\ list[s].next # behind
        BY <3>2, <2>1, <2>2, <2>3, <1>2
      <4>2. QED
        BY <4>1, <3>2, <1>1, <1>2
    <3>3. QED
      BY <3>1, <3>2
  <2>4. ASSUME NEW s \in 1 .. Len(list), result[s].prev # 0
        PROVE  result[s].prev \in 1 .. new /\ result[result[s].prev].next = s
    <3>1. CASE s = behind
      BY <3>1, <1>1, <1>2
    <3>2. CASE s # behind
      <4>1. /\ list[s].prev \in 1 .. Len(list)
            /\ list[list[s].prev].next = s
            /\ list[s].prev # before
        BY <3>2, <2>1, <2>4, <1>2
      <4>2. QED
        BY <4>1, <3>2, <1>1, <1>2
    <3>3. QED
      BY <3>1, <3>2
  <2>5. /\ result[new].next \in 1 .. new /\ result[result[new].next].prev = new
        /\ result[new].prev \in 1 .. new /\ result[result[new].prev].next = new
    BY <1>1, <1>2
  <2>6. QED
    BY <2>3, <2>4, <2>5, <1>1, <1>2 DEF Linked
<1>6. \E q : IsOrder(q, result)
  BY <1>1, InsertOrder DEF Good, result
<1>7. Good(result)
  BY <1>1, <1>2, <1>4, <1>5, <1>6 DEF Good
<1>8. Grown(list, result, type, before, behind)
  BY <1>1, <1>2, <1>7 DEF Extends, Grown
<1>9. QED
  BY <1>8 DEF result

LEMMA ExtendsTwice ==
  ASSUME NEW list, Len(list) \in Nat, NEW middle, NEW result, NEW B, NEW C,
         Extends(list, middle, B), Extends(middle, result, C)
  PROVE  Extends(list, result, B \cup C)
<1>1. Len(middle) \in Nat /\ Len(result) \in Nat /\ Len(result) >= Len(list)
  BY DEF Extends
<1>2. ASSUME NEW s \in 1 .. Len(list)
      PROVE  /\ result[s].type = list[s].type
             /\ s \notin B \cup C => result[s].next = list[s].next
  <2>1. s \in 1 .. Len(middle)
    BY DEF Extends
  <2>2. QED
    BY <2>1 DEF Extends
<1>3. QED
  BY <1>1, <1>2 DEF Extends

\* The list remains when the sizes of code, the offsets or the final sizes change.
SameList(list, result) ==
  /\ result \in Seq(SegmentType)
  /\ Len(result) = Len(list)
  /\ \A s \in 1 .. Len(list) :
       /\ result[s].type = list[s].type
       /\ result[s].jump_to = list[s].jump_to
       /\ result[s].prev = list[s].prev
       /\ result[s].next = list[s].next
       /\ result[s].type = "code" => result[s].max_size <= CodeCapacity
       /\ result[s].type = "jump" => result[s].max_size = list[s].max_size

LEMMA SameListGood ==
  ASSUME NEW list, Good(list), NEW result, SameList(list, result)
  PROVE  /\ Good(result)
         /\ Extends(list, result, {})
         /\ \A p : IsOrder(p, list) <=> IsOrder(p, result)
<1>1. list \in Seq(SegmentType) /\ Len(list) \in Nat /\ Len(list) > 0
  BY DEF Good
<1>2. /\ result \in Seq(SegmentType) /\ Len(result) = Len(list)
  BY DEF SameList
<1>3. ASSUME NEW s \in 1 .. Len(list)
      PROVE  /\ result[s].type = list[s].type
             /\ result[s].jump_to = list[s].jump_to
             /\ result[s].prev = list[s].prev
             /\ result[s].next = list[s].next
             /\ result[s].type = "code" => result[s].max_size <= CodeCapacity
             /\ result[s].type = "jump" => result[s].max_size = list[s].max_size
  BY DEF SameList
<1>4. Sized(result)
  BY <1>2, <1>3 DEF Good, Sized
<1>5. Linked(result)
  <2>1. ASSUME NEW s \in 1 .. Len(list)
        PROVE  /\ list[s].next # 0 => list[s].next \in 1 .. Len(list) /\ list[list[s].next].prev = s
               /\ list[s].prev # 0 => list[s].prev \in 1 .. Len(list) /\ list[list[s].prev].next = s
    BY DEF Good, Linked
  <2>2. ASSUME NEW s \in 1 .. Len(list)
        PROVE  /\ result[s].next # 0 => result[s].next \in 1 .. Len(list) /\ result[result[s].next].prev = s
               /\ result[s].prev # 0 => result[s].prev \in 1 .. Len(list) /\ result[result[s].prev].next = s
    BY <2>1, <1>3
  <2>3. QED
    BY <2>2, <1>2 DEF Linked
<1>6. ASSUME NEW p, IsOrder(p, list) PROVE IsOrder(p, result)
  <2>1. ASSUME NEW n \in 1 .. Len(list) PROVE p[n] \in 1 .. Len(list)
    BY <1>6 DEF IsOrder, Permutes
  <2>2. QED
    BY <2>1, <1>2, <1>3, <1>6 DEF IsOrder
<1>7. ASSUME NEW p, IsOrder(p, result) PROVE IsOrder(p, list)
  <2>1. ASSUME NEW n \in 1 .. Len(list) PROVE p[n] \in 1 .. Len(list)
    BY <1>2, <1>7 DEF IsOrder, Permutes
  <2>2. QED
    BY <2>1, <1>2, <1>3, <1>7 DEF IsOrder
<1>8. Extends(list, result, {})
  BY <1>1, <1>2, <1>3 DEF Extends
<1>9. Good(result)
  BY <1>1, <1>2, <1>4, <1>5, <1>6 DEF Good
<1>10. QED
  BY <1>6, <1>7, <1>8, <1>9

-----------------------------------------------------------------------------
(***************************************************************************)
(* The emission of code.                                                   *)
(***************************************************************************)
\* A writer is at a piece of code right behind its label.
InFront(list, w) ==
  /\ w \in [label : 1 .. Len(list), curr : 1 .. Len(list)]
  /\ list[w.label].next = w.curr
  /\ list[w.curr].type = "code"

\* A piece of code gets another size.
LEMMA Resize ==
  ASSUME NEW list, Good(list), NEW c \in 1 .. Len(list), list[c].type = "code",
         NEW size \in 0 .. CodeCapacity
  PROVE  SameList(list, [list EXCEPT ![c].max_size = size])
<1>. DEFINE new == [list[c] EXCEPT !.max_size = size]
            result == [list EXCEPT ![c].max_size = size]
<1>1. /\ list \in Seq(SegmentType) /\ list[c] \in SegmentType
      /\ size \in Nat /\ size <= CodeCapacity
  BY SegmentsAssumption DEF Good
<1>2. /\ new \in SegmentType
      /\ new.max_size = size
      /\ new.type = list[c].type /\ new.jump_to = list[c].jump_to
      /\ new.prev = list[c].prev /\ new.next = list[c].next
  BY <1>1 DEF SegmentType
<1>3. result = [list EXCEPT ![c] = new]
  OBVIOUS
<1>. HIDE DEF new, result
<1>4. /\ result \in Seq(SegmentType)
      /\ Len(result) = Len(list)
      /\ \A s \in 1 .. Len(list) : result[s] = IF s = c THEN new ELSE list[s]
  BY <1>1, <1>2, <1>3
<1>5. ASSUME NEW s \in 1 .. Len(list)
      PROVE  /\ result[s].type = list[s].type
             /\ result[s].jump_to = list[s].jump_to
             /\ result[s].prev = list[s].prev
             /\ result[s].next = list[s].next
             /\ result[s].type = "code" => result[s].max_size <= CodeCapacity
             /\ result[s].type = "jump" => result[s].max_size = list[s].max_size
  <2>1. list[s].type = "code" => list[s].max_size <= CodeCapacity
    BY DEF Good, Sized
  <2>2. CASE s = c
    BY <2>2, <1>1, <1>2, <1>4
  <2>3. CASE s # c
    BY <2>1, <2>3, <1>4
  <2>4. QED
    BY <2>2, <2>3
<1>6. QED
  BY <1>4, <1>5 DEF SameList, result

\* What the writer "after" finds in the list "result".
Emitted(list, w, result, after) ==
  /\ Good(result)
  /\ Extends(list, result, {w.label})
  /\ InFront(result, after)
  /\ after.label = w.label

LEMMA EmitCodeGood ==
  ASSUME NEW list, Good(list), NEW w, InFront(list, w), NEW n \in 0 .. CodeCapacity
  PROVE  Emitted(list, w, EmitCode(list, w, n), AfterCode(list, w, n))
<1>. PICK result, after : result = EmitCode(list, w, n) /\ after = AfterCode(list, w, n)
  OBVIOUS
<1>. SUFFICES Emitted(list, w, result, after)
  OBVIOUS
<1>. USE DEF Emitted
<1>1. PICK label \in 1 .. Len(list), curr \in 1 .. Len(list) :
        w = [label |-> label, curr |-> curr]
  BY DEF InFront
<1>2. /\ list \in Seq(SegmentType) /\ Len(list) \in Nat
      /\ list[label].next = curr
      /\ list[curr].type = "code"
      /\ w.label = label /\ w.curr = curr
  BY <1>1 DEF Good, InFront
<1>3. PICK size \in 0 .. CodeCapacity : list[curr].max_size = size
  <2>1. list[curr] \in SegmentType
    BY <1>2
  <2>2. list[curr].max_size <= CodeCapacity
    BY <1>2 DEF Good, Sized
  <2>3. QED
    BY <2>1, <2>2, SegmentsAssumption DEF SegmentType
<1>4. CASE size + n <= CodeCapacity
  <2>1. PICK total \in 0 .. CodeCapacity : total = size + n
    BY <1>4, SegmentsAssumption
  <2>2. result = [list EXCEPT ![curr].max_size = total] /\ after = w
    BY <1>2, <1>3, <1>4, <2>1, SegmentsAssumption DEF EmitCode, AfterCode
  <2>3. Good(result) /\ Len(result) = Len(list) /\ Extends(list, result, {})
    <3>1. PICK filled : filled = [list EXCEPT ![curr].max_size = total]
      OBVIOUS
    <3>2. SameList(list, filled)
      BY <1>2, <3>1, Resize
    <3>3. QED
      BY <2>2, <3>1, <3>2, SameListGood, ZenonT(60) DEF SameList
  <2>4. QED
    BY <1>1, <1>2, <2>2, <2>3 DEF Extends, InFront
<1>5. CASE ~(size + n <= CodeCapacity)
  <2>1. PICK full : full = [list EXCEPT ![curr].max_size = CodeCapacity]
    OBVIOUS
  <2>2. PICK rest \in Nat : rest = n - (CodeCapacity - size) /\ rest <= CodeCapacity
    BY <1>5, SegmentsAssumption
  <2>3. result = Insert(full, "code", rest, 0, label, curr)
    BY <1>2, <1>3, <1>5, <2>1, <2>2, SegmentsAssumption, SMTT(30) DEF EmitCode
  <2>4. after = [label |-> label, curr |-> Len(list) + 1]
    BY <1>1, <1>2, <1>3, <1>5, SegmentsAssumption DEF AfterCode
  <2>5. Good(full) /\ Len(full) = Len(list) /\ Extends(list, full, {})
    <3>1. CodeCapacity \in 0 .. CodeCapacity
      BY SegmentsAssumption
    <3>2. SameList(list, full)
      BY <1>2, <2>1, <3>1, Resize
    <3>3. QED
      BY <3>2, SameListGood DEF SameList
  <2>6. full[label].next = curr
    BY <1>2, <2>5 DEF Extends
  <2>7. /\ Good(result)
        /\ Extends(full, result, {label})
        /\ Len(result) = Len(full) + 1
        /\ result[label].next = Len(full) + 1
        /\ result[Len(full) + 1].type = "code"
    <3>1. Allowed(full, "code", rest, 0)
      BY <2>2 DEF Allowed, Types
    <3>2. label \in 1 .. Len(full) /\ curr \in 1 .. Len(full)
      BY <2>5
    <3>3. Grown(full, result, "code", label, curr)
      BY <3>1, <3>2, <2>3, <2>5, <2>6, InsertGood
    <3>4. QED
      BY <3>3 DEF Grown
  <2>8. Extends(list, result, {label})
    BY <1>2, <2>5, <2>7 DEF Extends
  <2>9. InFront(result, after) /\ after.label = w.label
    BY <1>2, <2>4, <2>5, <2>7 DEF InFront
  <2>10. QED
    BY <1>2, <2>7, <2>8, <2>9
<1>6. QED
  BY <1>4, <1>5

\* A jump to a label, and a piece of code for what comes before it.
LEMMA EmitJumpGood ==
  ASSUME NEW list, Good(list), NEW w, InFront(list, w),
         NEW size \in {NearJump, CondJump},
         NEW to \in 1 .. Len(list), list[to].type = "label"
  PROVE  Emitted(list, w, EmitJump(list, w, size, to), AfterJump(list, w))
<1>. PICK result, after : result = EmitJump(list, w, size, to) /\ after = AfterJump(list, w)
  OBVIOUS
<1>. SUFFICES Emitted(list, w, result, after)
  OBVIOUS
<1>. USE DEF Emitted
<1>1. PICK label \in 1 .. Len(list), curr \in 1 .. Len(list) :
        w = [label |-> label, curr |-> curr]
  BY DEF InFront
<1>2. /\ Len(list) \in Nat
      /\ list[label].next = curr
      /\ list[curr].type = "code"
      /\ w.label = label /\ w.curr = curr
  BY <1>1 DEF Good, InFront
<1>3. PICK jumping : jumping = Insert(list, "jump", size, to, label, curr)
  OBVIOUS
<1>4. Grown(list, jumping, "jump", label, curr)
  <2>1. Allowed(list, "jump", size, to)
    BY DEF Allowed, Types, NearJump, CondJump
  <2>2. QED
    BY <2>1, <1>2, <1>3, InsertGood
<1>5. PICK jump \in 1 .. Len(jumping) : jump = Len(list) + 1
  BY <1>2, <1>4 DEF Grown
<1>6. result = Insert(jumping, "code", 0, 0, label, jump)
  BY <1>2, <1>3, <1>5 DEF EmitJump
<1>7. Grown(jumping, result, "code", label, jump)
  <2>1. Allowed(jumping, "code", 0, 0)
    BY SegmentsAssumption DEF Allowed, Types
  <2>2. label \in 1 .. Len(jumping)
    BY <1>2, <1>4 DEF Grown
  <2>3. Good(jumping) /\ jumping[label].next = jump
    BY <1>4, <1>5 DEF Grown
  <2>4. QED
    BY <2>1, <2>2, <2>3, <1>6, InsertGood
<1>8. Extends(list, result, {label})
  <2>1. Extends(list, result, {label} \cup {label})
    BY <1>2, <1>4, <1>7, ExtendsTwice DEF Grown
  <2>2. {label} \cup {label} = {label}
    OBVIOUS
  <2>3. QED
    BY <2>1, <2>2
<1>9. after = [label |-> label, curr |-> Len(list) + 2]
  BY <1>1 DEF AfterJump
<1>10. /\ Len(result) = Len(list) + 2
       /\ result[label].next = Len(list) + 2
       /\ result[Len(list) + 2].type = "code"
  BY <1>2, <1>4, <1>7 DEF Grown
<1>11. InFront(result, after) /\ after.label = w.label
  BY <1>2, <1>9, <1>10 DEF InFront
<1>12. QED
  BY <1>2, <1>7, <1>8, <1>11 DEF Grown

-----------------------------------------------------------------------------
(***************************************************************************)
(* The inductive invariant.                                                *)
(***************************************************************************)
Phases == {"emit", "place", "shrink", "write", "done", "exit"}

Shape ==
  /\ Good(segs)
  /\ writer \in [label : 1 .. Len(segs), curr : 1 .. Len(segs)]
  /\ segs[writer.curr].type = "code"
  /\ phase \in Phases
  /\ offset \in Nat
  /\ saved \in Nat

\* The labels of the blocks after b, which have no code yet, still follow each
\* other.
Labelled(list, b) ==
  /\ Len(list) >= ErrReturnCode
  /\ list[FirstCode].type = "code"
  /\ list[ErrReturn].type = "label"
  /\ \A c \in 1 .. NumBlocks : list[BlockLabel(c)].type = "label"
  /\ \A c \in b + 1 .. NumBlocks : list[BlockLabel(c)].next = BlockLabel(c + 1)

\* The next error exit is right before the common one.
ErrsAt(list, e) ==
  /\ e \in FirstErrs .. Len(list)
  /\ list[e].type = "label"
  /\ list[e].next = ErrReturn

EmitShape ==
  /\ block \in 1 .. NumBlocks
  /\ Labelled(segs, block)
  /\ ErrsAt(segs, errs)
  /\ InFront(segs, writer)
  /\ writer.label = BlockLabel(block)
  /\ offset = 0
  /\ saved = 0

\* The first walk has placed what comes before the kth segment.
Placed(p, k) ==
  /\ k = 1 => offset = 0
  /\ k > 1 => segs[p[1]].offset = 0
  /\ \A n \in 1 .. k - 1 :
       segs[p[n]].offset + segs[p[n]].max_size =
         IF n = k - 1 THEN offset ELSE segs[p[n + 1]].offset

\* Where the nth segment comes to lie if nothing from the kth on gets shorter,
\* and the size it then has.
Position(p, k, n) ==
  IF n = Len(segs) + 1 THEN offset - saved
  ELSE IF n < k THEN segs[p[n]].offset ELSE segs[p[n]].offset - saved
Extent(p, k, n) == IF n < k THEN Length(p[n]) ELSE segs[p[n]].max_size

\* The second walk has moved what comes before the kth segment: there is no gap,
\* and a jump was left out only if nothing is between it and its label.
Shrunk(p, k) ==
  /\ Position(p, k, 1) = 0
  /\ \A n \in 1 .. Len(segs) : Position(p, k, n) + Extent(p, k, n) = Position(p, k, n + 1)
  /\ \A n \in 1 .. k - 1 :
       /\ segs[p[n]].type = "jump"
       /\ segs[p[n]].final_size = 0
       => \A m \in 1 .. Len(segs) :
            segs[p[n]].jump_to = p[m] => Position(p, k, m) = Position(p, k, n)

Walked(p) ==
  /\ phase = "place" =>
       \E k \in 1 .. Len(segs) : segment = p[k] /\ saved = 0 /\ Placed(p, k)
  /\ phase = "shrink" =>
       \E k \in 1 .. Len(segs) : segment = p[k] /\ Shrunk(p, k)
  /\ phase \in {"write", "done"} => Shrunk(p, Len(segs) + 1)

IInv ==
  /\ Shape
  /\ Emitting => EmitShape
  /\ \A p : IsOrder(p, segs) => Walked(p)

-----------------------------------------------------------------------------
(***************************************************************************)
(* Emitting.                                                               *)
(***************************************************************************)
LEMMA LabelledStays ==
  ASSUME NEW list, Len(list) \in Nat, NEW b \in Nat, Labelled(list, b),
         NEW result, NEW B, Extends(list, result, B),
         NEW d \in Nat, d >= b,
         \A c \in d + 1 .. NumBlocks : BlockLabel(c) \notin B
  PROVE  Labelled(result, d)
<1>1. NumBlocks \in Nat /\ \A c \in 1 .. NumBlocks : BlockLabel(c) \in 1 .. Len(list)
  BY SegmentsAssumption DEF Labelled, BlockLabel, ErrReturnCode
<1>2. FirstCode \in 1 .. Len(list) /\ ErrReturn \in 1 .. Len(list)
  BY SegmentsAssumption DEF Labelled, FirstCode, ErrReturn, ErrReturnCode
<1>3. Len(result) >= ErrReturnCode
  BY SegmentsAssumption DEF Labelled, Extends, ErrReturnCode
<1>4. ASSUME NEW c \in d + 1 .. NumBlocks PROVE result[BlockLabel(c)].next = BlockLabel(c + 1)
  <2>1. c \in b + 1 .. NumBlocks /\ c \in 1 .. NumBlocks
    BY <1>1
  <2>2. QED
    BY <2>1, <1>1 DEF Labelled, Extends
<1>5. QED
  BY <1>1, <1>2, <1>3, <1>4 DEF Labelled, Extends

LEMMA ErrsStay ==
  ASSUME NEW list, Len(list) \in Nat, NEW e, ErrsAt(list, e),
         NEW result, NEW B, Extends(list, result, B), e \notin B
  PROVE  ErrsAt(result, e)
<1>1. e \in 1 .. Len(list)
  BY SegmentsAssumption DEF ErrsAt, FirstErrs
<1>2. QED
  BY <1>1, SegmentsAssumption DEF ErrsAt, Extends, FirstErrs

\* A new block: a piece of code right behind its label.
LEMMA BeginBlockGood ==
  ASSUME NEW list, Good(list), NEW b \in 1 .. NumBlocks, NEW c \in Nat, c < b,
         Labelled(list, c),
         NEW result, result = BeginBlock(list, b),
         NEW w, w = [label |-> BlockLabel(b), curr |-> Len(list) + 1]
  PROVE  /\ Good(result)
         /\ Len(result) = Len(list) + 1
         /\ Extends(list, result, {BlockLabel(b)})
         /\ Labelled(result, b)
         /\ InFront(result, w)
<1>1. Len(list) \in Nat /\ NumBlocks \in Nat
  BY SegmentsAssumption DEF Good
<1>2. PICK before \in 1 .. Len(list), behind \in 1 .. Len(list) :
        before = BlockLabel(b) /\ behind = BlockLabel(b + 1)
  BY <1>1 DEF Labelled, BlockLabel, ErrReturnCode
<1>3. list[before].next = behind
  BY <1>1, <1>2 DEF Labelled
<1>4. result = Insert(list, "code", 0, 0, before, behind)
  BY <1>1, <1>2 DEF BeginBlock, FirstErrs, BlockLabel
<1>5. Grown(list, result, "code", before, behind)
  <2>1. Allowed(list, "code", 0, 0)
    BY SegmentsAssumption DEF Allowed, Types
  <2>2. QED
    BY <2>1, <1>3, <1>4, InsertGood
<1>6. Labelled(result, b)
  <2>1. \A d \in b + 1 .. NumBlocks : BlockLabel(d) \notin {before}
    BY <1>1, <1>2 DEF BlockLabel
  <2>2. QED
    BY <2>1, <1>1, <1>5, LabelledStays DEF Grown
<1>7. InFront(result, w)
  BY <1>1, <1>2, <1>5 DEF InFront, Grown
<1>8. QED
  BY <1>2, <1>5, <1>6, <1>7 DEF Grown

LEMMA SkeletonGood ==
  /\ Good(Skeleton)
  /\ Len(Skeleton) = ErrReturnCode
  /\ Labelled(Skeleton, 0)
  /\ ErrsAt(Skeleton, FirstErrs)
<1>. DEFINE len == ErrReturnCode
            Size(s) == IF s = ErrReturnCode THEN ErrReturnSize ELSE 0
            Type(s) == IF s \in {FirstCode, ErrReturnCode} THEN "code" ELSE "label"
            Behind(s) == IF s = ErrReturnCode THEN 0 ELSE s + 1
<1>1. NumBlocks \in Nat \ {0} /\ len = NumBlocks + 5
      /\ ErrReturnSize \in Nat /\ ErrReturnSize <= CodeCapacity /\ CodeCapacity \in Nat
  BY SegmentsAssumption DEF ErrReturnCode
<1>2. \A s \in 1 .. len :
        /\ Skeleton[s] \in SegmentType
        /\ Skeleton[s].type = Type(s)
        /\ Skeleton[s].max_size = Size(s)
        /\ Skeleton[s].prev = s - 1
        /\ Skeleton[s].next = Behind(s)
  BY <1>1 DEF Skeleton, NewSegment, SegmentType, Types
<1>3. Skeleton \in Seq(SegmentType) /\ Len(Skeleton) = len
  <2>1. Skeleton = [s \in 1 .. len |-> Skeleton[s]]
    BY DEF Skeleton
  <2>2. len \in Nat
    BY <1>1
  <2>. HIDE DEF len
  <2>3. QED
    BY <1>2, <2>1, <2>2
<1>. HIDE DEF len
<1>4. Sized(Skeleton)
  <2>1. ASSUME NEW s \in 1 .. len
        PROVE  /\ Skeleton[s].type # "jump"
               /\ Skeleton[s].max_size <= CodeCapacity
    BY <1>1, <1>2
  <2>2. QED
    BY <2>1, <1>3 DEF Sized
<1>5. Linked(Skeleton)
  <2>1. ASSUME NEW s \in 1 .. len, Skeleton[s].next # 0
        PROVE  Skeleton[s].next \in 1 .. len /\ Skeleton[Skeleton[s].next].prev = s
    <3>1. Skeleton[s].next = s + 1 /\ s + 1 \in 1 .. len
      BY <2>1, <1>1, <1>2 DEF len
    <3>2. QED
      BY <3>1, <1>2
  <2>2. ASSUME NEW s \in 1 .. len, Skeleton[s].prev # 0
        PROVE  Skeleton[s].prev \in 1 .. len /\ Skeleton[Skeleton[s].prev].next = s
    <3>1. Skeleton[s].prev = s - 1 /\ s - 1 \in 1 .. len /\ s - 1 # ErrReturnCode
      BY <2>2, <1>1, <1>2 DEF len
    <3>2. QED
      BY <3>1, <1>2
  <2>3. QED
    BY <2>1, <2>2, <1>3 DEF Linked
<1>6. IsOrder([n \in 1 .. len |-> n], Skeleton)
  <2>. DEFINE id == [n \in 1 .. len |-> n]
  <2>1. \A n \in 1 .. len : id[n] = n
    OBVIOUS
  <2>2. Permutes(id, len)
    BY <2>1 DEF Permutes
  <2>. HIDE DEF id
  <2>3. id[1] = FirstLabel
    BY <1>1, <2>1 DEF FirstLabel
  <2>4. \A n \in 1 .. len : Skeleton[id[n]].next = IF n = len THEN 0 ELSE id[n + 1]
    BY <1>1, <1>2, <2>1 DEF len
  <2>5. IsOrder(id, Skeleton)
    BY <1>3, <2>2, <2>3, <2>4 DEF IsOrder
  <2>6. QED
    BY <2>5 DEF id
<1>7. Good(Skeleton)
  BY <1>1, <1>3, <1>4, <1>5, <1>6 DEF Good
<1>8. Labelled(Skeleton, 0)
  <2>1. ASSUME NEW c \in 1 .. NumBlocks
        PROVE  /\ Skeleton[BlockLabel(c)].type = "label"
               /\ Skeleton[BlockLabel(c)].next = BlockLabel(c + 1)
    <3>1. PICK s \in 1 .. len : s = BlockLabel(c) /\ s # ErrReturnCode /\ s # FirstCode
      BY <1>1 DEF BlockLabel, FirstCode, len
    <3>2. BlockLabel(c + 1) = s + 1
      BY <3>1 DEF BlockLabel
    <3>3. QED
      BY <3>1, <3>2, <1>2
  <2>2. Skeleton[FirstCode].type = "code"
    <3>1. FirstCode \in 1 .. len
      BY <1>1 DEF FirstCode
    <3>2. QED
      BY <3>1, <1>2
  <2>3. Skeleton[ErrReturn].type = "label"
    <3>1. ErrReturn \in 1 .. len /\ ErrReturn \notin {FirstCode, ErrReturnCode}
      BY <1>1 DEF ErrReturn, FirstCode, len
    <3>2. QED
      BY <3>1, <1>2
  <2>4. Len(Skeleton) >= ErrReturnCode
    BY <1>1, <1>3 DEF len
  <2>5. QED
    BY <2>1, <2>2, <2>3, <2>4, <1>1 DEF Labelled
<1>9. ErrsAt(Skeleton, FirstErrs)
  <2>1. PICK s \in 1 .. len : s = FirstErrs /\ s # ErrReturnCode /\ s # FirstCode
    BY <1>1 DEF FirstErrs, FirstCode, len
  <2>2. s + 1 = ErrReturn
    BY <2>1, <1>1 DEF FirstErrs, ErrReturn
  <2>3. QED
    BY <2>1, <2>2, <1>1, <1>2, <1>3 DEF ErrsAt
<1>10. QED
  BY <1>3, <1>7, <1>8, <1>9 DEF len

LEMMA InitIInv == Init => IInv
<1>. SUFFICES ASSUME Init PROVE IInv
  OBVIOUS
<1>1. NumBlocks \in Nat /\ 1 \in 1 .. NumBlocks /\ Len(Skeleton) = NumBlocks + 5
  BY SegmentsAssumption, SkeletonGood DEF ErrReturnCode
<1>2. /\ segs = BeginBlock(Skeleton, 1)
      /\ writer = [label |-> BlockLabel(1), curr |-> Len(Skeleton) + 1]
      /\ block = 1 /\ errs = FirstErrs /\ phase = "emit" /\ offset = 0 /\ saved = 0
  BY SkeletonGood DEF Init
<1>3. /\ Good(segs)
      /\ Len(segs) = Len(Skeleton) + 1
      /\ Extends(Skeleton, segs, {BlockLabel(1)})
      /\ Labelled(segs, 1)
      /\ InFront(segs, writer)
  <2>1. 0 \in Nat /\ 0 < 1 /\ Good(Skeleton) /\ Labelled(Skeleton, 0)
    BY SkeletonGood
  <2>2. QED
    BY <2>1, <1>1, <1>2, BeginBlockGood, Zenon
<1>4. ErrsAt(segs, errs)
  <2>1. FirstErrs \notin {BlockLabel(1)}
    BY <1>1 DEF FirstErrs, BlockLabel
  <2>2. QED
    BY <2>1, <1>1, <1>2, <1>3, SkeletonGood, ErrsStay
<1>5. Shape
  BY <1>2, <1>3 DEF Shape, InFront, Phases
<1>6. EmitShape
  BY <1>1, <1>2, <1>3, <1>4 DEF EmitShape
<1>7. QED
  BY <1>2, <1>5, <1>6 DEF IInv, Walked

\* Anything that is emitted through the writer, behind the label of the block.
LEMMA EmittedIInv ==
  ASSUME IInv, Emitting, Good(segs'), Extends(segs, segs', {writer.label}),
         InFront(segs', writer'), writer'.label = writer.label,
         UNCHANGED <<block, errs, phase, offset, saved>>
  PROVE  IInv'
<1>1. Shape /\ EmitShape /\ Len(segs) \in Nat /\ NumBlocks \in Nat /\ block \in Nat
  BY SegmentsAssumption DEF IInv, Shape, Good, EmitShape
<1>2. Labelled(segs', block)
  <2>1. \A c \in block + 1 .. NumBlocks : BlockLabel(c) \notin {writer.label}
    BY <1>1 DEF EmitShape, BlockLabel
  <2>2. QED
    BY <2>1, <1>1, LabelledStays DEF EmitShape
<1>3. ErrsAt(segs', errs)
  <2>1. errs \notin {writer.label}
    BY <1>1 DEF EmitShape, ErrsAt, FirstErrs, BlockLabel
  <2>2. QED
    BY <2>1, <1>1, ErrsStay DEF EmitShape
<1>4. Shape'
  BY <1>1 DEF Shape, InFront
<1>5. EmitShape'
  BY <1>1, <1>2, <1>3 DEF EmitShape, Labelled, ErrsAt, InFront
<1>6. QED
  BY <1>4, <1>5 DEF IInv, Walked, Emitting

(***************************************************************************)
(* One lemma per action.                                                   *)
(***************************************************************************)
\* What the invariant says of the segments and the writer while code is emitted.
LEMMA WriterReady ==
  ASSUME IInv, Emitting
  PROVE  /\ Good(segs) /\ Len(segs) \in Nat
         /\ InFront(segs, writer)
         /\ errs \in 1 .. Len(segs) /\ segs[errs].type = "label"
         /\ \A b \in 1 .. NumBlocks : /\ BlockLabel(b) \in 1 .. Len(segs)
                                      /\ segs[BlockLabel(b)].type = "label"
<1>1. Good(segs) /\ InFront(segs, writer) /\ Labelled(segs, block) /\ ErrsAt(segs, errs)
  BY DEF IInv, Shape, EmitShape
<1>2. PICK blocks \in Nat, len \in Nat : blocks = NumBlocks /\ len = Len(segs)
  <2>1. NumBlocks \in Nat
    BY SegmentsAssumption
  <2>2. Len(segs) \in Nat
    BY <1>1 DEF Good
  <2>3. QED
    BY <2>1, <2>2
<1>3. 5 + blocks <= len
  BY <1>1, <1>2 DEF Labelled, ErrReturnCode
<1>4. errs \in 1 .. Len(segs) /\ segs[errs].type = "label"
  BY <1>1, <1>2 DEF ErrsAt, FirstErrs
<1>5. ASSUME NEW b \in 1 .. NumBlocks
      PROVE  BlockLabel(b) \in 1 .. Len(segs) /\ segs[BlockLabel(b)].type = "label"
  <2>1. BlockLabel(b) \in 1 .. Len(segs)
    BY <1>2, <1>3 DEF BlockLabel
  <2>2. QED
    BY <2>1, <1>1 DEF Labelled
<1>6. QED
  BY <1>1, <1>2, <1>4, <1>5

LEMMA ReturnIInv ==
  ASSUME IInv, Return
  PROVE  IInv'
<1>1. Emitting
  BY DEF Return, Terminator
<1>2. PICK n \in 0 .. CodeCapacity : n = ReturnSize
  BY SegmentsAssumption
<1>3. /\ segs' = EmitCode(segs, writer, n)
      /\ writer' = AfterCode(segs, writer, n)
      /\ UNCHANGED <<block, errs, phase, offset, saved>>
  BY <1>2 DEF Return, Terminator
<1>4. Emitted(segs, writer, segs', writer')
  BY <1>1, <1>2, <1>3, WriterReady, EmitCodeGood
<1>5. QED
  BY <1>1, <1>3, <1>4, EmittedIInv DEF Emitted

LEMMA InstructionsIInv ==
  ASSUME IInv, NEW n \in Sizes, Instructions(n)
  PROVE  IInv'
<1>1. Emitting
  BY DEF Instructions, Emission
<1>2. n \in 0 .. CodeCapacity
  BY SegmentsAssumption
<1>3. /\ segs' = EmitCode(segs, writer, n)
      /\ writer' = AfterCode(segs, writer, n)
      /\ UNCHANGED <<block, errs, phase, offset, saved>>
  BY DEF Instructions, Emission
<1>4. Emitted(segs, writer, segs', writer')
  BY <1>1, <1>2, <1>3, WriterReady, EmitCodeGood
<1>5. QED
  BY <1>1, <1>3, <1>4, EmittedIInv DEF Emitted

LEMMA BranchIInv ==
  ASSUME IInv, NEW b \in 1 .. NumBlocks, Branch(b)
  PROVE  IInv'
<1>1. Emitting
  BY DEF Branch, Terminator
<1>2. PICK to \in 1 .. Len(segs) : to = BlockLabel(b) /\ segs[to].type = "label"
  BY <1>1, WriterReady
<1>3. /\ segs' = EmitJump(segs, writer, NearJump, to)
      /\ writer' = AfterJump(segs, writer)
      /\ UNCHANGED <<block, errs, phase, offset, saved>>
  BY <1>2 DEF Branch, Terminator
<1>4. Emitted(segs, writer, segs', writer')
  BY <1>1, <1>2, <1>3, WriterReady, EmitJumpGood
<1>5. QED
  BY <1>1, <1>3, <1>4, EmittedIInv DEF Emitted

LEMMA CBranchIInv ==
  ASSUME IInv, NEW t \in 1 .. NumBlocks, NEW f \in 1 .. NumBlocks,
         NEW n \in Sizes \cup {0}, CBranch(t, f, n)
  PROVE  IInv'
<1>1. Emitting
  BY DEF CBranch, Terminator
<1>2. n \in 0 .. CodeCapacity
  BY SegmentsAssumption
<1>3. PICK to \in 1 .. Len(segs) : to = BlockLabel(t) /\ segs[to].type = "label"
  BY <1>1, WriterReady
<1>4. PICK first, w1 : /\ first = EmitJump(segs, writer, CondJump, to)
                       /\ w1 = AfterJump(segs, writer)
  OBVIOUS
<1>5. PICK moves, w2 : moves = EmitCode(first, w1, n) /\ w2 = AfterCode(first, w1, n)
  OBVIOUS
<1>6. Emitted(segs, writer, first, w1)
  BY <1>1, <1>3, <1>4, WriterReady, EmitJumpGood
<1>7. Emitted(first, w1, moves, w2)
  BY <1>2, <1>5, <1>6, EmitCodeGood DEF Emitted
<1>8. Extends(segs, moves, {writer.label} \cup {writer.label})
  BY <1>1, <1>6, <1>7, WriterReady, ExtendsTwice DEF Emitted, Good
<1>9. PICK other \in 1 .. Len(moves) : other = BlockLabel(f) /\ moves[other].type = "label"
  BY <1>1, <1>8, WriterReady DEF Extends
<1>10. /\ segs' = EmitJump(moves, w2, CondJump, other)
       /\ writer' = AfterJump(moves, w2)
       /\ UNCHANGED <<block, errs, phase, offset, saved>>
  BY <1>3, <1>4, <1>5, <1>9 DEF CBranch, Terminator
<1>11. Emitted(moves, w2, segs', writer')
  BY <1>7, <1>9, <1>10, EmitJumpGood DEF Emitted
<1>12. Extends(segs, segs', {writer.label})
  <2>1. Extends(segs, segs', ({writer.label} \cup {writer.label}) \cup {writer.label})
    BY <1>1, <1>6, <1>7, <1>8, <1>11, WriterReady, ExtendsTwice DEF Emitted, Good
  <2>2. ({writer.label} \cup {writer.label}) \cup {writer.label} = {writer.label}
    OBVIOUS
  <2>3. QED
    BY <2>1, <2>2
<1>13. QED
  BY <1>1, <1>6, <1>7, <1>10, <1>11, <1>12, EmittedIInv DEF Emitted

LEMMA NextBlockIInv ==
  ASSUME IInv, NextBlock
  PROVE  IInv'
<1>1. /\ Emitting
      /\ block' = block + 1
      /\ segs' = BeginBlock(segs, block + 1)
      /\ writer' = [label |-> BlockLabel(block + 1), curr |-> Len(segs')]
      /\ UNCHANGED <<errs, phase, offset, saved>>
  BY DEF NextBlock
<1>2. /\ Good(segs) /\ Len(segs) \in Nat /\ EmitShape /\ NumBlocks \in Nat
      /\ Shape /\ block \in Nat
  BY <1>1, SegmentsAssumption DEF IInv, Shape, EmitShape, Good
<1>3. PICK b \in 1 .. NumBlocks : b = block + 1
  BY <1>2 DEF NextBlock, EmitShape
<1>4. PICK w : w = [label |-> BlockLabel(b), curr |-> Len(segs) + 1]
  OBVIOUS
<1>5. /\ Good(segs')
      /\ Len(segs') = Len(segs) + 1
      /\ Extends(segs, segs', {BlockLabel(b)})
      /\ Labelled(segs', b)
      /\ InFront(segs', w)
  <2>1. segs' = BeginBlock(segs, b) /\ block < b
    BY <1>1, <1>2, <1>3
  <2>2. QED
    BY <2>1, <1>2, <1>4, BeginBlockGood DEF EmitShape
<1>6. writer' = w
  BY <1>1, <1>3, <1>4, <1>5
<1>7. ErrsAt(segs', errs)
  <2>1. errs \notin {BlockLabel(b)}
    BY <1>2, <1>3 DEF EmitShape, ErrsAt, FirstErrs, BlockLabel
  <2>2. QED
    BY <2>1, <1>2, <1>5, ErrsStay DEF EmitShape
<1>8. Shape'
  BY <1>1, <1>2, <1>5, <1>6 DEF Shape, InFront
<1>9. EmitShape'
  <2>1. Labelled(segs, block)'
    <3>1. block' = b
      BY <1>1, <1>3
    <3>2. QED
      BY <3>1, <1>5 DEF Labelled
  <2>2. ErrsAt(segs, errs)'
    BY <1>1, <1>3, <1>7 DEF ErrsAt
  <2>3. InFront(segs, writer)'
    BY <1>5, <1>6 DEF InFront
  <2>4. writer'.label = BlockLabel(b)
    BY <1>4, <1>6
  <2>5. QED
    BY <2>1, <2>2, <2>3, <2>4, <1>1, <1>2, <1>3 DEF EmitShape
<1>10. QED
  BY <1>1, <1>8, <1>9 DEF IInv, Walked, Emitting

LEMMA AssertIInv ==
  ASSUME IInv, Assert
  PROVE  IInv'
<1>1. Emitting /\ UNCHANGED <<block, phase, offset, saved>>
  BY DEF Assert, Emission
<1>2. /\ Good(segs) /\ Len(segs) \in Nat /\ Shape /\ EmitShape
      /\ NumBlocks \in Nat /\ block \in Nat
  BY <1>1, SegmentsAssumption DEF IInv, Shape, EmitShape, Good
<1>3. PICK e \in 1 .. Len(segs), ret \in 1 .. Len(segs) :
        /\ e = errs /\ ret = ErrReturn
        /\ segs[e].type = "label" /\ segs[e].next = ret
        /\ segs[ret].type = "label"
        /\ e # writer.label
  <2>1. ErrReturn \in 1 .. Len(segs)
    BY <1>2 DEF EmitShape, Labelled, ErrReturn, ErrReturnCode
  <2>2. errs # writer.label
    BY <1>2 DEF EmitShape, ErrsAt, FirstErrs, BlockLabel
  <2>3. QED
    BY <1>1, <1>2, <2>1, <2>2, WriterReady DEF EmitShape, ErrsAt, Labelled
<1>4. PICK exit, one : /\ exit = [label |-> e, curr |-> Len(segs) + 1]
                       /\ one = Insert(segs, "code", 0, 0, e, ret)
  OBVIOUS
<1>5. Grown(segs, one, "code", e, ret)
  <2>1. Allowed(segs, "code", 0, 0)
    BY SegmentsAssumption DEF Allowed, Types
  <2>2. QED
    BY <2>1, <1>2, <1>3, <1>4, InsertGood
<1>6. InFront(one, exit)
  BY <1>2, <1>3, <1>4, <1>5 DEF Grown, InFront
<1>7. PICK exited, e2 : exited = EmitJump(one, exit, NearJump, ret) /\ e2 = AfterJump(one, exit)
  OBVIOUS
<1>8. Emitted(one, exit, exited, e2)
  <2>1. ret \in 1 .. Len(one) /\ one[ret].type = "label"
    BY <1>2, <1>3, <1>5 DEF Grown, Extends
  <2>2. QED
    BY <2>1, <1>5, <1>6, <1>7, EmitJumpGood DEF Grown
<1>9. Extends(segs, exited, {e} \cup {e})
  <2>1. exit.label = e
    BY <1>4
  <2>2. QED
    BY <2>1, <1>2, <1>5, <1>8, ExtendsTwice DEF Grown, Emitted
<1>10. InFront(exited, writer)
  <2>1. InFront(segs, writer)
    BY <1>2 DEF EmitShape
  <2>2. QED
    BY <2>1, <1>2, <1>3, <1>9 DEF InFront, Extends
<1>11. PICK jumping, w : jumping = EmitJump(exited, writer, CondJump, e) /\ w = AfterJump(exited, writer)
  OBVIOUS
<1>12. Emitted(exited, writer, jumping, w)
  <2>1. e \in 1 .. Len(exited) /\ exited[e].type = "label"
    BY <1>2, <1>3, <1>9 DEF Extends
  <2>2. QED
    BY <2>1, <1>8, <1>10, <1>11, EmitJumpGood DEF Emitted
<1>13. PICK n \in 0 .. CodeCapacity : n = AssertSize
  BY SegmentsAssumption
<1>14. PICK compared, w2 : compared = EmitCode(jumping, w, n) /\ w2 = AfterCode(jumping, w, n)
  OBVIOUS
<1>15. Emitted(jumping, w, compared, w2)
  BY <1>12, <1>13, <1>14, EmitCodeGood, ZenonT(40) DEF Emitted
<1>16. /\ segs' = Insert(compared, "label", 0, 0, exit.curr, ret)
       /\ writer' = w2
       /\ errs' = Len(segs')
  BY <1>1, <1>3, <1>4, <1>7, <1>11, <1>13, <1>14 DEF Assert
<1>17. Extends(one, compared, {e} \cup {writer.label} \cup {writer.label})
  <2>1. Extends(one, exited, {e}) /\ Extends(exited, jumping, {writer.label})
        /\ Extends(jumping, compared, {writer.label})
    BY <1>4, <1>8, <1>12, <1>15 DEF Emitted
  <2>2. Len(one) \in Nat
    BY <1>5 DEF Grown, Extends
  <2>3. Extends(one, jumping, {e} \cup {writer.label})
    BY <2>1, <2>2, ExtendsTwice
  <2>4. QED
    BY <2>1, <2>2, <2>3, ExtendsTwice
<1>18. PICK before \in 1 .. Len(compared) :
         /\ before = Len(segs) + 1
         /\ compared[before].next = ret
         /\ before # e /\ before # writer.label
         /\ ret \in 1 .. Len(compared)
  <2>1. /\ Len(segs) + 1 \in 1 .. Len(one) /\ Len(one) = Len(segs) + 1
        /\ one[Len(segs) + 1].next = ret
    BY <1>2, <1>5 DEF Grown
  <2>2. writer.label \in 1 .. Len(segs)
    BY <1>2 DEF EmitShape, InFront
  <2>3. QED
    BY <2>1, <2>2, <1>2, <1>3, <1>17 DEF Extends
<1>19. Grown(compared, segs', "label", before, ret)
  <2>1. Allowed(compared, "label", 0, 0)
    BY DEF Allowed, Types
  <2>2. segs' = Insert(compared, "label", 0, 0, before, ret)
    BY <1>4, <1>16, <1>18
  <2>3. QED
    BY <2>1, <2>2, <1>15, <1>18, InsertGood DEF Emitted
<1>20. InFront(segs', writer') /\ writer'.label = writer.label
  <2>1. InFront(compared, w2) /\ w2.label = writer.label /\ Len(compared) \in Nat
    BY <1>12, <1>15 DEF Emitted, Extends
  <2>2. PICK label \in 1 .. Len(compared), curr \in 1 .. Len(compared) :
          /\ w2 = [label |-> label, curr |-> curr]
          /\ label = writer.label
          /\ compared[label].next = curr
          /\ compared[curr].type = "code"
    BY <2>1 DEF InFront
  <2>3. /\ Len(segs') = Len(compared) + 1
        /\ segs'[label].next = curr
        /\ segs'[curr].type = "code"
    BY <2>1, <2>2, <1>18, <1>19 DEF Grown, Extends
  <2>4. InFront(segs', w2)
    BY <2>1, <2>2, <2>3 DEF InFront
  <2>5. QED
    BY <2>1, <2>4, <1>16
<1>21. Labelled(segs', block)
  <2>1. Extends(segs, segs', ({e} \cup ({e} \cup {writer.label} \cup {writer.label})) \cup {before})
    <3>1. Extends(segs, compared, {e} \cup ({e} \cup {writer.label} \cup {writer.label}))
      BY <1>2, <1>5, <1>17, ExtendsTwice DEF Grown
    <3>2. QED
      BY <3>1, <1>2, <1>19, ExtendsTwice DEF Grown
  <2>2. ASSUME NEW c \in block + 1 .. NumBlocks
        PROVE  /\ BlockLabel(c) # e
               /\ BlockLabel(c) # writer.label
               /\ BlockLabel(c) # before
    BY <1>2, <1>3, <1>18 DEF EmitShape, ErrsAt, FirstErrs, BlockLabel, Labelled, ErrReturnCode
  <2>3. QED
    BY <2>1, <2>2, <1>2, LabelledStays DEF EmitShape
<1>22. ErrsAt(segs', errs')
  <2>1. /\ errs' = Len(compared) + 1 /\ Len(segs') = Len(compared) + 1
        /\ segs'[errs'].type = "label" /\ segs'[errs'].next = ErrReturn
    BY <1>3, <1>16, <1>19 DEF Grown
  <2>2. FirstErrs <= errs' /\ errs' \in Nat
    BY <2>1, <1>2, <1>18 DEF EmitShape, Labelled, ErrReturnCode, FirstErrs
  <2>3. QED
    BY <2>1, <2>2, <1>2 DEF ErrsAt, FirstErrs
<1>23. Shape'
  BY <1>1, <1>2, <1>19, <1>20 DEF Shape, InFront, Grown
<1>24. EmitShape'
  BY <1>1, <1>2, <1>20, <1>21, <1>22 DEF EmitShape, InFront, Labelled, ErrsAt
<1>25. QED
  BY <1>1, <1>23, <1>24 DEF IInv, Walked, Emitting

LEMMA MissingIInv ==
  ASSUME IInv, Missing
  PROVE  IInv'
<1>1. phase' = "exit" /\ UNCHANGED <<segs, writer, offset, saved>>
  BY DEF Missing
<1>2. Shape'
  BY <1>1 DEF IInv, Shape, Phases
<1>3. QED
  BY <1>1, <1>2 DEF IInv, Emitting, Walked

LEMMA PrologueIInv ==
  ASSUME IInv, Prologue
  PROVE  IInv'
<1>1. /\ Emitting
      /\ phase' = "place"
      /\ segs' = [segs EXCEPT ![FirstCode].max_size = PrologueSize]
      /\ writer' = [label |-> FirstLabel, curr |-> FirstCode]
      /\ segment' = FirstLabel
      /\ UNCHANGED <<offset, saved>>
  BY DEF Prologue
<1>2. Good(segs) /\ Len(segs) \in Nat /\ Len(segs) > 0 /\ EmitShape /\ Shape
  BY <1>1 DEF IInv, Shape, Good
<1>3. PICK c \in 1 .. Len(segs), n \in 0 .. CodeCapacity :
        c = FirstCode /\ n = PrologueSize /\ segs[c].type = "code"
  BY <1>2, SegmentsAssumption DEF EmitShape, Labelled, FirstCode, ErrReturnCode
<1>4. PICK result : result = [segs EXCEPT ![c].max_size = n]
  OBVIOUS
<1>5. segs' = result
  BY <1>1, <1>3, <1>4
<1>6. SameList(segs, result)
  BY <1>2, <1>3, <1>4, Resize
<1>7. Good(segs') /\ Len(segs') = Len(segs) /\ segs'[c].type = "code"
  BY <1>2, <1>3, <1>5, <1>6, SameListGood DEF SameList
<1>8. Shape'
  <2>1. writer' \in [label : 1 .. Len(segs'), curr : 1 .. Len(segs')]
    BY <1>1, <1>2, <1>3, <1>7 DEF FirstLabel
  <2>2. QED
    BY <2>1, <1>1, <1>2, <1>3, <1>7 DEF Shape, Phases
<1>9. ASSUME NEW p, IsOrder(p, segs') PROVE Walked(p)'
  <2>1. 1 \in 1 .. Len(segs') /\ segment' = p[1] /\ saved' = 0 /\ offset' = 0
    BY <1>1, <1>2, <1>7, <1>9 DEF EmitShape, IsOrder
  <2>2. Placed(p, 1)'
    BY <2>1 DEF Placed
  <2>3. QED
    BY <2>1, <2>2, <1>1 DEF Walked
<1>10. QED
  BY <1>1, <1>8, <1>9 DEF IInv, Emitting

-----------------------------------------------------------------------------
(***************************************************************************)
(* The walks of stitch_segments.                                           *)
(***************************************************************************)
\* One segment gets an offset and a final size.
Moved(list, result, s, at, size) ==
  /\ SameList(list, result)
  /\ result[s].offset = at
  /\ result[s].final_size = size
  /\ \A i \in 1 .. Len(list) : /\ result[i].max_size = list[i].max_size
                               /\ i # s => /\ result[i].offset = list[i].offset
                                           /\ result[i].final_size = list[i].final_size

LEMMA MovedBy ==
  ASSUME NEW list, Good(list), NEW s \in 1 .. Len(list), NEW new \in SegmentType,
         new.type = list[s].type, new.max_size = list[s].max_size,
         new.jump_to = list[s].jump_to, new.prev = list[s].prev, new.next = list[s].next
  PROVE  Moved(list, [list EXCEPT ![s] = new], s, new.offset, new.final_size)
<1>. DEFINE result == [list EXCEPT ![s] = new]
<1>1. list \in Seq(SegmentType) /\ Len(list) \in Nat
  BY DEF Good
<1>2. /\ result \in Seq(SegmentType)
      /\ Len(result) = Len(list)
      /\ \A i \in 1 .. Len(list) : result[i] = IF i = s THEN new ELSE list[i]
  BY <1>1
<1>. HIDE DEF result
<1>3. ASSUME NEW i \in 1 .. Len(list)
      PROVE  /\ result[i].type = list[i].type
             /\ result[i].jump_to = list[i].jump_to
             /\ result[i].prev = list[i].prev
             /\ result[i].next = list[i].next
             /\ result[i].max_size = list[i].max_size
  <2>1. CASE i = s
    BY <2>1, <1>2
  <2>2. CASE i # s
    BY <2>2, <1>2
  <2>3. QED
    BY <2>1, <2>2
<1>4. SameList(list, result)
  <2>1. \A i \in 1 .. Len(list) : list[i].type = "code" => list[i].max_size <= CodeCapacity
    BY DEF Good, Sized
  <2>2. QED
    BY <2>1, <1>2, <1>3 DEF SameList
<1>5. Moved(list, result, s, new.offset, new.final_size)
  BY <1>2, <1>3, <1>4 DEF Moved
<1>6. QED
  BY <1>5 DEF result

LEMMA MovedTo ==
  ASSUME NEW list, Good(list), NEW s \in 1 .. Len(list), NEW at \in Int
  PROVE  Moved(list, [list EXCEPT ![s].offset = at], s, at, list[s].final_size)
<1>1. list[s] \in SegmentType
  BY DEF Good
<1>2. PICK new : new = [list[s] EXCEPT !.offset = at]
  OBVIOUS
<1>3. /\ new \in SegmentType
      /\ new.offset = at /\ new.final_size = list[s].final_size
      /\ new.type = list[s].type /\ new.max_size = list[s].max_size
      /\ new.jump_to = list[s].jump_to /\ new.prev = list[s].prev /\ new.next = list[s].next
  BY <1>1, <1>2 DEF SegmentType
<1>4. Moved(list, [list EXCEPT ![s] = new], s, at, list[s].final_size)
  BY <1>3, MovedBy
<1>5. QED
  BY <1>2, <1>4

LEMMA MovedAndSized ==
  ASSUME NEW list, Good(list), NEW s \in 1 .. Len(list), NEW at \in Int, NEW size \in Nat
  PROVE  Moved(list, [list EXCEPT ![s].offset = at, ![s].final_size = size], s, at, size)
<1>1. list \in Seq(SegmentType) /\ list[s] \in SegmentType
  BY DEF Good
<1>2. PICK new : new = [[list[s] EXCEPT !.offset = at] EXCEPT !.final_size = size]
  OBVIOUS
<1>3. /\ new \in SegmentType
      /\ new.offset = at /\ new.final_size = size
      /\ new.type = list[s].type /\ new.max_size = list[s].max_size
      /\ new.jump_to = list[s].jump_to /\ new.prev = list[s].prev /\ new.next = list[s].next
  BY <1>1, <1>2 DEF SegmentType
<1>4. Moved(list, [list EXCEPT ![s] = new], s, at, size)
  BY <1>3, MovedBy
<1>5. [list EXCEPT ![s].offset = at, ![s].final_size = size] = [list EXCEPT ![s] = new]
  BY <1>1, <1>2
<1>6. QED
  BY <1>4, <1>5

\* Where segments lie side by side, a later one lies behind an earlier one.
LEMMA LaterIsBehind ==
  ASSUME NEW len \in Nat, NEW f, NEW g,
         \A n \in 1 .. len : f[n] \in Int /\ g[n] \in Nat /\ f[n + 1] \in Int /\ f[n] + g[n] = f[n + 1],
         NEW m \in 1 .. len, NEW n \in m + 1 .. len + 1
  PROVE  f[m] + g[m] <= f[n]
<1>. DEFINE T == {d \in Nat : m + 1 + d <= len + 1 => f[m] + g[m] <= f[m + 1 + d]}
<1>1. 0 \in T
  <2>1. f[m] + g[m] = f[m + 1] /\ f[m + 1] \in Int /\ m + 1 + 0 = m + 1
    OBVIOUS
  <2>2. QED
    BY <2>1
<1>2. ASSUME NEW d \in Nat, d \in T PROVE d + 1 \in T
  <2>1. SUFFICES ASSUME m + 1 + (d + 1) <= len + 1
                 PROVE  f[m] + g[m] <= f[m + 1 + (d + 1)]
    OBVIOUS
  <2>2. PICK i \in 1 .. len : i = m + 1 + d /\ i + 1 = m + 1 + (d + 1)
    BY <2>1
  <2>3. f[m] + g[m] <= f[i]
    BY <1>2, <2>2
  <2>4. f[i] + g[i] = f[i + 1] /\ f[i] \in Int /\ g[i] \in Nat /\ f[m] \in Int /\ g[m] \in Nat
    OBVIOUS
  <2>5. QED
    BY <2>2, <2>3, <2>4
<1>3. Nat \subseteq T
  <2>. HIDE DEF T
  <2>1. QED
    BY <1>1, <1>2, NumbersByInduction
<1>4. PICK d \in Nat : n = m + 1 + d
  <2>1. n - (m + 1) \in Nat /\ n = m + 1 + (n - (m + 1))
    OBVIOUS
  <2>2. QED
    BY <2>1
<1>5. d \in T
  BY <1>3
<1>6. QED
  BY <1>4, <1>5

\* What an order is, one position at a time.
LEMMA OrderedAt ==
  ASSUME NEW list, Good(list), NEW p, IsOrder(p, list)
  PROVE  /\ p[1] = FirstLabel
         /\ \A n \in 1 .. Len(list) :
              /\ p[n] \in 1 .. Len(list)
              /\ list[p[n]] \in SegmentType
              /\ list[p[n]].next = IF n = Len(list) THEN 0 ELSE p[n + 1]
<1>1. list \in Seq(SegmentType) /\ p[1] = FirstLabel
  BY DEF Good, IsOrder
<1>2. ASSUME NEW n \in 1 .. Len(list)
      PROVE  p[n] \in 1 .. Len(list) /\ list[p[n]].next = IF n = Len(list) THEN 0 ELSE p[n + 1]
  BY DEF IsOrder, Permutes
<1>3. QED
  BY <1>1, <1>2

\* While the second walk is at the kth segment.
LEMMA ShrunkLaterIsBehind ==
  ASSUME Good(segs), offset \in Nat, saved \in Nat,
         NEW p, IsOrder(p, segs), NEW k \in 1 .. Len(segs) + 1, Shrunk(p, k),
         NEW m \in 1 .. Len(segs), NEW n \in m + 1 .. Len(segs) + 1
  PROVE  Position(p, k, m) + Extent(p, k, m) <= Position(p, k, n)
<1>1. PICK len \in Nat : len = Len(segs)
  BY DEF Good
<1>2. PICK f, g : /\ f = [i \in 1 .. len + 1 |-> Position(p, k, i)]
                  /\ g = [i \in 1 .. len |-> Extent(p, k, i)]
  OBVIOUS
<1>3. ASSUME NEW i \in 1 .. len
      PROVE  Position(p, k, i) \in Int /\ Extent(p, k, i) \in Nat
  <2>1. segs[p[i]] \in SegmentType
    BY <1>1, OrderedAt
  <2>2. PICK at \in Int, size \in Nat, max \in Nat, before \in Nat, end \in Nat :
          /\ at = segs[p[i]].offset /\ size = segs[p[i]].final_size
          /\ max = segs[p[i]].max_size /\ before = saved /\ end = offset
    BY <2>1 DEF SegmentType
  <2>3. Position(p, k, i) \in {end - before, at, at - before}
    BY <2>2 DEF Position
  <2>4. Extent(p, k, i) \in {size, max}
    BY <2>2 DEF Extent, Length
  <2>5. QED
    BY <2>3, <2>4
<1>4. Position(p, k, len + 1) \in Int
  BY <1>1 DEF Position
<1>5. ASSUME NEW i \in 1 .. len
      PROVE  f[i] \in Int /\ g[i] \in Nat /\ f[i + 1] \in Int /\ f[i] + g[i] = f[i + 1]
  <2>1. /\ f[i] = Position(p, k, i) /\ g[i] = Extent(p, k, i)
        /\ f[i + 1] = Position(p, k, i + 1)
    BY <1>1, <1>2
  <2>2. Position(p, k, i + 1) \in Int
    <3>1. i + 1 = len + 1 \/ i + 1 \in 1 .. len
      BY <1>1
    <3>2. QED
      BY <3>1, <1>3, <1>4
  <2>3. QED
    BY <2>1, <2>2, <1>1, <1>3 DEF Shrunk
<1>6. f[m] + g[m] <= f[n]
  BY <1>1, <1>5, LaterIsBehind
<1>7. QED
  BY <1>1, <1>2, <1>6

LEMMA WalkReady ==
  ASSUME IInv, phase \in {"place", "shrink"}
  PROVE  /\ Good(segs) /\ Len(segs) \in Nat
         /\ segment \in 1 .. Len(segs)
         /\ segs[segment] \in SegmentType
         /\ offset \in Nat /\ saved \in Nat
<1>1. Good(segs) /\ Len(segs) \in Nat /\ offset \in Nat /\ saved \in Nat
  BY DEF IInv, Shape, Good
<1>2. PICK p : IsOrder(p, segs)
  BY <1>1 DEF Good
<1>3. PICK k \in 1 .. Len(segs) : segment = p[k]
  BY <1>2 DEF IInv, Walked
<1>4. QED
  BY <1>1, <1>2, <1>3, OrderedAt

\* Moving a segment leaves the list and the writer as they were.
LEMMA MovedShape ==
  ASSUME IInv, NEW s \in 1 .. Len(segs), NEW at, NEW size, Moved(segs, segs', s, at, size),
         writer' = writer, phase' \in Phases, offset' \in Nat, saved' \in Nat
  PROVE  /\ Shape'
         /\ Len(segs') = Len(segs)
         /\ \A p : IsOrder(p, segs') => IsOrder(p, segs)
<1>1. /\ Good(segs) /\ Len(segs) \in Nat
      /\ writer \in [label : 1 .. Len(segs), curr : 1 .. Len(segs)]
      /\ segs[writer.curr].type = "code"
  BY DEF IInv, Shape, Good
<1>2. SameList(segs, segs')
  BY DEF Moved
<1>3. /\ Good(segs') /\ Len(segs') = Len(segs)
      /\ \A p : IsOrder(p, segs') => IsOrder(p, segs)
  BY <1>1, <1>2, SameListGood DEF SameList
<1>4. segs'[writer'.curr].type = "code"
  BY <1>1, <1>2 DEF SameList
<1>5. QED
  BY <1>1, <1>3, <1>4 DEF Shape

\* A moved segment, seen along an order.
Along(list, result, p, k, at, size, n) ==
  /\ result[p[n]].type = list[p[n]].type
  /\ result[p[n]].jump_to = list[p[n]].jump_to
  /\ result[p[n]].max_size = list[p[n]].max_size
  /\ result[p[n]].offset = IF n = k THEN at ELSE list[p[n]].offset
  /\ result[p[n]].final_size = IF n = k THEN size ELSE list[p[n]].final_size

LEMMA MovedAlong ==
  ASSUME NEW list, Good(list), NEW p, IsOrder(p, list), NEW k \in 1 .. Len(list),
         NEW result, NEW at, NEW size, Moved(list, result, p[k], at, size),
         NEW n \in 1 .. Len(list)
  PROVE  Along(list, result, p, k, at, size, n)
<1>1. p[n] \in 1 .. Len(list)
  BY OrderedAt
<1>2. p[n] = p[k] <=> n = k
  BY DEF IsOrder, Permutes
<1>3. QED
  BY <1>1, <1>2 DEF Moved, SameList, Along

LEMMA PlaceIInv ==
  ASSUME IInv, Place
  PROVE  IInv'
<1>1. /\ phase = "place"
      /\ segs' = [segs EXCEPT ![segment].offset = offset]
      /\ offset' = offset + segs[segment].max_size
      /\ segment' = IF segs[segment].next = 0 THEN FirstLabel ELSE segs[segment].next
      /\ phase' = IF segs[segment].next = 0 THEN "shrink" ELSE "place"
      /\ UNCHANGED <<writer, saved>>
  BY DEF Place, Walk
<1>2. PICK s \in 1 .. Len(segs), at \in Nat : s = segment /\ at = offset
  BY <1>1, WalkReady
<1>3. /\ Good(segs) /\ Len(segs) \in Nat /\ segs[s] \in SegmentType /\ saved \in Nat
  BY <1>1, <1>2, WalkReady
<1>4. Moved(segs, segs', s, at, segs[s].final_size)
  <2>1. segs' = [segs EXCEPT ![s].offset = at] /\ at \in Int
    BY <1>1, <1>2
  <2>2. QED
    BY <2>1, <1>3, MovedTo
<1>5. /\ Shape' /\ Len(segs') = Len(segs)
      /\ \A p : IsOrder(p, segs') => IsOrder(p, segs)
  <2>1. offset' \in Nat /\ phase' \in Phases
    BY <1>1, <1>2, <1>3 DEF SegmentType, Phases
  <2>2. QED
    BY <2>1, <1>1, <1>3, <1>4, MovedShape
<1>6. ASSUME NEW p, IsOrder(p, segs') PROVE Walked(p)'
  <2>1. IsOrder(p, segs)
    BY <1>5, <1>6
  <2>2. PICK k \in 1 .. Len(segs) : segment = p[k] /\ saved = 0 /\ Placed(p, k)
    BY <1>1, <2>1 DEF IInv, Walked
  <2>3. ASSUME NEW n \in 1 .. Len(segs)
        PROVE  /\ segs'[p[n]].max_size = segs[p[n]].max_size
               /\ segs'[p[n]].offset = IF n = k THEN offset ELSE segs[p[n]].offset
               /\ segs[p[n]].max_size \in Nat /\ segs[p[n]].offset \in Int
    <3>1. PICK size : size = segs[s].final_size
      OBVIOUS
    <3>2. Moved(segs, segs', p[k], at, size)
      BY <3>1, <1>2, <1>4, <2>2
    <3>3. Along(segs, segs', p, k, at, size, n)
      BY <3>2, <1>3, <2>1, MovedAlong
    <3>4. segs[p[n]] \in SegmentType
      BY <1>3, <2>1, OrderedAt
    <3>5. QED
      BY <3>3, <3>4, <1>2 DEF SegmentType, Along
  <2>4. /\ p[1] = FirstLabel
        /\ segs[segment].next = IF k = Len(segs) THEN 0 ELSE p[k + 1]
        /\ k # Len(segs) => p[k + 1] # 0
    <3>1. k # Len(segs) => k + 1 \in 1 .. Len(segs)
      BY <1>3
    <3>2. QED
      BY <3>1, <1>3, <2>1, <2>2, OrderedAt
  <2>5. /\ segs'[p[1]].offset = 0
        /\ \A n \in 1 .. k : segs'[p[n]].offset + segs'[p[n]].max_size =
                               IF n = k THEN offset' ELSE segs'[p[n + 1]].offset
    <3>1. segs'[p[1]].offset = 0
      BY <2>2, <2>3 DEF Placed
    <3>2. ASSUME NEW n \in 1 .. k, n # k
          PROVE  segs'[p[n]].offset + segs'[p[n]].max_size = segs'[p[n + 1]].offset
      <4>1. /\ n \in 1 .. k - 1 /\ n \in 1 .. Len(segs) /\ n + 1 \in 1 .. Len(segs)
            /\ (n = k - 1 <=> n + 1 = k)
        BY <3>2
      <4>2. QED
        BY <4>1, <3>2, <2>2, <2>3 DEF Placed
    <3>3. segs'[p[k]].offset + segs'[p[k]].max_size = offset'
      BY <1>1, <2>2, <2>3
    <3>4. QED
      BY <3>1, <3>2, <3>3
  <2>6. CASE k = Len(segs)
    <3>1. phase' = "shrink" /\ segment' = p[1] /\ saved' = 0
      BY <2>6, <2>4, <2>2, <1>1
    <3>2. Shrunk(p, 1)'
      <4>. PICK len \in Nat : len = Len(segs) /\ len = Len(segs') /\ len = k /\ len > 0
        BY <1>3, <1>5, <2>6
      <4>1. ASSUME NEW n \in 1 .. len
            PROVE  /\ Position(p, 1, n)' = segs'[p[n]].offset
                   /\ Extent(p, 1, n)' = segs'[p[n]].max_size
        <5>1. segs'[p[n]].offset \in Int
          BY <1>2, <2>3
        <5>2. QED
          BY <5>1, <3>1 DEF Position, Extent
      <4>2. Position(p, 1, len + 1)' = offset'
        BY <1>1, <1>2, <1>3, <3>1 DEF Position, SegmentType
      <4>3. ASSUME NEW n \in 1 .. len
            PROVE  Position(p, 1, n)' + Extent(p, 1, n)' = Position(p, 1, n + 1)'
        <5>1. CASE n = len
          BY <5>1, <4>1, <4>2, <2>5
        <5>2. CASE n # len
          <6>1. n + 1 \in 1 .. len
            BY <5>2
          <6>2. QED
            BY <6>1, <5>2, <4>1, <2>5
        <5>3. QED
          BY <5>1, <5>2
      <4>4. Position(p, 1, 1)' = 0
        BY <4>1, <2>5
      <4>5. Shrunk(p, 1)'
        BY <4>3, <4>4 DEF Shrunk
      <4>6. QED
        BY <4>5
    <3>3. 1 \in 1 .. Len(segs')
      BY <1>3, <1>5
    <3>4. QED
      BY <3>1, <3>2, <3>3 DEF Walked
  <2>7. CASE k # Len(segs)
    <3>1. phase' = "place" /\ segment' = p[k + 1] /\ saved' = 0 /\ k + 1 \in 1 .. Len(segs')
      BY <2>7, <2>4, <2>2, <1>1, <1>3, <1>5
    <3>2. Placed(p, k + 1)'
      <4>1. (k + 1) - 1 = k /\ k + 1 # 1
        BY <1>3
      <4>2. QED
        BY <4>1, <2>5 DEF Placed
    <3>3. QED
      BY <3>1, <3>2 DEF Walked
  <2>8. QED
    BY <2>6, <2>7
<1>7. ~Emitting'
  BY <1>1 DEF Emitting
<1>8. QED
  BY <1>5, <1>6, <1>7 DEF IInv

\* The kth segment moves to where the earlier ones now end, and gets shorter by
\* some bytes.  A jump is left out only when it leads to what is right behind it.
LEMMA ShrunkStep ==
  ASSUME Good(segs), offset \in Nat, saved \in Nat,
         NEW p, IsOrder(p, segs), NEW k \in 1 .. Len(segs), Shrunk(p, k),
         NEW size \in Nat, NEW delta \in 0 .. segs[p[k]].max_size,
         \A n \in 1 .. Len(segs) :
           Along(segs, segs', p, k, segs[p[k]].offset - saved, size, n),
         segs[p[k]].max_size = delta + IF segs[p[k]].type = "jump" THEN size
                                       ELSE segs[p[k]].max_size,
         segs[p[k]].type = "jump" /\ size = 0 =>
           \A m \in 1 .. Len(segs) :
             segs[p[k]].jump_to = p[m] => m > k /\ Position(p, k, m) = Position(p, k, k + 1),
         Len(segs') = Len(segs), offset' = offset, saved' = saved + delta
  PROVE  Shrunk(p, k + 1)'
<1>. DEFINE pos(n) == Position(p, k, n)
            ext(n) == Extent(p, k, n)
            pos2(n) == Position(p, k + 1, n)'
            ext2(n) == Extent(p, k + 1, n)'
<1>1. PICK len \in Nat : len = Len(segs) /\ len = Len(segs') /\ k \in 1 .. len
  BY DEF Good
<1>2. PICK max \in Nat : max = segs[p[k]].max_size
  BY OrderedAt DEF SegmentType
<1>3. ASSUME NEW n \in 1 .. len
      PROVE  /\ segs[p[n]].max_size \in Nat /\ segs[p[n]].offset \in Int
             /\ segs[p[n]].final_size \in Nat
             /\ segs'[p[n]].type = segs[p[n]].type
             /\ segs'[p[n]].jump_to = segs[p[n]].jump_to
             /\ segs'[p[n]].max_size = segs[p[n]].max_size
             /\ segs'[p[n]].offset = IF n = k THEN segs[p[k]].offset - saved ELSE segs[p[n]].offset
             /\ segs'[p[n]].final_size = IF n = k THEN size ELSE segs[p[n]].final_size
  <2>1. segs[p[n]] \in SegmentType
    BY <1>1, OrderedAt
  <2>2. Along(segs, segs', p, k, segs[p[k]].offset - saved, size, n)
    BY <1>1
  <2>3. QED
    BY <2>1, <2>2 DEF SegmentType, Along
<1>4. ASSUME NEW n \in 1 .. len
      PROVE  pos2(n) = IF n <= k THEN pos(n) ELSE pos(n) - delta
  <2>1. /\ n # len + 1
        /\ pos(n) = IF n < k THEN segs[p[n]].offset ELSE segs[p[n]].offset - saved
    BY <1>1 DEF Position
  <2>2. pos2(n) = IF n < k + 1 THEN segs'[p[n]].offset ELSE segs'[p[n]].offset - saved'
    BY <1>1 DEF Position
  <2>3. saved' = saved + delta /\ saved \in Nat /\ delta \in Nat /\ segs[p[n]].offset \in Int
    BY <1>2, <1>3
  <2>4. segs'[p[n]].offset = IF n = k THEN segs[p[n]].offset - saved ELSE segs[p[n]].offset
    BY <1>3
  <2>. HIDE DEF pos, pos2
  <2>5. CASE n < k
    BY <2>1, <2>2, <2>3, <2>4, <2>5, <1>1
  <2>6. CASE n = k
    BY <2>1, <2>2, <2>3, <2>4, <2>6, <1>1
  <2>7. CASE n > k
    BY <2>1, <2>2, <2>3, <2>4, <2>7, <1>1
  <2>8. QED
    BY <2>5, <2>6, <2>7, <1>1
<1>5. /\ pos2(len + 1) = pos(len + 1) - delta
      /\ \A n \in 1 .. len + 1 : pos(n) \in Int
  <2>1. pos(len + 1) = offset - saved /\ pos2(len + 1) = offset' - saved'
    BY <1>1 DEF Position
  <2>2. ASSUME NEW n \in 1 .. len PROVE pos(n) \in Int
    BY <1>1, <1>3 DEF Position
  <2>. HIDE DEF pos, pos2
  <2>3. saved' = saved + delta /\ saved \in Nat /\ delta \in Nat /\ offset' = offset /\ offset \in Nat
    BY <1>2
  <2>4. \A n \in 1 .. len + 1 : n = len + 1 \/ n \in 1 .. len
    OBVIOUS
  <2>5. QED
    BY <2>1, <2>2, <2>3, <2>4
<1>6. ASSUME NEW n \in 1 .. len
      PROVE  /\ ext2(n) = IF n = k THEN ext(n) - delta ELSE ext(n)
             /\ ext(n) \in Nat
             /\ n = k => ext(n) = max
  <2>1. ext(n) = IF n < k /\ segs[p[n]].type = "jump" THEN segs[p[n]].final_size
                 ELSE segs[p[n]].max_size
    BY DEF Extent, Length
  <2>2. ext2(n) = IF n < k + 1 /\ segs'[p[n]].type = "jump" THEN segs'[p[n]].final_size
                  ELSE segs'[p[n]].max_size
    BY DEF Extent, Length
  <2>3. max = delta + IF segs[p[k]].type = "jump" THEN size ELSE max
    BY <1>2
  <2>4. delta \in Nat
    BY <1>2
  <2>. HIDE DEF ext, ext2
  <2>5. CASE n = k
    <3>1. ext(n) = max
      BY <2>1, <2>5, <1>2
    <3>2. ext2(n) = IF segs[p[k]].type = "jump" THEN size ELSE max
      BY <2>2, <2>5, <1>1, <1>2, <1>3
    <3>3. QED
      BY <3>1, <3>2, <2>3, <2>4, <2>5
  <2>6. CASE n # k
    <3>1. n < k + 1 <=> n < k
      BY <2>6, <1>1
    <3>2. ext2(n) = ext(n)
      BY <2>1, <2>2, <2>6, <3>1, <1>3
    <3>3. ext(n) \in Nat
      BY <2>1, <1>3
    <3>4. QED
      BY <3>2, <3>3, <2>6
  <2>7. QED
    BY <2>5, <2>6
<1>7. /\ pos(1) = 0
      /\ \A n \in 1 .. len : pos(n) + ext(n) = pos(n + 1)
  BY <1>1 DEF Shrunk
<1>8. ASSUME NEW m \in 1 .. len, NEW n \in m + 1 .. len + 1
      PROVE  pos(m) + ext(m) <= pos(n)
  <2>1. k \in 1 .. Len(segs) + 1 /\ m \in 1 .. Len(segs) /\ n \in m + 1 .. Len(segs) + 1
    BY <1>1
  <2>2. QED
    BY <2>1, ShrunkLaterIsBehind
<1>9. ASSUME NEW n \in 1 .. k - 1, NEW m \in 1 .. len,
             segs[p[n]].type = "jump", segs[p[n]].final_size = 0, segs[p[n]].jump_to = p[m]
      PROVE  pos(m) = pos(n)
  BY <1>1, <1>9 DEF Shrunk
<1>10. segs[p[k]].type = "jump" /\ size = 0 =>
         /\ delta = max
         /\ \A m \in 1 .. len : segs[p[k]].jump_to = p[m] => m > k /\ pos(m) = pos(k + 1)
  BY <1>1, <1>2
<1>11. delta \in Nat /\ delta <= max
  BY <1>2
<1>. HIDE DEF pos, ext, pos2, ext2
<1>12. pos2(1) = 0
  BY <1>1, <1>4, <1>7
<1>13. ASSUME NEW n \in 1 .. len PROVE pos2(n) + ext2(n) = pos2(n + 1)
  <2>1. pos2(n + 1) = IF n + 1 <= k THEN pos(n + 1) ELSE pos(n + 1) - delta
    <3>1. CASE n = len
      BY <3>1, <1>1, <1>5
    <3>2. CASE n # len
      <4>1. n + 1 \in 1 .. len
        BY <3>2
      <4>2. QED
        BY <4>1, <1>4
    <3>3. QED
      BY <3>1, <3>2
  <2>2. pos(n) + ext(n) = pos(n + 1) /\ pos(n) \in Int /\ pos(n + 1) \in Int /\ ext(n) \in Nat
    BY <1>5, <1>6, <1>7
  <2>3. CASE n < k
    BY <2>1, <2>2, <2>3, <1>1, <1>4, <1>6, <1>11
  <2>4. CASE n = k
    BY <2>1, <2>2, <2>4, <1>1, <1>4, <1>6, <1>11
  <2>5. CASE n > k
    BY <2>1, <2>2, <2>5, <1>1, <1>4, <1>6, <1>11
  <2>6. QED
    BY <2>3, <2>4, <2>5, <1>1
<1>14. ASSUME NEW n \in 1 .. k, segs'[p[n]].type = "jump", segs'[p[n]].final_size = 0,
              NEW m \in 1 .. len, segs'[p[n]].jump_to = p[m]
       PROVE  pos2(m) = pos2(n)
  <2>1. n \in 1 .. len /\ segs[p[n]].type = "jump" /\ segs[p[n]].jump_to = p[m]
    <3>1. n \in 1 .. len
      BY <1>1
    <3>2. QED
      BY <3>1, <1>3, <1>14
  <2>2. pos2(n) = pos(n) /\ pos(n) \in Int /\ pos(m) \in Int
    BY <2>1, <1>1, <1>4, <1>5
  <2>3. CASE n = k
    <3>1. size = 0
      BY <2>1, <2>3, <1>3, <1>14
    <3>2. m > k /\ pos(m) = pos(k + 1) /\ delta = max
      BY <3>1, <2>1, <2>3, <1>10
    <3>3. pos(k) + max = pos(k + 1) /\ pos(k) \in Int /\ pos(k + 1) \in Int
      <4>1. k \in 1 .. len /\ k \in 1 .. len + 1 /\ k + 1 \in 1 .. len + 1
        BY <1>1
      <4>2. QED
        BY <4>1, <1>5, <1>6, <1>7
    <3>4. pos2(m) = pos(m) - delta
      BY <3>2, <1>1, <1>4
    <3>5. QED
      BY <3>2, <3>3, <3>4, <2>2, <2>3, <1>11
  <2>4. CASE n # k
    <3>1. n \in 1 .. k - 1 /\ pos(m) = pos(n)
      <4>1. n \in 1 .. k - 1
        BY <2>4
      <4>2. segs[p[n]].final_size = 0
        BY <2>1, <2>4, <1>3, <1>14
      <4>3. QED
        BY <4>1, <4>2, <2>1, <1>9
    <3>2. CASE m <= k
      BY <3>1, <3>2, <2>2, <1>4
    <3>3. CASE m > k
      <4>1. pos(n) + ext(n) <= pos(k) /\ pos(k) + ext(k) <= pos(m)
        BY <3>1, <3>3, <1>1, <1>8
      <4>2. ext(n) \in Nat /\ ext(k) = max /\ pos(k) \in Int
        BY <2>1, <1>1, <1>5, <1>6
      <4>3. delta = 0
        BY <4>1, <4>2, <3>1, <2>2, <1>11
      <4>4. QED
        BY <4>3, <3>1, <2>2, <1>4
    <3>4. QED
      BY <3>2, <3>3, <1>1
  <2>5. QED
    BY <2>3, <2>4
<1>15. QED
  BY <1>1, <1>12, <1>13, <1>14 DEF Shrunk, pos2, ext2

\* The walk goes on to the next segment of the order, or ends behind the last.
LEMMA ShrunkWalked ==
  ASSUME Good(segs), NEW p, IsOrder(p, segs), NEW k \in 1 .. Len(segs), segment = p[k],
         Walk("shrink", "write"), Len(segs') = Len(segs), Shrunk(p, k + 1)'
  PROVE  Walked(p)'
<1>1. PICK len \in Nat : len = Len(segs) /\ len = Len(segs') /\ k \in 1 .. len
  BY DEF Good
<1>2. segs[segment].next = IF k = len THEN 0 ELSE p[k + 1]
  BY <1>1, OrderedAt
<1>3. k # len => k + 1 \in 1 .. len /\ p[k + 1] # 0
  <2>1. k # len => k + 1 \in 1 .. len
    BY <1>1
  <2>2. QED
    BY <2>1, <1>1, OrderedAt
<1>4. CASE k = len
  <2>1. phase' = "write"
    BY <1>2, <1>4 DEF Walk
  <2>2. Shrunk(p, Len(segs) + 1)'
    BY <1>1, <1>4
  <2>3. QED
    BY <2>1, <2>2 DEF Walked
<1>5. CASE k # len
  <2>1. phase' = "shrink" /\ segment' = p[k + 1] /\ k + 1 \in 1 .. Len(segs')
    BY <1>1, <1>2, <1>3, <1>5 DEF Walk
  <2>2. QED
    BY <2>1 DEF Walked
<1>6. QED
  BY <1>4, <1>5

LEMMA ShrinkOtherIInv ==
  ASSUME IInv, ShrinkOther
  PROVE  IInv'
<1>1. /\ Walk("shrink", "write")
      /\ phase = "shrink"
      /\ segs[segment].type # "jump"
      /\ segs' = [segs EXCEPT ![segment].offset = segs[segment].offset - saved]
      /\ phase' \in {"shrink", "write"}
      /\ UNCHANGED <<writer, offset, saved>>
  BY DEF ShrinkOther, Walk
<1>2. /\ Good(segs) /\ Len(segs) \in Nat /\ segs[segment] \in SegmentType
      /\ offset \in Nat /\ saved \in Nat
  BY <1>1, WalkReady
<1>3. PICK s \in 1 .. Len(segs), at \in Int, size \in Nat :
        s = segment /\ at = segs[s].offset - saved /\ size = segs[s].final_size
  <2>1. segment \in 1 .. Len(segs)
    BY <1>1, WalkReady
  <2>2. QED
    BY <2>1, <1>2 DEF SegmentType
<1>4. Moved(segs, segs', s, at, size)
  <2>1. segs' = [segs EXCEPT ![s].offset = at]
    BY <1>1, <1>3
  <2>2. Moved(segs, segs', s, at, segs[s].final_size)
    BY <2>1, <1>2, MovedTo
  <2>3. QED
    BY <2>2, <1>3
<1>5. /\ Shape' /\ Len(segs') = Len(segs)
      /\ \A p : IsOrder(p, segs') => IsOrder(p, segs)
  <2>1. offset' \in Nat /\ saved' \in Nat /\ phase' \in Phases
    BY <1>1, <1>2 DEF Phases
  <2>2. QED
    BY <2>1, <1>1, <1>4, MovedShape
<1>6. ASSUME NEW p, IsOrder(p, segs') PROVE Walked(p)'
  <2>1. IsOrder(p, segs)
    BY <1>5, <1>6
  <2>2. PICK k \in 1 .. Len(segs) : segment = p[k] /\ Shrunk(p, k)
    BY <1>1, <2>1 DEF IInv, Walked
  <2>3. \A n \in 1 .. Len(segs) : Along(segs, segs', p, k, at, size, n)
    <3>1. Moved(segs, segs', p[k], at, size)
      BY <1>3, <1>4, <2>2
    <3>2. QED
      BY <3>1, <1>2, <2>1, MovedAlong
  <2>4. PICK delta \in 0 .. segs[p[k]].max_size : delta = 0
    BY <1>2, <2>2 DEF SegmentType
  <2>5. /\ at = segs[p[k]].offset - saved
        /\ segs[p[k]].type # "jump"
        /\ segs[p[k]].max_size = delta + segs[p[k]].max_size
        /\ offset' = offset /\ saved' = saved + delta
    <3>1. at = segs[p[k]].offset - saved /\ segs[p[k]].type # "jump"
      BY <1>1, <1>3, <2>2
    <3>2. segs[p[k]].max_size = delta + segs[p[k]].max_size
      BY <1>2, <2>2, <2>4 DEF SegmentType
    <3>3. offset' = offset /\ saved' = saved + delta
      BY <1>1, <1>2, <2>4
    <3>4. QED
      BY <3>1, <3>2, <3>3
  <2>6. Shrunk(p, k + 1)'
    BY <1>2, <1>5, <2>1, <2>2, <2>3, <2>5, ShrunkStep
  <2>7. QED
    BY <1>1, <1>2, <1>5, <2>1, <2>2, <2>6, ShrunkWalked
<1>7. ~Emitting'
  BY <1>1 DEF Emitting
<1>8. QED
  BY <1>5, <1>6, <1>7 DEF IInv

\* What is estimated for a jump: it never gets longer, and it is left out only if
\* its label is right behind it.
LEMMA JumpSizeLeft ==
  ASSUME Good(segs), offset \in Nat, saved \in Nat,
         NEW p, IsOrder(p, segs), NEW k \in 1 .. Len(segs), Shrunk(p, k),
         segs[p[k]].type = "jump"
  PROVE  /\ JumpSize(p[k]) \in 0 .. segs[p[k]].max_size
         /\ JumpSize(p[k]) = 0 =>
              \A m \in 1 .. Len(segs) :
                segs[p[k]].jump_to = p[m] => m > k /\ Position(p, k, m) = Position(p, k, k + 1)
<1>. DEFINE pos(n) == Position(p, k, n)
            ext(n) == Extent(p, k, n)
<1>1. PICK len \in Nat : len = Len(segs) /\ k \in 1 .. len
  BY DEF Good
<1>2. PICK max \in {NearJump, CondJump} : max = segs[p[k]].max_size
  BY <1>1, OrderedAt DEF Good, Sized
<1>3. max \in Nat /\ max > 2
  BY DEF NearJump, CondJump
<1>4. JumpSize(p[k]) \in 0 .. max
  BY <1>2, <1>3 DEF JumpSize
<1>5. ASSUME JumpSize(p[k]) = 0, NEW m \in 1 .. len, segs[p[k]].jump_to = p[m]
      PROVE  m > k /\ pos(m) = pos(k + 1)
  <2>1. EstimatedDistance(p[k]) = 0
    BY <1>2, <1>3, <1>5 DEF JumpSize
  <2>2. PICK at \in Int, to \in Int : at = segs[p[k]].offset /\ to = segs[p[m]].offset
    BY <1>1, OrderedAt DEF SegmentType
  <2>3. /\ ext(k) = max
        /\ pos(k) = at - saved
        /\ pos(m) = IF m < k THEN to ELSE to - saved
    BY <1>1, <1>2, <2>2 DEF Extent, Position
  <2>4. ASSUME NEW i \in 1 .. len, NEW j \in i + 1 .. len + 1
        PROVE  pos(i) + ext(i) <= pos(j)
    <3>1. k \in 1 .. Len(segs) + 1 /\ i \in 1 .. Len(segs) /\ j \in i + 1 .. Len(segs) + 1
      BY <1>1
    <3>2. QED
      BY <3>1, ShrunkLaterIsBehind
  <2>5. pos(k) + ext(k) = pos(k + 1)
    BY <1>1 DEF Shrunk
  <2>6. (IF to > at - saved + max THEN to - saved ELSE to) - (at - saved + max) = 0
    BY <1>2, <1>5, <2>1, <2>2 DEF EstimatedDistance
  <2>7. \A i \in 1 .. len : ext(i) \in Nat
    <3>1. \A i \in 1 .. len : segs[p[i]] \in SegmentType
      BY <1>1, OrderedAt
    <3>2. QED
      BY <3>1 DEF Extent, Length, SegmentType
  <2>8. m # k
    <3>1. segs[segs[p[k]].jump_to].type = "label"
      BY <1>1, OrderedAt DEF Good, Sized
    <3>2. QED
      BY <3>1, <1>5
  <2>. HIDE DEF pos, ext
  <2>9. CASE m < k
    <3>1. pos(m) + ext(m) <= pos(k)
      BY <2>9, <2>4, <1>1
    <3>2. PICK back \in Int, extent \in Nat : back = at - saved /\ extent = ext(m)
      BY <2>7
    <3>3. to + extent <= back
      BY <3>1, <3>2, <2>3, <2>9
    <3>4. (IF to > back + max THEN to - saved ELSE to) - (back + max) = 0
      BY <3>2, <2>6
    <3>5. QED
      BY <3>3, <3>4, <1>3
  <2>10. CASE m = k + 1
    BY <2>10, <1>1
  <2>11. CASE m > k + 1
    <3>1. PICK j \in 1 .. len : j = k + 1
      BY <2>11, <1>1
    <3>2. pos(j) + ext(j) <= pos(m)
      BY <2>11, <3>1, <2>4
    <3>3. PICK left \in Nat, extent \in Nat : left = saved /\ extent = ext(j)
      BY <2>7
    <3>4. pos(j) = at - left + max /\ pos(m) = to - left
      BY <3>1, <3>3, <2>3, <2>5, <2>11, <1>1
    <3>5. at - left + max + extent <= to - left
      BY <3>2, <3>3, <3>4
    <3>6. (IF to > at - left + max THEN to - left ELSE to) - (at - left + max) = 0
      BY <3>3, <2>6
    <3>7. to - left = at - left + max
      BY <3>5, <3>6, <1>3
    <3>8. QED
      BY <3>1, <3>4, <3>7, <2>11, <1>1
  <2>12. QED
    BY <2>8, <2>9, <2>10, <2>11, <1>1
<1>6. QED
  BY <1>1, <1>2, <1>4, <1>5

LEMMA ShrinkJumpIInv ==
  ASSUME IInv, ShrinkJump
  PROVE  IInv'
<1>1. /\ Walk("shrink", "write")
      /\ phase = "shrink"
      /\ segs[segment].type = "jump"
      /\ segs' = [segs EXCEPT ![segment].offset = segs[segment].offset - saved,
                              ![segment].final_size = JumpSize(segment)]
      /\ saved' = saved + segs[segment].max_size - JumpSize(segment)
      /\ phase' \in {"shrink", "write"}
      /\ UNCHANGED <<writer, offset>>
  BY DEF ShrinkJump, Walk
<1>2. /\ Good(segs) /\ Len(segs) \in Nat /\ segs[segment] \in SegmentType
      /\ offset \in Nat /\ saved \in Nat
  BY <1>1, WalkReady
<1>3. JumpSize(segment) \in 0 .. segs[segment].max_size
  <2>1. PICK p : IsOrder(p, segs)
    BY <1>2 DEF Good
  <2>2. PICK k \in 1 .. Len(segs) : segment = p[k] /\ Shrunk(p, k)
    BY <1>1, <2>1 DEF IInv, Walked
  <2>3. QED
    BY <1>1, <1>2, <2>1, <2>2, JumpSizeLeft
<1>4. PICK s \in 1 .. Len(segs), at \in Int, size \in Nat, max \in Nat :
        /\ s = segment /\ at = segs[s].offset - saved
        /\ size = JumpSize(segment) /\ max = segs[s].max_size /\ size <= max
  <2>1. segment \in 1 .. Len(segs)
    BY <1>1, WalkReady
  <2>2. PICK max \in Nat : max = segs[segment].max_size
    BY <1>2 DEF SegmentType
  <2>3. PICK size \in Nat : size = JumpSize(segment) /\ size <= max
    BY <2>2, <1>3
  <2>4. PICK at \in Int : at = segs[segment].offset - saved
    BY <1>2 DEF SegmentType
  <2>5. QED
    BY <2>1, <2>2, <2>3, <2>4
<1>5. Moved(segs, segs', s, at, size)
  <2>1. segs' = [segs EXCEPT ![s].offset = at, ![s].final_size = size]
    BY <1>1, <1>4
  <2>2. QED
    BY <2>1, <1>2, MovedAndSized
<1>6. /\ Shape' /\ Len(segs') = Len(segs)
      /\ \A p : IsOrder(p, segs') => IsOrder(p, segs)
  <2>1. offset' \in Nat /\ saved' \in Nat /\ phase' \in Phases
    BY <1>1, <1>2, <1>4 DEF Phases
  <2>2. QED
    BY <2>1, <1>1, <1>5, MovedShape
<1>7. ASSUME NEW p, IsOrder(p, segs') PROVE Walked(p)'
  <2>1. IsOrder(p, segs)
    BY <1>6, <1>7
  <2>2. PICK k \in 1 .. Len(segs) : segment = p[k] /\ Shrunk(p, k)
    BY <1>1, <2>1 DEF IInv, Walked
  <2>3. \A n \in 1 .. Len(segs) : Along(segs, segs', p, k, at, size, n)
    <3>1. Moved(segs, segs', p[k], at, size)
      BY <1>4, <1>5, <2>2
    <3>2. QED
      BY <3>1, <1>2, <2>1, MovedAlong
  <2>4. PICK delta \in 0 .. segs[p[k]].max_size : delta = max - size
    BY <1>4, <2>2
  <2>5. /\ at = segs[p[k]].offset - saved
        /\ segs[p[k]].type = "jump"
        /\ segs[p[k]].max_size = delta + size
        /\ offset' = offset /\ saved' = saved + delta
    BY <1>1, <1>2, <1>4, <2>2, <2>4
  <2>6. size = 0 =>
          \A m \in 1 .. Len(segs) :
            segs[p[k]].jump_to = p[m] => m > k /\ Position(p, k, m) = Position(p, k, k + 1)
    BY <1>2, <1>4, <2>1, <2>2, <2>5, JumpSizeLeft
  <2>7. Shrunk(p, k + 1)'
    BY <1>2, <1>6, <2>1, <2>2, <2>3, <2>5, <2>6, ShrunkStep
  <2>8. QED
    BY <1>1, <1>2, <1>6, <2>1, <2>2, <2>7, ShrunkWalked
<1>8. ~Emitting'
  BY <1>1 DEF Emitting
<1>9. QED
  BY <1>6, <1>7, <1>8 DEF IInv

LEMMA AllocateIInv ==
  ASSUME IInv, Allocate
  PROVE  IInv'
<1>1. /\ phase = "write" /\ phase' \in {"exit", "done"}
      /\ UNCHANGED <<segs, writer, segment, offset, saved>>
  BY DEF Allocate
<1>2. Shape'
  BY <1>1 DEF IInv, Shape, Phases
<1>3. ASSUME NEW p, IsOrder(p, segs') PROVE Walked(p)'
  <2>1. Shrunk(p, Len(segs) + 1)
    BY <1>1, <1>3 DEF IInv, Walked
  <2>2. Shrunk(p, Len(segs) + 1)'
    BY <2>1, <1>1 DEF Shrunk, Position, Extent, Length
  <2>3. QED
    BY <2>2, <1>1 DEF Walked
<1>4. QED
  BY <1>1, <1>2, <1>3 DEF IInv, Emitting

LEMMA NextIInv ==
  ASSUME IInv, Next
  PROVE  IInv'
<1>1. CASE Terminate
  BY <1>1, ReturnIInv, BranchIInv, CBranchIInv, MissingIInv DEF Terminate
<1>2. CASE \E n \in Sizes : Instructions(n)
  BY <1>2, InstructionsIInv
<1>3. QED
  BY <1>1, <1>2, AssertIInv, NextBlockIInv, PrologueIInv, PlaceIInv, ShrinkJumpIInv,
     ShrinkOtherIInv, AllocateIInv DEF Next

LEMMA StutterIInv ==
  ASSUME IInv, UNCHANGED vars
  PROVE  IInv'
  BY DEF IInv, vars, Shape, Emitting, EmitShape, Walked, Placed, Shrunk, Position, Extent, Length

\* The layout of the code, whatever is emitted: the invariant of every reachable
\* state, from which the properties below follow.
THEOREM LayoutInvariant == Spec => []IInv
<1>1. Init => IInv
  BY InitIInv
<1>2. IInv /\ [Next]_vars => IInv'
  BY NextIInv, StutterIInv
<1>3. QED
  BY <1>1, <1>2, PTL DEF Spec

-----------------------------------------------------------------------------
(***************************************************************************)
(* The properties.                                                         *)
(***************************************************************************)
\* Following next_segment from the first label goes along the order of the list.
LEMMA ReachedIsAll ==
  ASSUME Good(segs)
  PROVE  Reached = DOMAIN segs
<1>1. segs \in Seq(SegmentType) /\ Len(segs) \in Nat /\ Len(segs) > 0
  BY DEF Good
<1>2. PICK p : IsOrder(p, segs)
  BY DEF Good
<1>. DEFINE Def(f) == [n \in DOMAIN segs |->
                         IF n = 1 THEN FirstLabel
                         ELSE LET s == f[n - 1] IN IF s = 0 THEN 0 ELSE segs[s].next]
            after == CHOOSE f : f = Def(f)
<1>3. p \in [1 .. Len(segs) -> 1 .. Len(segs)] /\ p[1] = FirstLabel
  BY <1>2 DEF IsOrder, Permutes
<1>4. ASSUME NEW n \in 1 .. Len(segs)
      PROVE  segs[p[n]].next = IF n = Len(segs) THEN 0 ELSE p[n + 1]
  BY <1>2 DEF IsOrder
<1>5. p = Def(p)
  <2>1. ASSUME NEW n \in 1 .. Len(segs), n # 1
        PROVE  p[n] = IF p[n - 1] = 0 THEN 0 ELSE segs[p[n - 1]].next
    <3>1. n - 1 \in 1 .. Len(segs) /\ n - 1 # Len(segs) /\ (n - 1) + 1 = n
      BY <2>1, <1>1
    <3>2. segs[p[n - 1]].next = p[n] /\ p[n - 1] \in 1 .. Len(segs)
      BY <3>1, <1>3, <1>4
    <3>3. QED
      BY <3>2
  <2>2. QED
    BY <2>1, <1>1, <1>3
<1>6. after = Def(after)
  <2>. HIDE DEF Def
  <2>1. QED
    BY <1>5
<1>7. Reached = {after[n] : n \in DOMAIN segs}
  BY DEF Reached
<1>. HIDE DEF after
<1>8. ASSUME NEW f, NEW g, f = Def(g), NEW n \in 1 .. Len(segs)
      PROVE  f[n] = IF n = 1 THEN FirstLabel
                    ELSE IF g[n - 1] = 0 THEN 0 ELSE segs[g[n - 1]].next
  BY <1>1, <1>8
<1>9. ASSUME NEW n \in 1 .. Len(segs)
      PROVE  after[n] = IF n = 1 THEN FirstLabel
                        ELSE IF after[n - 1] = 0 THEN 0 ELSE segs[after[n - 1]].next
  <2>. HIDE DEF Def
  <2>1. QED
    BY <1>6, <1>8
<1>10. \A n \in 1 .. Len(segs) : after[n] = p[n]
  <2>1. PICK len \in Nat : len = Len(segs) /\ len > 0
    BY <1>1
  <2>4. after[1] = FirstLabel
    BY <2>1, <1>9
  <2>. DEFINE T == {n \in 1 .. len : after[n] = p[n]}
  <2>5. 1 \in T
    BY <2>1, <2>4, <1>3
  <2>6. ASSUME NEW n \in 1 .. len - 1, n \in T PROVE n + 1 \in T
    <3>1. n \in 1 .. len /\ n + 1 \in 1 .. len /\ n + 1 # 1 /\ (n + 1) - 1 = n /\ n # len
          /\ after[n] = p[n]
      BY <2>6
    <3>2. after[n + 1] = IF after[n] = 0 THEN 0 ELSE segs[after[n]].next
      BY <3>1, <2>1, <1>9
    <3>3. p[n] \in 1 .. len /\ segs[p[n]].next = p[n + 1]
      BY <3>1, <2>1, <1>3, <1>4
    <3>4. after[n + 1] = p[n + 1]
      BY <3>1, <3>2, <3>3
    <3>5. QED
      BY <3>1, <3>4
  <2>7. 1 .. len \subseteq T
    <3>. HIDE DEF T
    <3>1. QED
      BY <2>1, <2>5, <2>6, IntervalByInduction
  <2>8. QED
    BY <2>1, <2>7
<1>11. {p[n] : n \in 1 .. Len(segs)} = 1 .. Len(segs)
  <2>1. \A s \in 1 .. Len(segs) : \E n \in 1 .. Len(segs) : p[n] = s
    BY <1>2 DEF IsOrder, Permutes
  <2>2. \A n \in 1 .. Len(segs) : p[n] \in 1 .. Len(segs)
    BY <1>3
  <2>3. QED
    BY <2>1, <2>2
<1>12. Reached = 1 .. Len(segs)
  BY <1>1, <1>7, <1>10, <1>11
<1>13. QED
  BY <1>1, <1>12

\* Whatever is emitted, next_segment leads from the first label through every
\* segment, once, and prev_segment back: create_segment_code and its like never
\* cut the list or tie it into a ring.
THEOREM ListOrdered == Spec => []ListHoldsEverySegment
<1>1. IInv => ListHoldsEverySegment
  <2>1. SUFFICES ASSUME IInv PROVE ListHoldsEverySegment
    OBVIOUS
  <2>2. Good(segs) /\ segs \in Seq(SegmentType)
    BY <2>1 DEF IInv, Shape, Good
  <2>3. ASSUME NEW s \in 1 .. Len(segs)
        PROVE  /\ segs[s].next # 0 => segs[segs[s].next].prev = s
               /\ segs[s].prev # 0 => segs[segs[s].prev].next = s
    BY <2>2 DEF Good, Linked
  <2>4. \A s \in DOMAIN segs :
          /\ segs[s].next # 0 => segs[segs[s].next].prev = s
          /\ segs[s].prev # 0 => segs[segs[s].prev].next = s
    BY <2>2, <2>3
  <2>5. QED
    BY <2>2, <2>4, ReachedIsAll DEF ListHoldsEverySegment
<1>2. QED
  BY <1>1, LayoutInvariant, PTL

\* asm_emit_byte and asm_emit_jmp always write right behind the label of the
\* block, emit_assert_loc_i32 right before the common error exit, and no piece of
\* code outgrows its array, whatever was emitted before.
THEOREM CodeGoesInFront == Spec => []EmitsInFront
<1>1. IInv => EmitsInFront
  <2>1. SUFFICES ASSUME IInv PROVE EmitsInFront
    OBVIOUS
  <2>2. Good(segs) /\ segs \in Seq(SegmentType) /\ segs[writer.curr].type = "code"
    BY <2>1 DEF IInv, Shape, Good
  <2>3. Emitting => segs[writer.label].next = writer.curr /\ segs[errs].next = ErrReturn
    BY <2>1 DEF IInv, EmitShape, InFront, ErrsAt
  <2>4. \A s \in DOMAIN segs : segs[s].type = "code" => segs[s].max_size <= CodeCapacity
    BY <2>2 DEF Good, Sized
  <2>5. QED
    BY <2>2, <2>3, <2>4 DEF EmitsInFront
<1>2. QED
  BY <1>1, LayoutInvariant, PTL

\* What the invariant says of the list when the jumps have been shrunk.
LEMMA StitchedOrder ==
  ASSUME IInv, Stitched
  PROVE  /\ Good(segs) /\ offset \in Nat /\ saved \in Nat
         /\ \E p : IsOrder(p, segs) /\ Shrunk(p, Len(segs) + 1)
  BY DEF IInv, Shape, Good, Stitched, Walked

\* After the first two walks of stitch_segments the segments lie side by side, and
\* the size it allocates is that of all of them.
THEOREM CodeLeavesNoGap == Spec => []OffsetsAreContiguous
<1>1. IInv => OffsetsAreContiguous
  <2>1. SUFFICES ASSUME IInv, Stitched
                 PROVE  /\ segs[FirstLabel].offset = 0
                        /\ \A s \in DOMAIN segs :
                             segs[s].offset + Length(s) =
                               IF segs[s].next = 0 THEN offset - saved
                               ELSE segs[segs[s].next].offset
    BY DEF OffsetsAreContiguous
  <2>1a. PICK len \in Nat : len = Len(segs) /\ len > 0
    BY <2>1, StitchedOrder DEF Good
  <2>2. PICK p : /\ len = Len(segs) /\ len > 0
                 /\ Good(segs) /\ IsOrder(p, segs) /\ Shrunk(p, len + 1)
    BY <2>1, <2>1a, StitchedOrder
  <2>3. ASSUME NEW n \in 1 .. len
        PROVE  /\ Position(p, len + 1, n) = segs[p[n]].offset
               /\ Extent(p, len + 1, n) = Length(p[n])
    BY <2>2 DEF Position, Extent
  <2>4. Position(p, len + 1, len + 1) = offset - saved
    BY <2>2 DEF Position
  <2>5. segs[FirstLabel].offset = 0
    BY <2>2, <2>3, OrderedAt DEF Shrunk
  <2>6. ASSUME NEW n \in 1 .. len
        PROVE  segs[p[n]].offset + Length(p[n]) =
                 IF n = len THEN offset - saved ELSE segs[p[n + 1]].offset
    <3>1. Position(p, len + 1, n) + Extent(p, len + 1, n) = Position(p, len + 1, n + 1)
      BY <2>2 DEF Shrunk
    <3>2. n # len => n + 1 \in 1 .. len
      OBVIOUS
    <3>3. QED
      BY <3>1, <3>2, <2>3, <2>4
  <2>7. ASSUME NEW s \in 1 .. len
        PROVE  segs[s].offset + Length(s) =
                 IF segs[s].next = 0 THEN offset - saved ELSE segs[segs[s].next].offset
    <3>1. PICK n \in 1 .. len : p[n] = s
      BY <2>2 DEF IsOrder, Permutes
    <3>2. segs[s].next = IF n = len THEN 0 ELSE p[n + 1]
      BY <3>1, <2>2, OrderedAt
    <3>3. n # len => p[n + 1] # 0
      <4>1. n # len => n + 1 \in 1 .. len
        OBVIOUS
      <4>2. QED
        BY <4>1, <2>2, OrderedAt
    <3>4. QED
      BY <3>1, <3>2, <3>3, <2>6
  <2>8. segs \in Seq(SegmentType)
    BY <2>2 DEF Good
  <2>9. QED
    BY <2>2, <2>5, <2>7, <2>8
<1>2. QED
  BY <1>1, LayoutInvariant, PTL

\* A jump that was left out has nothing between it and its label.
LEMMA LeftOutJumpsLeadOn ==
  ASSUME IInv, Stitched, NEW s \in 1 .. Len(segs),
         segs[s].type = "jump", segs[s].final_size = 0
  PROVE  segs[segs[s].jump_to].offset = segs[s].offset
<1>0. PICK len \in Nat : len = Len(segs)
  BY StitchedOrder DEF Good
<1>1. PICK p : /\ len = Len(segs)
               /\ Good(segs) /\ IsOrder(p, segs) /\ Shrunk(p, len + 1)
  BY <1>0, StitchedOrder
<1>2. segs[s].jump_to \in 1 .. len
  BY <1>1 DEF Good, Sized
<1>3. PICK n \in 1 .. len, m \in 1 .. len : p[n] = s /\ p[m] = segs[s].jump_to
  <2>1. \A t \in 1 .. len : \E n \in 1 .. len : p[n] = t
    BY <1>1 DEF IsOrder, Permutes
  <2>2. PICK to \in 1 .. len : to = segs[s].jump_to
    BY <1>2
  <2>3. PICK n \in 1 .. len : p[n] = s
    BY <2>1, <1>1
  <2>4. PICK m \in 1 .. len : p[m] = to
    BY <2>1
  <2>5. QED
    BY <2>2, <2>3, <2>4
<1>4. Position(p, len + 1, m) = Position(p, len + 1, n)
  <2>1. n \in 1 .. (len + 1) - 1
    OBVIOUS
  <2>2. QED
    BY <2>1, <1>1, <1>3, SMTT(30) DEF Shrunk
<1>5. \A i \in 1 .. len : Position(p, len + 1, i) = segs[p[i]].offset
  BY <1>1 DEF Position
<1>6. QED
  BY <1>3, <1>4, <1>5

\* What stitch_segments writes into a jump leads to its label, but for a short
\* jump that goes further than a signed byte: also for a jump that was measured
\* when its target had not been moved yet.
THEOREM JumpsLand == Spec => []JumpsLandWithinReach
<1>1. IInv => JumpsLandWithinReach
  <2>1. SUFFICES ASSUME IInv, Stitched, NEW s \in DOMAIN segs, segs[s].type = "jump"
                 PROVE  segs[s].offset + segs[s].final_size + Written(s) = segs[segs[s].jump_to].offset
                          <=> Reaches(s)
    BY DEF JumpsLandWithinReach
  <2>2. Good(segs) /\ segs \in Seq(SegmentType)
    BY <2>1 DEF IInv, Shape, Good
  <2>3. s \in 1 .. Len(segs)
    BY <2>1, <2>2
  <2>4. segs[s].jump_to \in 1 .. Len(segs)
    BY <2>1, <2>2, <2>3 DEF Good, Sized
  <2>5. PICK at \in Int, to \in Int, size \in Nat :
          /\ at = segs[s].offset /\ to = segs[segs[s].jump_to].offset
          /\ size = segs[s].final_size
    <3>1. segs[s] \in SegmentType /\ segs[segs[s].jump_to] \in SegmentType
      BY <2>2, <2>3, <2>4
    <3>2. QED
      BY <3>1 DEF SegmentType
  <2>6. CASE size = 0
    <3>1. to = at
      BY <2>1, <2>3, <2>5, <2>6, LeftOutJumpsLeadOn
    <3>2. Written(s) = 0 /\ Reaches(s)
      BY <2>5, <2>6 DEF Written, Reaches
    <3>3. QED
      BY <3>1, <3>2, <2>5, <2>6
  <2>7. CASE size = 2
    <3>1. PICK distance \in Int, byte \in 0 .. 255, high \in Int :
            /\ distance = to - (at + size) /\ byte = distance % 256
            /\ distance = 256 * high + byte
      <4>1. PICK distance \in Int : distance = to - (at + size)
        OBVIOUS
      <4>2. PICK byte \in 0 .. 255, high \in Int :
              byte = distance % 256 /\ high = distance \div 256
        OBVIOUS
      <4>3. distance = 256 * high + byte
        BY <4>2
      <4>4. QED
        BY <4>1, <4>2, <4>3, SMTT(30)
    <3>2. Written(s) = IF byte < 128 THEN byte ELSE byte - 256
      <4>1. segs[s].final_size = 2
        BY <2>5, <2>7
      <4>2. byte = (segs[segs[s].jump_to].offset - (segs[s].offset + segs[s].final_size)) % 256
        BY <3>1, <2>5, Zenon
      <4>3. 2 # 0
        OBVIOUS
      <4>4. QED
        BY <4>1, <4>2, <4>3, Zenon DEF Written
    <3>3. Reaches(s) <=> distance \in -128 .. 127
      BY <3>1, <2>5, <2>7 DEF Reaches
    <3>4. (IF byte < 128 THEN byte ELSE byte - 256) = distance <=> distance \in -128 .. 127
      <4>1. distance = 256 * high + byte
        BY <3>1
      <4>2. QED
        BY <4>1
    <3>5. at + size + Written(s) = to <=> Written(s) = distance
      BY <3>1, <3>2
    <3>6. QED
      BY <3>2, <3>3, <3>4, <3>5, <2>5
  <2>8. CASE size # 0 /\ size # 2
    <3>1. Written(s) = to - (at + size) /\ Reaches(s)
      BY <2>5, <2>8 DEF Written, Reaches
    <3>2. QED
      BY <3>1, <2>5
  <2>9. QED
    BY <2>6, <2>7, <2>8
<1>2. QED
  BY <1>1, LayoutInvariant, PTL

=============================================================================
