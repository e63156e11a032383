--------------------------- MODULE HashTableProofs ---------------------------
(***************************************************************************)
(* The hash table of hash_table.c, for every set of keys, every number of  *)
(* slots and every hash function: its invariants, and that it implements   *)
(* the ordered map.  The probe is a CHOOSE over the blocks; NoHole says    *)
(* how far the entries of a slot reach, which gives the block the probe    *)
(* stops at without an induction.                                          *)
(***************************************************************************)
EXTENDS HashTable, TLAPS, SequenceTheorems

IInv ==
  /\ TypeOK
  /\ NoHole
  /\ OneEntryPerKey
  /\ ThreadVisitsEveryEntry

HasEntry(k) == \E p \in Positions : Entry(p).key = k

-----------------------------------------------------------------------------
(***************************************************************************)
(* The probe.                                                              *)
(***************************************************************************)
LEMMA BlockType ==
  ASSUME TypeOK, NEW b \in 1 .. Len(blocks), NEW s \in Slots
  PROVE  /\ Len(blocks) \in Nat
         /\ <<b, s>> \in Positions
         /\ Entry(<<b, s>>) = blocks[b][s]
         /\ blocks[b][s] \in EntryType
  BY DEF TypeOK, Positions, Entry

\* Where the probe stops: at the key's entry when there is one, and otherwise
\* right behind the entries of its slot.
LEMMA ProbeStops ==
  ASSUME TypeOK, NoHole, OneEntryPerKey, NEW k \in Keys
  PROVE  /\ Probe(k) \in 1 .. Len(blocks) + 1
         /\ StopsAt(k, Probe(k))
         /\ \A c \in 1 .. (Probe(k) - 1) : ~StopsAt(k, c)
<1>. DEFINE s == SlotOf[k]
            First(b) == /\ StopsAt(k, b)
                        /\ \A c \in 1 .. (b - 1) : ~StopsAt(k, c)
<1>1. s \in Slots /\ k # Null /\ Len(blocks) \in Nat
  BY TableAssumption DEF TypeOK
<1>2. PICK depth \in 0 .. Len(blocks) :
        \A b \in 1 .. Len(blocks) : Occupied(<<b, s>>) <=> b <= depth
  BY <1>1 DEF NoHole
<1>3. \A b \in 1 .. Len(blocks) :
        /\ Entry(<<b, s>>) = blocks[b][s]
        /\ <<b, s>> \in Positions
        /\ blocks[b][s].key # Null <=> b <= depth
  BY <1>1, <1>2, BlockType DEF Occupied
<1>4. \E b \in 1 .. Len(blocks) + 1 : First(b)
  <2>1. CASE \E b \in 1 .. Len(blocks) : blocks[b][s].key = k
    <3>1. PICK b \in 1 .. Len(blocks) : blocks[b][s].key = k
      BY <2>1
    <3>2. \A c \in 1 .. Len(blocks) : blocks[c][s].key = k => c = b
      <4>1. ASSUME NEW c \in 1 .. Len(blocks), blocks[c][s].key = k PROVE c = b
        <5>1. Occupied(<<b, s>>) /\ Entry(<<b, s>>).key = Entry(<<c, s>>).key
          BY <3>1, <4>1, <1>1, <1>3 DEF Occupied
        <5>2. <<b, s>> = <<c, s>>
          BY <5>1, <1>3 DEF OneEntryPerKey
        <5>3. QED
          BY <5>2
      <4>2. QED
        BY <4>1
    <3>3. b <= depth
      BY <1>1, <1>3, <3>1
    <3>4. \A c \in 1 .. (b - 1) : ~StopsAt(k, c)
      <4>1. ASSUME NEW c \in 1 .. (b - 1) PROVE ~StopsAt(k, c)
        <5>1. c \in 1 .. Len(blocks) /\ c <= depth /\ c # b
          BY <1>1, <3>3
        <5>2. blocks[c][s].key # Null /\ blocks[c][s].key # k
          BY <5>1, <1>3, <3>2
        <5>3. QED
          BY <5>1, <5>2, <1>1 DEF StopsAt
      <4>2. QED
        BY <4>1
    <3>5. First(b)
      BY <3>1, <3>4 DEF StopsAt
    <3>6. QED
      BY <3>5, <1>1
  <2>2. CASE ~ \E b \in 1 .. Len(blocks) : blocks[b][s].key = k
    <3>1. StopsAt(k, depth + 1)
      <4>1. CASE depth = Len(blocks)
        BY <4>1 DEF StopsAt
      <4>2. CASE depth # Len(blocks)
        <5>1. depth + 1 \in 1 .. Len(blocks) /\ ~(depth + 1 <= depth)
          BY <4>2, <1>1
        <5>2. blocks[depth + 1][s].key = Null
          BY <5>1, <1>3
        <5>3. QED
          BY <5>2 DEF StopsAt
      <4>3. QED
        BY <4>1, <4>2
    <3>2. \A c \in 1 .. depth : ~StopsAt(k, c)
      <4>1. ASSUME NEW c \in 1 .. depth PROVE ~StopsAt(k, c)
        <5>1. c \in 1 .. Len(blocks) /\ c # Len(blocks) + 1 /\ c <= depth
          BY <1>1
        <5>2. blocks[c][s].key # Null
          BY <5>1, <1>3
        <5>3. blocks[c][s].key # k
          BY <5>1, <2>2
        <5>4. QED
          BY <5>1, <5>2, <5>3 DEF StopsAt
      <4>2. QED
        BY <4>1
    <3>3. (depth + 1) - 1 = depth /\ depth + 1 \in 1 .. Len(blocks) + 1
      BY <1>1
    <3>4. First(depth + 1)
      BY <3>1, <3>2, <3>3
    <3>5. QED
      BY <3>3, <3>4
  <2>3. QED
    BY <2>1, <2>2
<1>5. QED
  BY <1>4 DEF Probe

\* The probe finds a key exactly when the key has an entry, and it finds that one.
LEMMA FoundIffEntry ==
  ASSUME TypeOK, NoHole, OneEntryPerKey, NEW k \in Keys
  PROVE  /\ Found(k) <=> HasEntry(k)
         /\ Found(k) => /\ <<Probe(k), SlotOf[k]>> \in Positions
                        /\ Entry(<<Probe(k), SlotOf[k]>>).key = k
                        /\ Lookup(k) = Entry(<<Probe(k), SlotOf[k]>>).value
<1>. DEFINE s == SlotOf[k]
<1>1. s \in Slots /\ k # Null /\ Len(blocks) \in Nat
  BY TableAssumption DEF TypeOK
<1>2. /\ Probe(k) \in 1 .. Len(blocks) + 1
      /\ StopsAt(k, Probe(k))
      /\ \A c \in 1 .. (Probe(k) - 1) : ~StopsAt(k, c)
  BY ProbeStops
<1>3. Found(k) => /\ Probe(k) \in 1 .. Len(blocks)
                  /\ blocks[Probe(k)][s].key = k
  BY <1>1, <1>2 DEF Found
<1>4. Found(k) => /\ <<Probe(k), s>> \in Positions
                  /\ Entry(<<Probe(k), s>>).key = k
                  /\ Lookup(k) = Entry(<<Probe(k), s>>).value
  BY <1>1, <1>3, BlockType DEF Lookup
<1>5. ASSUME HasEntry(k) PROVE Found(k)
  <2>1. PICK p \in Positions : Entry(p).key = k
    BY <1>5 DEF HasEntry
  <2>2. p[2] = s /\ p[1] \in 1 .. Len(blocks) /\ p = <<p[1], s>>
    BY <2>1, <1>1 DEF OneEntryPerKey, Occupied, Positions
  <2>3. blocks[p[1]][s].key = k
    BY <2>1, <2>2 DEF Entry
  <2>4. StopsAt(k, p[1])
    BY <2>3 DEF StopsAt
  <2>5. Probe(k) <= p[1]
    BY <1>1, <1>2, <2>2, <2>4
  <2>6. Probe(k) \in 1 .. Len(blocks)
    BY <1>1, <1>2, <2>2, <2>5
  <2>7. CASE blocks[Probe(k)][s].key = k
    BY <2>6, <2>7, <1>1 DEF Found
  <2>8. CASE blocks[Probe(k)][s].key = Null
    <3>1. PICK depth \in 0 .. Len(blocks) :
            \A b \in 1 .. Len(blocks) : Occupied(<<b, s>>) <=> b <= depth
      BY <1>1 DEF NoHole
    <3>2. Occupied(<<p[1], s>>) /\ ~Occupied(<<Probe(k), s>>)
      BY <1>1, <2>2, <2>3, <2>6, <2>8, BlockType DEF Occupied
    <3>3. QED
      BY <3>1, <3>2, <2>2, <2>5, <2>6, <1>1
  <2>9. blocks[Probe(k)][s].key \in {Null, k}
    BY <1>1, <1>2, <2>6 DEF StopsAt
  <2>10. QED
    BY <2>7, <2>8, <2>9
<1>6. Found(k) => HasEntry(k)
  BY <1>4 DEF HasEntry
<1>7. QED
  BY <1>4, <1>5, <1>6

\* Whatever the probe's path, the answer for a key is the value in its entry.
LookupRight ==
  \A k \in Keys :
    /\ \A p \in Positions : Entry(p).key = k => Lookup(k) = Entry(p).value
    /\ ~HasEntry(k) => Lookup(k) = Absent
    /\ Found(k) <=> HasEntry(k)

LEMMA LookupIsEntry == IInv => LookupRight
<1>. SUFFICES ASSUME IInv, NEW k \in Keys
     PROVE  /\ \A p \in Positions : Entry(p).key = k => Lookup(k) = Entry(p).value
            /\ ~HasEntry(k) => Lookup(k) = Absent
            /\ Found(k) <=> HasEntry(k)
  BY DEF LookupRight
<1>0. TypeOK /\ NoHole /\ OneEntryPerKey
  BY DEF IInv
<1>1. ~HasEntry(k) => Lookup(k) = Absent
  BY <1>0, FoundIffEntry DEF Lookup
<1>2. ASSUME NEW p \in Positions, Entry(p).key = k
      PROVE  Lookup(k) = Entry(p).value
  <2>. DEFINE q == <<Probe(k), SlotOf[k]>>
  <2>1. /\ q \in Positions
        /\ Entry(q).key = k
        /\ Lookup(k) = Entry(q).value
    BY <1>0, <1>2, FoundIffEntry DEF HasEntry
  <2>2. Occupied(p)
    BY <1>2, TableAssumption DEF Occupied
  <2>3. p = q
    BY <1>0, <1>2, <2>1, <2>2 DEF OneEntryPerKey
  <2>4. QED
    BY <2>1, <2>3
<1>3. QED
  BY <1>0, <1>1, <1>2, FoundIffEntry

-----------------------------------------------------------------------------
(***************************************************************************)
(* Appending a block and writing one entry.                                *)
(***************************************************************************)
LEMMA GrownShape ==
  ASSUME IInv, NEW k \in Keys
  PROVE  /\ Grown(k) \in Seq([Slots -> EntryType])
         /\ Len(Grown(k)) = IF Probe(k) > Len(blocks) THEN Len(blocks) + 1 ELSE Len(blocks)
         /\ \A c \in 1 .. Len(blocks) : Grown(k)[c] = blocks[c]
         /\ Probe(k) > Len(blocks) => Grown(k)[Len(blocks) + 1] = ZeroBlock
         /\ Probe(k) \in 1 .. Len(Grown(k))
         /\ Len(blocks) \in Nat
<1>1. blocks \in Seq([Slots -> EntryType]) /\ Len(blocks) \in Nat
  BY DEF IInv, TypeOK
<1>2. ZeroBlock \in [Slots -> EntryType]
  BY TableAssumption DEF ZeroBlock, ZeroEntry, EntryType
<1>3. /\ Append(blocks, ZeroBlock) \in Seq([Slots -> EntryType])
      /\ Len(Append(blocks, ZeroBlock)) = Len(blocks) + 1
      /\ \A c \in 1 .. Len(blocks) : Append(blocks, ZeroBlock)[c] = blocks[c]
      /\ Append(blocks, ZeroBlock)[Len(blocks) + 1] = ZeroBlock
  BY <1>1, <1>2, AppendProperties
<1>4. Probe(k) \in 1 .. Len(blocks) + 1
  BY ProbeStops DEF IInv
<1>5. QED
  BY <1>1, <1>3, <1>4 DEF Grown

LEMMA WriteShape ==
  ASSUME IInv, NEW k \in Keys, NEW e \in EntryType,
         NEW nb, nb = With(Grown(k), Probe(k), SlotOf[k], e)
  PROVE  /\ nb \in Seq([Slots -> EntryType])
         /\ Len(nb) = Len(Grown(k))
         /\ Len(nb) \in Nat
         /\ Len(nb) \in {Len(blocks), Len(blocks) + 1}
         /\ Probe(k) \in 1 .. Len(nb)
         /\ SlotOf[k] \in Slots
         /\ nb[Probe(k)][SlotOf[k]] = e
         /\ \A c \in 1 .. Len(nb), t \in Slots :
              <<c, t>> # <<Probe(k), SlotOf[k]>> =>
                nb[c][t] = IF c <= Len(blocks) THEN blocks[c][t] ELSE ZeroEntry
         /\ Len(nb) # Len(blocks) => Probe(k) = Len(blocks) + 1
<1>. DEFINE g == Grown(k)
            b == Probe(k)
            s == SlotOf[k]
<1>1. /\ g \in Seq([Slots -> EntryType])
      /\ Len(g) = IF b > Len(blocks) THEN Len(blocks) + 1 ELSE Len(blocks)
      /\ \A c \in 1 .. Len(blocks) : g[c] = blocks[c]
      /\ b > Len(blocks) => g[Len(blocks) + 1] = ZeroBlock
      /\ b \in 1 .. Len(g)
      /\ Len(blocks) \in Nat
  BY GrownShape
<1>2. s \in Slots
  BY TableAssumption
<1>3. g[b] \in [Slots -> EntryType]
  BY <1>1
<1>4. /\ [g[b] EXCEPT ![s] = e] \in [Slots -> EntryType]
      /\ [g[b] EXCEPT ![s] = e][s] = e
      /\ \A t \in Slots : t # s => [g[b] EXCEPT ![s] = e][t] = g[b][t]
  BY <1>2, <1>3
<1>5. nb = [g EXCEPT ![b] = [g[b] EXCEPT ![s] = e]]
  BY DEF With
<1>. HIDE DEF g
<1>6. /\ nb \in Seq([Slots -> EntryType])
      /\ Len(nb) = Len(g)
      /\ \A c \in 1 .. Len(g) : nb[c] = IF c = b THEN [g[b] EXCEPT ![s] = e] ELSE g[c]
  BY <1>1, <1>4, <1>5, ExceptSeq
<1>7. \A c \in 1 .. Len(g), t \in Slots :
        g[c][t] = IF c <= Len(blocks) THEN blocks[c][t] ELSE ZeroEntry
  BY <1>1 DEF ZeroBlock
<1>8. \A c \in 1 .. Len(nb), t \in Slots :
        <<c, t>> # <<b, s>> => nb[c][t] = g[c][t]
  BY <1>1, <1>4, <1>6
<1>9. nb[b][s] = e
  BY <1>1, <1>4, <1>6
<1>10. /\ Len(nb) \in {Len(blocks), Len(blocks) + 1}
       /\ Len(nb) # Len(blocks) => b = Len(blocks) + 1
       /\ Len(nb) \in Nat
  BY <1>1, <1>6
<1>11. QED
  BY <1>1, <1>2, <1>6, <1>7, <1>8, <1>9, <1>10 DEF g

-----------------------------------------------------------------------------
(***************************************************************************)
(* Filling a free entry (hash_table_insert and hash_table_get_ptr).        *)
(***************************************************************************)
LEMMA FillShape ==
  ASSUME IInv, NEW k \in Keys, NEW v \in Values, ~Found(k), Fill(k, v),
         NEW b, b = Probe(k)
  PROVE  LET new == <<b, SlotOf[k]>> IN
         /\ blocks' \in Seq([Slots -> EntryType])
         /\ Len(blocks') \in {Len(blocks), Len(blocks) + 1}
         /\ Len(blocks) \in Nat
         /\ new \in Positions'
         /\ new \in Positions => ~Occupied(new)
         /\ Entry(new)' = [key |-> k, value |-> v, prev |-> last_entry]
         /\ \A p \in Positions' : p # new =>
              IF p \in Positions THEN Entry(p)' = Entry(p) ELSE Entry(p)' = ZeroEntry
         /\ Positions \subseteq Positions'
         /\ \A c \in 1 .. Len(blocks) : Occupied(<<c, SlotOf[k]>>) <=> c <= b - 1
         /\ Len(blocks') # Len(blocks) => b = Len(blocks) + 1
         /\ b - 1 \in 0 .. Len(blocks)
<1>. DEFINE s == SlotOf[k]
<1>0. TypeOK /\ NoHole /\ OneEntryPerKey
  BY DEF IInv
<1>1. PICK e \in EntryType : e = [key |-> k, value |-> v, prev |-> last_entry]
  <2>1. [key |-> k, value |-> v, prev |-> last_entry] \in EntryType
    BY <1>0 DEF TypeOK, EntryType, Positions
  <2>2. QED
    BY <2>1
<1>2. /\ blocks' \in Seq([Slots -> EntryType])
      /\ Len(blocks') \in Nat
      /\ Len(blocks') \in {Len(blocks), Len(blocks) + 1}
      /\ b \in 1 .. Len(blocks')
      /\ s \in Slots
      /\ blocks'[b][s] = e
      /\ \A c \in 1 .. Len(blocks'), t \in Slots :
           <<c, t>> # <<b, s>> =>
             blocks'[c][t] = IF c <= Len(blocks) THEN blocks[c][t] ELSE ZeroEntry
      /\ Len(blocks') # Len(blocks) => b = Len(blocks) + 1
  <2>1. \A nb : nb = blocks' => nb = With(Grown(k), Probe(k), SlotOf[k], e)
    BY <1>1 DEF Fill
  <2>2. QED
    BY <2>1, WriteShape
<1>3. /\ b \in 1 .. Len(blocks) + 1
      /\ StopsAt(k, b)
      /\ \A c \in 1 .. (b - 1) : ~StopsAt(k, c)
  BY <1>0, ProbeStops
<1>4. Len(blocks) \in Nat
  BY <1>0 DEF TypeOK
<1>5. b \in 1 .. Len(blocks) => blocks[b][s].key = Null
  BY <1>3, <1>4 DEF StopsAt, Found
<1>6. \A c \in 1 .. Len(blocks) : Occupied(<<c, s>>) <=> c <= b - 1
  <2>1. PICK depth \in 0 .. Len(blocks) :
          \A c \in 1 .. Len(blocks) : Occupied(<<c, s>>) <=> c <= depth
    BY <1>0, <1>2 DEF NoHole
  <2>2. ASSUME NEW c \in 1 .. Len(blocks), c <= b - 1 PROVE Occupied(<<c, s>>)
    BY <2>2, <1>0, <1>2, <1>3, <1>4, BlockType, SMTT(30) DEF StopsAt, Occupied
  <2>3. ASSUME NEW c \in 1 .. Len(blocks), ~(c <= b - 1) PROVE ~Occupied(<<c, s>>)
    <3>1. b \in 1 .. Len(blocks)
      BY <2>3, <1>3, <1>4
    <3>2. ~Occupied(<<b, s>>)
      BY <3>1, <1>0, <1>2, <1>5, BlockType DEF Occupied
    <3>3. b <= c /\ b > depth
      BY <2>1, <2>3, <3>1, <3>2, <1>4
    <3>4. QED
      BY <2>1, <2>3, <3>1, <3>3
  <2>4. QED
    BY <2>2, <2>3
<1>7. /\ <<b, s>> \in Positions'
      /\ Entry(<<b, s>>)' = e
      /\ Positions \subseteq Positions'
  BY <1>2, <1>4 DEF Positions, Entry
<1>8. <<b, s>> \in Positions => ~Occupied(<<b, s>>)
  BY <1>2, <1>4, <1>5 DEF Positions, Occupied, Entry
<1>9. \A p \in Positions' : p # <<b, s>> =>
        IF p \in Positions THEN Entry(p)' = Entry(p) ELSE Entry(p)' = ZeroEntry
  <2>1. ASSUME NEW p \in Positions', p # <<b, s>>
        PROVE  IF p \in Positions THEN Entry(p)' = Entry(p) ELSE Entry(p)' = ZeroEntry
    <3>1. /\ p[1] \in 1 .. Len(blocks') /\ p[2] \in Slots /\ p = <<p[1], p[2]>>
      BY DEF Positions
    <3>2. Entry(p)' = IF p[1] <= Len(blocks) THEN blocks[p[1]][p[2]] ELSE ZeroEntry
      BY <3>1, <2>1, <1>2 DEF Entry
    <3>3. p \in Positions <=> p[1] <= Len(blocks)
      BY <3>1, <1>2, <1>4 DEF Positions
    <3>4. QED
      BY <3>2, <3>3 DEF Entry
  <2>2. QED
    BY <2>1
<1>10. QED
  BY <1>1, <1>2, <1>3, <1>4, <1>6, <1>7, <1>8, <1>9

LEMMA FillIInv ==
  ASSUME IInv, NEW k \in Keys, NEW v \in Values, ~Found(k), Fill(k, v),
         NEW r \in [ok : BOOLEAN, value : Values \cup {Absent}], ret' = r
  PROVE  IInv'
<1>. PICK b : b = Probe(k)
  OBVIOUS
<1>. DEFINE s == SlotOf[k]
            new == <<b, s>>
            e == [key |-> k, value |-> v, prev |-> last_entry]
<1>0. TypeOK /\ NoHole /\ OneEntryPerKey /\ ThreadVisitsEveryEntry
  BY DEF IInv
<1>1. /\ blocks' \in Seq([Slots -> EntryType])
      /\ Len(blocks') \in {Len(blocks), Len(blocks) + 1}
      /\ Len(blocks) \in Nat
      /\ new \in Positions'
      /\ new \in Positions => ~Occupied(new)
      /\ Entry(new)' = e
      /\ \A p \in Positions' : p # new =>
           IF p \in Positions THEN Entry(p)' = Entry(p) ELSE Entry(p)' = ZeroEntry
      /\ Positions \subseteq Positions'
      /\ \A c \in 1 .. Len(blocks) : Occupied(<<c, s>>) <=> c <= b - 1
      /\ Len(blocks') # Len(blocks) => b = Len(blocks) + 1
      /\ b - 1 \in 0 .. Len(blocks)
  BY FillShape
<1>2. /\ last_entry' = new
      /\ len' = len + 1
      /\ inserted' = Append(inserted, new)
  BY DEF Fill
<1>3. s \in Slots /\ k # Null /\ new \in Nat \X Slots /\ b \in Nat
  BY <1>1, TableAssumption DEF Positions
<1>4. /\ inserted \in Seq(Nat \X Slots)
      /\ Len(inserted) \in Nat
      /\ len = Len(inserted)
  BY <1>0 DEF TypeOK, ThreadVisitsEveryEntry
<1>5. /\ inserted' \in Seq(Nat \X Slots)
      /\ Len(inserted') = Len(inserted) + 1
      /\ \A i \in 1 .. Len(inserted) : inserted'[i] = inserted[i]
      /\ inserted'[Len(inserted) + 1] = new
  BY <1>2, <1>3, <1>4, AppendProperties
<1>6. TypeOK'
  BY <1>0, <1>1, <1>2, <1>3, <1>5 DEF TypeOK
<1>7. \A p \in Positions' : Occupied(p)' <=> p = new \/ (p \in Positions /\ Occupied(p))
  BY <1>1, <1>3, SMTT(30) DEF Occupied, ZeroEntry
<1>8. \A c, t : <<c, t>> \in Positions <=> c \in 1 .. Len(blocks) /\ t \in Slots
  BY DEF Positions
<1>9. \A c, t : <<c, t>> \in Positions' <=> c \in 1 .. Len(blocks') /\ t \in Slots
  BY DEF Positions
<1>10. NoHole'
  <2>1. ASSUME NEW t \in Slots
        PROVE  \E depth \in 0 .. Len(blocks') :
                 \A c \in 1 .. Len(blocks') : Occupied(<<c, t>>)' <=> c <= depth
    <3>1. CASE t = s
      <4>1. b \in 0 .. Len(blocks')
        BY <1>1, <1>3, <1>9
      <4>2. ASSUME NEW c \in 1 .. Len(blocks')
            PROVE  Occupied(<<c, s>>)' <=> c <= b
        <5>1. <<c, s>> \in Positions'
          BY <1>3, <1>9
        <5>2. Occupied(<<c, s>>)' <=> c = b \/ (<<c, s>> \in Positions /\ Occupied(<<c, s>>))
          BY <5>1, <1>7
        <5>3. c <= b - 1 => c \in 1 .. Len(blocks)
          BY <1>1
        <5>4. c \in 1 .. Len(blocks) => (Occupied(<<c, s>>) <=> c <= b - 1)
          BY <1>1
        <5>5. <<c, s>> \in Positions <=> c \in 1 .. Len(blocks)
          BY <1>3, <1>8
        <5>6. QED
          BY <5>2, <5>3, <5>4, <5>5, <1>3
      <4>3. QED
        BY <3>1, <4>1, <4>2
    <3>2. CASE t # s
      <4>1. PICK depth \in 0 .. Len(blocks) :
              \A c \in 1 .. Len(blocks) : Occupied(<<c, t>>) <=> c <= depth
        BY <1>0 DEF NoHole
      <4>2. depth \in 0 .. Len(blocks')
        BY <1>1
      <4>3. \A c \in 1 .. Len(blocks') : Occupied(<<c, t>>)' <=> c <= depth
        BY <3>2, <4>1, <1>1, <1>7, <1>8, <1>9
      <4>4. QED
        BY <4>2, <4>3
    <3>3. QED
      BY <3>1, <3>2
  <2>2. QED
    BY <2>1 DEF NoHole
<1>11. OneEntryPerKey'
  <2>1. ~HasEntry(k)
    BY <1>0, FoundIffEntry
  <2>2. ASSUME NEW p \in Positions', NEW q \in Positions', Occupied(p)'
        PROVE  /\ p[2] = SlotOf[Entry(p)'.key]
               /\ Entry(p)'.key = Entry(q)'.key => p = q
    <3>1. CASE p = new
      <4>1. p[2] = SlotOf[Entry(p)'.key] /\ Entry(p)'.key = k
        BY <3>1, <1>1
      <4>2. ASSUME q # new PROVE Entry(q)'.key # k
        BY <4>2, <1>1, <1>3, <2>1 DEF ZeroEntry, HasEntry
      <4>3. QED
        BY <3>1, <4>1, <4>2
    <3>2. CASE p # new
      <4>1. p \in Positions /\ Occupied(p) /\ Entry(p)' = Entry(p)
        BY <3>2, <2>2, <1>1, <1>7
      <4>2. p[2] = SlotOf[Entry(p)'.key]
        BY <4>1, <1>0 DEF OneEntryPerKey
      <4>3. Entry(p).key # k /\ Entry(p).key # Null
        BY <4>1, <2>1 DEF HasEntry, Occupied
      <4>4. ASSUME Entry(p)'.key = Entry(q)'.key PROVE p = q
        <5>1. q # new
          BY <4>1, <4>3, <4>4, <1>1
        <5>2. q \in Positions /\ Entry(q)' = Entry(q)
          BY <5>1, <4>1, <4>3, <4>4, <1>1 DEF ZeroEntry
        <5>3. QED
          BY <4>1, <4>4, <5>2, <1>0 DEF OneEntryPerKey
      <4>5. QED
        BY <4>2, <4>4
    <3>3. QED
      BY <3>1, <3>2
  <2>3. QED
    BY <2>2 DEF OneEntryPerKey
<1>12. ThreadVisitsEveryEntry'
  <2>1. /\ len' = Len(inserted')
        /\ last_entry' = IF len' = 0 THEN Null ELSE inserted'[len']
        /\ len' \in Nat
    BY <1>2, <1>4, <1>5
  <2>2. \A i \in 1 .. len : /\ inserted[i] \in Positions
                            /\ Occupied(inserted[i])
                            /\ inserted[i] # new
    <3>1. \A i \in 1 .. len : inserted[i] \in Positions
      BY <1>0 DEF ThreadVisitsEveryEntry
    <3>2. \A i \in 1 .. len : Occupied(inserted[i])
      BY <3>1, <1>0 DEF ThreadVisitsEveryEntry
    <3>3. QED
      BY <3>1, <3>2, <1>1
  <2>3. ASSUME NEW i \in 1 .. len'
        PROVE  /\ inserted'[i] \in Positions'
               /\ Entry(inserted[i])'.prev = IF i = 1 THEN Null ELSE inserted'[i - 1]
    <3>. PICK q : q = inserted'[i]
      OBVIOUS
    <3>0. Entry(inserted[i])' = Entry(q)'
      BY DEF Entry
    <3>1. CASE i = len'
      <4>1. q = new
        BY <3>1, <1>2, <1>4, <1>5
      <4>2. Entry(q)'.prev = last_entry
        BY <4>1, <1>1
      <4>3. last_entry = IF i = 1 THEN Null ELSE inserted'[i - 1]
        BY <3>1, <1>0, <1>2, <1>4, <1>5 DEF ThreadVisitsEveryEntry
      <4>4. QED
        BY <3>0, <4>1, <4>2, <4>3, <1>1
    <3>2. CASE i # len'
      <4>1. i \in 1 .. len /\ q = inserted[i]
        BY <3>2, <1>2, <1>4, <1>5
      <4>2. q \in Positions' /\ Entry(q)' = Entry(q)
        BY <4>1, <2>2, <1>1
      <4>3. Entry(q).prev = IF i = 1 THEN Null ELSE inserted[i - 1]
        BY <4>1, <1>0 DEF ThreadVisitsEveryEntry
      <4>4. i # 1 => inserted'[i - 1] = inserted[i - 1]
        BY <4>1, <1>4, <1>5, SMTT(20)
      <4>5. QED
        BY <3>0, <4>2, <4>3, <4>4
    <3>3. QED
      BY <3>1, <3>2
  <2>4. ASSUME NEW p \in Positions'
        PROVE  Occupied(p)' <=> \E i \in 1 .. len' : inserted'[i] = p
    <3>1. CASE p = new
      <4>1. len' \in 1 .. len' /\ inserted'[len'] = p
        BY <3>1, <1>2, <1>4, <1>5
      <4>2. Occupied(p)'
        BY <3>1, <1>7
      <4>3. QED
        BY <4>1, <4>2
    <3>2. CASE p # new
      <4>1. Occupied(p)' <=> p \in Positions /\ Occupied(p)
        BY <3>2, <1>7
      <4>2. (p \in Positions /\ Occupied(p)) <=> \E i \in 1 .. len : inserted[i] = p
        BY <1>0, <2>2 DEF ThreadVisitsEveryEntry
      <4>3. \A i \in 1 .. len' : inserted'[i] = p => i \in 1 .. len /\ inserted[i] = p
        BY <3>2, <1>2, <1>4, <1>5
      <4>4. \A i \in 1 .. len : i \in 1 .. len' /\ inserted'[i] = inserted[i]
        BY <1>2, <1>4, <1>5
      <4>5. QED
        BY <4>1, <4>2, <4>3, <4>4
    <3>3. QED
      BY <3>1, <3>2
  <2>5. \A i, j \in 1 .. len' : inserted'[i] = inserted'[j] => i = j
    <3>1. \A i, j \in 1 .. len : inserted[i] = inserted[j] => i = j
      BY <1>0 DEF ThreadVisitsEveryEntry
    <3>2. QED
      BY <3>1, <2>2, <1>2, <1>4, <1>5, SMTT(20)
  <2>6. QED
    BY <2>1, <2>3, <2>4, <2>5 DEF ThreadVisitsEveryEntry
<1>13. QED
  BY <1>6, <1>10, <1>11, <1>12 DEF IInv

-----------------------------------------------------------------------------
(***************************************************************************)
(* Overwriting a value, or only appending an empty block (hash_table_set). *)
(***************************************************************************)
LEMMA SetShape ==
  ASSUME IInv, NEW k \in Keys, NEW v \in Values, Set(k, v)
  PROVE  /\ blocks' \in Seq([Slots -> EntryType])
         /\ Len(blocks') \in {Len(blocks), Len(blocks) + 1}
         /\ Len(blocks) \in Nat
         /\ Positions \subseteq Positions'
         /\ \A p \in Positions' :
              IF p \in Positions
              THEN Entry(p)' = IF Entry(p).key = k THEN [Entry(p) EXCEPT !.value = v]
                               ELSE Entry(p)
              ELSE Entry(p)' = ZeroEntry
<1>. PICK b : b = Probe(k)
  OBVIOUS
<1>. DEFINE s == SlotOf[k]
<1>0. TypeOK /\ NoHole /\ OneEntryPerKey /\ Len(blocks) \in Nat
  BY DEF IInv, TypeOK
<1>1. s \in Slots /\ k # Null
  BY TableAssumption
<1>2. \A p : p \in Positions =>
         /\ p[1] \in 1 .. Len(blocks) /\ p[2] \in Slots /\ p = <<p[1], p[2]>>
         /\ Entry(p) \in EntryType
  BY <1>0, BlockType DEF Positions
<1>3. CASE Found(k)
  <2>. DEFINE old == <<b, s>>
              e == [blocks[b][s] EXCEPT !.value = v]
  <2>1. /\ old \in Positions
        /\ Entry(old).key = k
        /\ Entry(old) = blocks[b][s]
        /\ Entry(old) \in EntryType
        /\ b \in 1 .. Len(blocks)
    BY <1>0, <1>1, <1>2, <1>3, FoundIffEntry DEF Entry
  <2>2. \A p \in Positions : Entry(p).key = k => p = old
    BY <2>1, <1>0, <1>1 DEF OneEntryPerKey, Occupied
  <2>3. e \in EntryType
    BY <2>1 DEF EntryType
  <2>4. Grown(k) = blocks
    BY <1>3, <2>1, <1>0 DEF Grown
  <2>5. blocks' = With(Grown(k), Probe(k), SlotOf[k], e)
    BY <1>3, <2>4 DEF Set
  <2>6. /\ blocks' \in Seq([Slots -> EntryType])
        /\ Len(blocks') = Len(blocks)
        /\ blocks'[b][s] = e
        /\ \A c \in 1 .. Len(blocks), t \in Slots :
             <<c, t>> # <<b, s>> => blocks'[c][t] = blocks[c][t]
    <3>1. /\ blocks' \in Seq([Slots -> EntryType])
          /\ Len(blocks') = Len(Grown(k))
          /\ blocks'[b][s] = e
          /\ \A c \in 1 .. Len(blocks'), t \in Slots :
               <<c, t>> # <<b, s>> =>
                 blocks'[c][t] = IF c <= Len(blocks) THEN blocks[c][t] ELSE ZeroEntry
      <4>. HIDE DEF e
      <4>1. QED
        BY <2>3, <2>5, WriteShape
    <3>2. Len(blocks') = Len(blocks)
      BY <3>1, <2>4
    <3>3. QED
      BY <3>1, <3>2, <1>0
  <2>7. Positions' = Positions
    BY <2>6 DEF Positions
  <2>8. ASSUME NEW p \in Positions
        PROVE  Entry(p)' = IF Entry(p).key = k THEN [Entry(p) EXCEPT !.value = v]
                           ELSE Entry(p)
    <3>1. CASE p = old
      BY <3>1, <2>1, <2>6 DEF Entry
    <3>2. CASE p # old
      <4>1. Entry(p).key # k
        BY <3>2, <2>2
      <4>2. <<p[1], p[2]>> # <<b, s>> /\ p[1] \in 1 .. Len(blocks) /\ p[2] \in Slots
        BY <3>2, <1>2
      <4>3. blocks'[p[1]][p[2]] = blocks[p[1]][p[2]]
        BY <4>2, <2>6
      <4>4. QED
        BY <4>1, <4>3 DEF Entry
    <3>3. QED
      BY <3>1, <3>2
  <2>9. QED
    BY <1>0, <2>6, <2>7, <2>8
<1>4. CASE ~Found(k)
  <2>1. blocks' = Grown(k)
    BY <1>4 DEF Set
  <2>2. ~HasEntry(k)
    BY <1>0, <1>4, FoundIffEntry
  <2>3. /\ blocks' \in Seq([Slots -> EntryType])
        /\ Len(blocks') \in {Len(blocks), Len(blocks) + 1}
        /\ \A c \in 1 .. Len(blocks) : blocks'[c] = blocks[c]
        /\ Len(blocks') # Len(blocks) => blocks'[Len(blocks) + 1] = ZeroBlock
    BY <1>0, <2>1, GrownShape
  <2>4. Positions \subseteq Positions'
    BY <1>0, <2>3 DEF Positions
  <2>5. ASSUME NEW p \in Positions
        PROVE  Entry(p)' = Entry(p) /\ Entry(p).key # k
    BY <2>2, <2>3, <1>2 DEF Entry, HasEntry
  <2>6. ASSUME NEW p \in Positions', p \notin Positions
        PROVE  Entry(p)' = ZeroEntry
    <3>1. p[1] \in 1 .. Len(blocks') /\ p[2] \in Slots /\ p = <<p[1], p[2]>>
      BY DEF Positions
    <3>2. p[1] = Len(blocks) + 1 /\ Len(blocks') # Len(blocks)
      BY <3>1, <2>3, <2>6, <1>0 DEF Positions
    <3>3. QED
      BY <3>1, <3>2, <2>3 DEF Entry, ZeroBlock
  <2>7. QED
    BY <1>0, <2>3, <2>4, <2>5, <2>6
<1>5. QED
  BY <1>3, <1>4

LEMMA SetIInv ==
  ASSUME IInv, NEW k \in Keys, NEW v \in Values, Set(k, v)
  PROVE  IInv'
<1>0. TypeOK /\ NoHole /\ OneEntryPerKey /\ ThreadVisitsEveryEntry
  BY DEF IInv
<1>1. /\ blocks' \in Seq([Slots -> EntryType])
      /\ Len(blocks') \in {Len(blocks), Len(blocks) + 1}
      /\ Len(blocks) \in Nat
      /\ Positions \subseteq Positions'
  BY SetShape
<1>2. \A p \in Positions :
        /\ Entry(p)'.key = Entry(p).key
        /\ Entry(p)'.prev = Entry(p).prev
  <2>1. \A p \in Positions : Entry(p) \in EntryType
    BY <1>0, BlockType DEF Positions
  <2>2. QED
    BY <1>1, <2>1, SetShape DEF EntryType
<1>3. \A p \in Positions' : p \notin Positions => Entry(p)'.key = Null
  BY SetShape DEF ZeroEntry
<1>4. UNCHANGED <<last_entry, len, inserted>> /\ ret' = Result(Found(k), Absent)
  BY DEF Set
<1>5. \A p \in Positions' : Occupied(p)' <=> p \in Positions /\ Occupied(p)
  BY <1>2, <1>3 DEF Occupied
<1>6. TypeOK'
  <2>1. Found(k) \in BOOLEAN
    BY DEF Found
  <2>2. QED
    BY <1>0, <1>1, <1>4, <2>1 DEF TypeOK, Result
<1>7. \A c, t : /\ <<c, t>> \in Positions <=> c \in 1 .. Len(blocks) /\ t \in Slots
                /\ <<c, t>> \in Positions' <=> c \in 1 .. Len(blocks') /\ t \in Slots
  BY DEF Positions
<1>8. NoHole'
  <2>1. ASSUME NEW t \in Slots
        PROVE  \E depth \in 0 .. Len(blocks') :
                 \A c \in 1 .. Len(blocks') : Occupied(<<c, t>>)' <=> c <= depth
    <3>1. PICK depth \in 0 .. Len(blocks) :
            \A c \in 1 .. Len(blocks) : Occupied(<<c, t>>) <=> c <= depth
      BY <1>0 DEF NoHole
    <3>2. depth \in 0 .. Len(blocks')
      BY <1>1
    <3>3. \A c \in 1 .. Len(blocks') : Occupied(<<c, t>>)' <=> c <= depth
      BY <3>1, <1>1, <1>5, <1>7
    <3>4. QED
      BY <3>2, <3>3
  <2>2. QED
    BY <2>1 DEF NoHole
<1>9. OneEntryPerKey'
  BY <1>0, <1>2, <1>3, <1>5 DEF OneEntryPerKey, Occupied
<1>10. ThreadVisitsEveryEntry'
  <2>1. \A i \in 1 .. len : /\ inserted[i] \in Positions
                            /\ Entry(inserted[i]).prev = IF i = 1 THEN Null ELSE inserted[i - 1]
    BY <1>0 DEF ThreadVisitsEveryEntry
  <2>2. \A i \in 1 .. len : Entry(inserted[i])' = blocks'[inserted[i][1]][inserted[i][2]]
    BY <1>4 DEF Entry
  <2>3. \A p \in Positions : blocks'[p[1]][p[2]].prev = Entry(p).prev
    BY <1>2 DEF Entry
  <2>4. \A i \in 1 .. len :
          Entry(inserted[i])'.prev = IF i = 1 THEN Null ELSE inserted[i - 1]
    BY <2>1, <2>2, <2>3
  <2>5. \A p \in Positions' : Occupied(p)' <=> \E i \in 1 .. len : inserted[i] = p
    <3>1. \A p \in Positions : Occupied(p) <=> \E i \in 1 .. len : inserted[i] = p
      BY <1>0 DEF ThreadVisitsEveryEntry
    <3>2. QED
      BY <3>1, <2>1, <1>5
  <2>6. QED
    BY <2>1, <2>4, <2>5, <1>0, <1>1, <1>4 DEF ThreadVisitsEveryEntry
<1>11. QED
  BY <1>6, <1>8, <1>9, <1>10 DEF IInv

-----------------------------------------------------------------------------
LEMMA InitIInv == Init => IInv
<1>. SUFFICES ASSUME Init PROVE IInv
  OBVIOUS
<1>1. /\ blocks = <<ZeroBlock>> /\ Len(blocks) = 1 /\ blocks[1] = ZeroBlock
      /\ last_entry = Null /\ len = 0 /\ inserted = << >>
      /\ ret = Result(FALSE, Absent)
  BY DEF Init
<1>2. ZeroBlock \in [Slots -> EntryType]
  BY TableAssumption DEF ZeroBlock, ZeroEntry, EntryType
<1>3. TypeOK
  BY <1>1, <1>2 DEF TypeOK, Result
<1>4. \A p \in Positions : Entry(p).key = Null
  BY <1>1 DEF Positions, Entry, ZeroBlock, ZeroEntry
<1>5. NoHole
  <2>1. ASSUME NEW s \in Slots, NEW b \in 1 .. Len(blocks) PROVE ~Occupied(<<b, s>>)
    BY <1>3, <1>4, BlockType DEF Occupied
  <2>2. 0 \in 0 .. Len(blocks) /\ \A b \in 1 .. Len(blocks) : ~(b <= 0)
    BY <1>1
  <2>3. QED
    BY <2>1, <2>2 DEF NoHole
<1>6. OneEntryPerKey /\ ThreadVisitsEveryEntry
  BY <1>1, <1>4 DEF OneEntryPerKey, ThreadVisitsEveryEntry, Occupied
<1>7. QED
  BY <1>3, <1>5, <1>6 DEF IInv

\* A call that changes nothing but its answer.
LEMMA AnswerIInv ==
  ASSUME IInv, UNCHANGED <<blocks, last_entry, len, inserted>>,
         ret' \in [ok : BOOLEAN, value : Values \cup {Absent}]
  PROVE  IInv'
<1>1. TypeOK'
  BY DEF IInv, TypeOK, Positions
<1>2. NoHole' /\ OneEntryPerKey' /\ ThreadVisitsEveryEntry'
  BY DEF IInv, NoHole, OneEntryPerKey, ThreadVisitsEveryEntry, Positions, Occupied, Entry
<1>3. QED
  BY <1>1, <1>2 DEF IInv

LEMMA AnswerType ==
  ASSUME IInv, NEW k \in Keys
  PROVE  /\ Found(k) \in BOOLEAN
         /\ Lookup(k) \in Values \cup {Absent}
<1>0. TypeOK /\ NoHole /\ OneEntryPerKey
  BY DEF IInv
<1>1. Found(k) \in BOOLEAN
  BY DEF Found
<1>2. CASE Found(k)
  <2>1. /\ <<Probe(k), SlotOf[k]>> \in Positions
        /\ Lookup(k) = Entry(<<Probe(k), SlotOf[k]>>).value
    BY <1>0, <1>2, FoundIffEntry
  <2>2. \A p \in Positions : Entry(p) \in EntryType
    BY <1>0, BlockType DEF Positions
  <2>3. QED
    BY <1>1, <2>1, <2>2 DEF EntryType
<1>3. CASE ~Found(k)
  BY <1>1, <1>3 DEF Lookup
<1>4. QED
  BY <1>2, <1>3

LEMMA NextIInv == IInv /\ [Next]_vars => IInv'
<1>. SUFFICES ASSUME IInv, [Next]_vars PROVE IInv'
  OBVIOUS
<1>. DEFINE Answer == [ok : BOOLEAN, value : Values \cup {Absent}]
<1>0. \A o \in BOOLEAN, v \in Values \cup {Absent} : Result(o, v) \in Answer
  BY DEF Result
<1>1. ASSUME NEW k \in Keys, NEW v \in Values, Insert(k, v) PROVE IInv'
  <2>1. CASE Found(k)
    BY <1>0, <1>1, <2>1, AnswerIInv DEF Insert, Fill
  <2>2. CASE ~Found(k)
    BY <1>0, <1>1, <2>2, FillIInv DEF Insert
  <2>3. QED
    BY <2>1, <2>2
<1>2. ASSUME NEW k \in Keys, NEW v \in Values, Set(k, v) PROVE IInv'
  BY <1>2, SetIInv
<1>3. ASSUME NEW k \in Keys, GetPtr(k) PROVE IInv'
  <2>1. CASE Found(k)
    BY <1>0, <1>3, <2>1, AnswerIInv, AnswerType DEF GetPtr
  <2>2. CASE ~Found(k)
    BY <1>0, <1>3, <2>2, FillIInv, TableAssumption DEF GetPtr
  <2>3. QED
    BY <2>1, <2>2
<1>4. ASSUME NEW k \in Keys, Get(k) PROVE IInv'
  BY <1>0, <1>4, AnswerIInv, AnswerType DEF Get
<1>5. ASSUME NEW k \in Keys, Has(k) PROVE IInv'
  BY <1>0, <1>5, AnswerIInv, AnswerType DEF Has
<1>6. CASE UNCHANGED vars
  BY <1>6, AnswerIInv DEF vars, IInv, TypeOK
<1>7. QED
  BY <1>1, <1>2, <1>3, <1>4, <1>5, <1>6 DEF Next

\* The invariants that make the probe and the thread right hold whatever keys
\* collide and in whatever order they arrive.
THEOREM Inductive == Spec => []IInv
<1>1. QED
  BY InitIInv, NextIInv, PTL DEF Spec

\* The shapes of the table's fields; last_entry points into a block of the list.
THEOREM TypeCorrect == Spec => []TypeOK
<1>1. IInv => TypeOK
  BY DEF IInv
<1>2. QED
  BY <1>1, Inductive, PTL

\* A key never gets a second entry, in any block.
THEOREM UniqueEntries == Spec => []OneEntryPerKey
<1>1. IInv => OneEntryPerKey
  BY DEF IInv
<1>2. QED
  BY <1>1, Inductive, PTL

\* merge_blocks, walking the thread from last_entry, meets every variable once.
THEOREM ThreadComplete == Spec => []ThreadVisitsEveryEntry
<1>1. IInv => ThreadVisitsEveryEntry
  BY DEF IInv
<1>2. QED
  BY <1>1, Inductive, PTL

-----------------------------------------------------------------------------
(***************************************************************************)
(* Pointers to values stay good.                                           *)
(***************************************************************************)
Stay(p) == Occupied(p) => /\ p \in Positions'
                          /\ Entry(p)'.key = Entry(p).key
                          /\ Entry(p)'.prev = Entry(p).prev

LEMMA FillStay ==
  ASSUME IInv, NEW k \in Keys, NEW v \in Values, ~Found(k), Fill(k, v),
         NEW p \in Positions
  PROVE  Stay(p)
<1>. PICK b : b = Probe(k)
  OBVIOUS
<1>1. /\ <<b, SlotOf[k]>> \in Positions => ~Occupied(<<b, SlotOf[k]>>)
      /\ Positions \subseteq Positions'
      /\ \A q \in Positions' : q # <<b, SlotOf[k]>> =>
           IF q \in Positions THEN Entry(q)' = Entry(q) ELSE Entry(q)' = ZeroEntry
  BY FillShape
<1>2. QED
  BY <1>1 DEF Stay

\* No call moves an entry or hands it to another key.
THEOREM PointersStay == Spec => EntriesStay
<1>1. ASSUME IInv, [Next]_vars, NEW p \in Positions, ~ UNCHANGED vars
      PROVE  Stay(p)
  <2>1. CASE UNCHANGED blocks
    BY <2>1 DEF Stay, Positions, Entry
  <2>2. ASSUME NEW k \in Keys, NEW v \in Values, Set(k, v) PROVE Stay(p)
    <3>1. TypeOK
      BY <1>1 DEF IInv
    <3>2. Entry(p) \in EntryType
      BY <3>1, BlockType DEF Positions
    <3>3. /\ p \in Positions'
          /\ Entry(p)' = IF Entry(p).key = k THEN [Entry(p) EXCEPT !.value = v]
                         ELSE Entry(p)
      BY <1>1, <2>2, SetShape
    <3>4. QED
      BY <3>2, <3>3 DEF Stay, EntryType
  <2>3. ASSUME NEW k \in Keys, NEW v \in Values, Insert(k, v) PROVE Stay(p)
    BY <1>1, <2>1, <2>3, FillStay DEF Insert
  <2>4. ASSUME NEW k \in Keys, GetPtr(k) PROVE Stay(p)
    BY <1>1, <2>1, <2>4, FillStay, TableAssumption DEF GetPtr
  <2>5. ASSUME NEW k \in Keys, Get(k) \/ Has(k) PROVE Stay(p)
    BY <2>1, <2>5 DEF Get, Has
  <2>6. QED
    BY <1>1, <2>2, <2>3, <2>4, <2>5 DEF Next
<1>2. IInv /\ [Next]_vars => [\A p \in Positions : Stay(p)]_vars
  BY <1>1
<1>3. IInv /\ [Next]_vars
      => [\A p \in Positions :
            Occupied(p) => /\ p \in Positions'
                           /\ Entry(p)'.key = Entry(p).key
                           /\ Entry(p)'.prev = Entry(p).prev]_vars
  BY <1>2 DEF Stay
<1>4. QED
  BY <1>3, Inductive, PTL DEF Spec, EntriesStay

-----------------------------------------------------------------------------
(***************************************************************************)
(* The table implements the ordered map.                                   *)
(***************************************************************************)
MapOf == [k \in Keys |-> Lookup(k)]
OrderOf == [i \in 1 .. len |-> Entry(inserted[i]).key]

LEMMA OrderType ==
  IInv => /\ OrderOf \in Seq(Keys)
          /\ Len(OrderOf) = len
          /\ len \in Nat
<1>. SUFFICES ASSUME IInv
     PROVE  OrderOf \in Seq(Keys) /\ Len(OrderOf) = len /\ len \in Nat
  OBVIOUS
<1>0. TypeOK /\ ThreadVisitsEveryEntry /\ len \in Nat
  BY DEF IInv, TypeOK
<1>1. \A i \in 1 .. len : inserted[i] \in Positions /\ Occupied(inserted[i])
  <2>1. \A i \in 1 .. len : inserted[i] \in Positions
    BY <1>0 DEF ThreadVisitsEveryEntry
  <2>2. QED
    BY <2>1, <1>0 DEF ThreadVisitsEveryEntry
<1>2. \A p \in Positions : Entry(p) \in EntryType
  BY <1>0, BlockType DEF Positions
<1>3. \A i \in 1 .. len : Entry(inserted[i]).key \in Keys
  BY <1>1, <1>2 DEF Occupied, EntryType
<1>4. OrderOf \in [1 .. len -> Keys]
  BY <1>3 DEF OrderOf
<1>5. QED
  BY <1>0, <1>4

LEMMA LookupAfter ==
  ASSUME IInv, IInv', NEW k \in Keys, NEW v \in Values,
         \A p \in Positions' :
           Entry(p)'.key # Null =>
             \/ Entry(p)'.key = k /\ Entry(p)'.value = v
             \/ p \in Positions /\ Entry(p).key # k /\ Entry(p)' = Entry(p),
         \A p \in Positions : Entry(p).key # Null =>
           p \in Positions' /\ Entry(p)'.key = Entry(p).key,
         HasEntry(k)'
  PROVE  MapOf' = [MapOf EXCEPT ![k] = v]
<1>1. \A j \in Keys :
        /\ \A p \in Positions : Entry(p).key = j => Lookup(j) = Entry(p).value
        /\ ~HasEntry(j) => Lookup(j) = Absent
  BY LookupIsEntry DEF LookupRight
<1>2. (IInv => LookupRight)'
  BY LookupIsEntry, PTL
<1>3. \A j \in Keys :
        /\ \A p \in Positions' : Entry(p)'.key = j => Lookup(j)' = Entry(p)'.value
        /\ ~HasEntry(j)' => Lookup(j)' = Absent
  BY <1>2 DEF LookupRight
<1>4. Null \notin Keys
  BY TableAssumption
<1>5. Lookup(k)' = v
  <2>1. PICK p \in Positions' : Entry(p)'.key = k
    BY DEF HasEntry
  <2>2. Lookup(k)' = Entry(p)'.value
    BY <1>3, <2>1
  <2>3. Entry(p)'.value = v
    BY <1>4, <2>1
  <2>4. QED
    BY <2>2, <2>3
<1>6. ASSUME NEW j \in Keys, j # k PROVE Lookup(j)' = Lookup(j)
  <2>1. CASE HasEntry(j)
    <3>1. PICK p \in Positions : Entry(p).key = j
      BY <2>1 DEF HasEntry
    <3>2. p \in Positions' /\ Entry(p)'.key = j
      BY <1>4, <3>1
    <3>3. Entry(p)' = Entry(p)
      BY <1>4, <1>6, <3>2
    <3>4. QED
      BY <1>1, <1>3, <3>1, <3>2, <3>3
  <2>2. CASE ~HasEntry(j)
    <3>1. ASSUME NEW p \in Positions', Entry(p)'.key = j PROVE FALSE
      <4>1. p \in Positions /\ Entry(p)' = Entry(p)
        BY <1>4, <1>6, <3>1
      <4>2. QED
        BY <2>2, <3>1, <4>1 DEF HasEntry
    <3>2. ~HasEntry(j)'
      BY <3>1 DEF HasEntry
    <3>3. QED
      BY <1>1, <1>3, <2>2, <3>2
  <2>3. QED
    BY <2>1, <2>2
<1>7. \A j \in Keys : MapOf[j] = Lookup(j)
  BY DEF MapOf
<1>8. MapOf' = [j \in Keys |-> Lookup(j)']
  BY DEF MapOf
<1>9. MapOf = [j \in Keys |-> Lookup(j)]
  BY DEF MapOf
<1>10. QED
  BY <1>5, <1>6, <1>8, <1>9

LEMMA FillRefines ==
  ASSUME IInv, IInv', NEW k \in Keys, NEW v \in Values, ~Found(k), Fill(k, v)
  PROVE  /\ MapOf' = [MapOf EXCEPT ![k] = v]
         /\ OrderOf' = Append(OrderOf, k)
<1>. PICK b : b = Probe(k)
  OBVIOUS
<1>. DEFINE new == <<b, SlotOf[k]>>
<1>1. /\ new \in Positions'
      /\ new \in Positions => ~Occupied(new)
      /\ Entry(new)' = [key |-> k, value |-> v, prev |-> last_entry]
      /\ \A p \in Positions' : p # new =>
           IF p \in Positions THEN Entry(p)' = Entry(p) ELSE Entry(p)' = ZeroEntry
      /\ Positions \subseteq Positions'
  BY FillShape
<1>2. ~HasEntry(k) /\ k # Null
  BY FoundIffEntry, TableAssumption DEF IInv
<1>3. HasEntry(k)'
  BY <1>1 DEF HasEntry
<1>4. \A p \in Positions' :
        Entry(p)'.key # Null =>
          \/ Entry(p)'.key = k /\ Entry(p)'.value = v
          \/ p \in Positions /\ Entry(p).key # k /\ Entry(p)' = Entry(p)
  BY <1>1, <1>2 DEF HasEntry, ZeroEntry
<1>5. \A p \in Positions : Entry(p).key # Null =>
        p \in Positions' /\ Entry(p)'.key = Entry(p).key
  BY <1>1 DEF Occupied
<1>6. MapOf' = [MapOf EXCEPT ![k] = v]
  BY <1>3, <1>4, <1>5, LookupAfter
<1>7. OrderOf' = Append(OrderOf, k)
  <2>1. OrderOf \in Seq(Keys) /\ Len(OrderOf) = len /\ len \in Nat
    BY OrderType
  <2>2. (IInv => OrderOf \in Seq(Keys) /\ Len(OrderOf) = len /\ len \in Nat)'
    BY OrderType, PTL
  <2>3. len' = len + 1 /\ inserted' = Append(inserted, new)
    BY DEF Fill
  <2>4. /\ Append(OrderOf, k) \in Seq(Keys)
        /\ Len(Append(OrderOf, k)) = len + 1
        /\ \A i \in 1 .. len : Append(OrderOf, k)[i] = OrderOf[i]
        /\ Append(OrderOf, k)[len + 1] = k
    BY <2>1, AppendProperties
  <2>5. /\ Len(inserted) = len
        /\ inserted \in Seq(Nat \X Slots)
        /\ new \in Nat \X Slots
        /\ \A i \in 1 .. len : inserted[i] \in Positions /\ Occupied(inserted[i])
    <3>1. TypeOK /\ ThreadVisitsEveryEntry
      BY DEF IInv
    <3>2. TypeOK'
      BY DEF IInv
    <3>3. new \in Nat \X Slots
      BY <3>2, <1>1 DEF Positions, TypeOK
    <3>4. \A i \in 1 .. len : inserted[i] \in Positions
      BY <3>1 DEF ThreadVisitsEveryEntry
    <3>5. QED
      BY <3>1, <3>3, <3>4 DEF ThreadVisitsEveryEntry, TypeOK
  <2>6. /\ \A i \in 1 .. len : inserted'[i] = inserted[i]
        /\ inserted'[len + 1] = new
    BY <2>1, <2>3, <2>5, AppendProperties
  <2>7. ASSUME NEW i \in 1 .. len + 1 PROVE OrderOf'[i] = Append(OrderOf, k)[i]
    <3>. PICK q : q = inserted'[i]
      OBVIOUS
    <3>1. OrderOf'[i] = Entry(q)'.key
      BY <2>1, <2>3 DEF OrderOf, Entry
    <3>2. CASE i = len + 1
      BY <3>1, <3>2, <2>4, <2>6, <1>1
    <3>3. CASE i # len + 1
      <4>1. i \in 1 .. len /\ q = inserted[i]
        BY <3>3, <2>1, <2>6
      <4>2. Entry(q)' = Entry(q)
        BY <4>1, <2>5, <1>1
      <4>3. OrderOf[i] = Entry(q).key
        BY <4>1 DEF OrderOf
      <4>4. QED
        BY <3>1, <4>1, <4>2, <4>3, <2>4
    <3>4. QED
      BY <3>2, <3>3
  <2>8. QED
    BY <2>1, <2>2, <2>3, <2>4, <2>7, SeqEqual
<1>8. QED
  BY <1>6, <1>7

LEMMA SetRefines ==
  ASSUME IInv, IInv', NEW k \in Keys, NEW v \in Values, Set(k, v)
  PROVE  /\ MapOf' = IF Found(k) THEN [MapOf EXCEPT ![k] = v] ELSE MapOf
         /\ OrderOf' = OrderOf
<1>1. /\ Positions \subseteq Positions'
      /\ \A p \in Positions' :
           IF p \in Positions
           THEN Entry(p)' = IF Entry(p).key = k THEN [Entry(p) EXCEPT !.value = v]
                            ELSE Entry(p)
           ELSE Entry(p)' = ZeroEntry
  BY SetShape
<1>2. \A p \in Positions : Entry(p) \in EntryType
  <2>1. TypeOK
    BY DEF IInv
  <2>2. QED
    BY <2>1, BlockType DEF Positions
<1>3. \A p \in Positions : Entry(p)'.key = Entry(p).key
  BY <1>1, <1>2 DEF EntryType
<1>4. (Found(k) <=> HasEntry(k)) /\ k # Null /\ Null \notin Keys
  BY LookupIsEntry, TableAssumption DEF LookupRight
<1>5. ASSUME Found(k) PROVE MapOf' = [MapOf EXCEPT ![k] = v]
  <2>1. HasEntry(k)'
    BY <1>1, <1>3, <1>4, <1>5 DEF HasEntry
  <2>2. \A p \in Positions' :
          Entry(p)'.key # Null =>
            \/ Entry(p)'.key = k /\ Entry(p)'.value = v
            \/ p \in Positions /\ Entry(p).key # k /\ Entry(p)' = Entry(p)
    BY <1>1, <1>2 DEF ZeroEntry, EntryType
  <2>3. MapOf' = [MapOf EXCEPT ![k] = v]
    BY <2>1, <2>2, <1>1, <1>3, LookupAfter
  <2>4. QED
    BY <2>3
<1>6. ASSUME ~Found(k) PROVE MapOf' = MapOf
  <2>1. \A p \in Positions : Entry(p)' = Entry(p)
    BY <1>1, <1>4, <1>6 DEF HasEntry
  <2>2. \A j \in Keys :
          /\ \A p \in Positions : Entry(p).key = j => Lookup(j) = Entry(p).value
          /\ ~HasEntry(j) => Lookup(j) = Absent
    BY LookupIsEntry DEF LookupRight
  <2>3. (IInv => LookupRight)'
    BY LookupIsEntry, PTL
  <2>4. \A j \in Keys :
          /\ \A p \in Positions' : Entry(p)'.key = j => Lookup(j)' = Entry(p)'.value
          /\ ~HasEntry(j)' => Lookup(j)' = Absent
    BY <2>3 DEF LookupRight
  <2>5. ASSUME NEW j \in Keys PROVE Lookup(j)' = Lookup(j)
    <3>1. CASE HasEntry(j)
      <4>1. PICK p \in Positions : Entry(p).key = j
        BY <3>1 DEF HasEntry
      <4>2. QED
        BY <4>1, <2>1, <2>2, <2>4, <1>1
    <3>2. CASE ~HasEntry(j)
      <4>1. ~HasEntry(j)'
        BY <3>2, <2>1, <1>1, <1>4 DEF HasEntry, ZeroEntry
      <4>2. QED
        BY <3>2, <4>1, <2>2, <2>4
    <3>3. QED
      BY <3>1, <3>2
  <2>6. MapOf' = MapOf
    BY <2>5 DEF MapOf
  <2>7. QED
    BY <2>6
<1>7. OrderOf' = OrderOf
  <2>1. UNCHANGED <<len, inserted>>
    BY DEF Set
  <2>2. \A i \in 1 .. len : inserted[i] \in Positions
    BY DEF IInv, ThreadVisitsEveryEntry
  <2>3. \A i \in 1 .. len : Entry(inserted[i])' = blocks'[inserted[i][1]][inserted[i][2]]
    BY <2>1 DEF Entry
  <2>4. \A p \in Positions : blocks'[p[1]][p[2]].key = Entry(p).key
    BY <1>3 DEF Entry
  <2>5. \A i \in 1 .. len : Entry(inserted[i])'.key = Entry(inserted[i]).key
    BY <2>2, <2>3, <2>4
  <2>6. QED
    BY <2>1, <2>5 DEF OrderOf
<1>8. QED
  BY <1>5, <1>6, <1>7

LEMMA PresentIffFound ==
  ASSUME IInv, NEW k \in Keys
  PROVE  MapOf[k] # Absent <=> Found(k)
<1>1. Found(k) => Lookup(k) \in Values
  <2>1. TypeOK /\ NoHole /\ OneEntryPerKey
    BY DEF IInv
  <2>2. Found(k) => /\ <<Probe(k), SlotOf[k]>> \in Positions
                    /\ Lookup(k) = Entry(<<Probe(k), SlotOf[k]>>).value
    BY <2>1, FoundIffEntry
  <2>3. \A p \in Positions : Entry(p) \in EntryType
    BY <2>1, BlockType DEF Positions
  <2>4. QED
    BY <2>2, <2>3 DEF EntryType
<1>2. ~Found(k) => Lookup(k) = Absent
  BY DEF Lookup
<1>3. QED
  BY <1>1, <1>2, TableAssumption DEF MapOf

LEMMA AnswerRefines ==
  ASSUME UNCHANGED <<blocks, last_entry, len, inserted>>
  PROVE  MapOf' = MapOf /\ OrderOf' = OrderOf
  BY DEF MapOf, OrderOf, Lookup, Found, Probe, StopsAt, Entry

LEMMA StepRefines ==
  IInv /\ IInv' /\ [Next]_vars => [Map!Next]_(Map!vars)
<1>. SUFFICES ASSUME IInv, IInv', [Next]_vars
     PROVE  Map!Next \/ UNCHANGED <<MapOf, OrderOf, ret>>
  BY DEF Map!vars, MapOf, OrderOf
<1>0. \A o, v : Map!Result(o, v) = Result(o, v)
  BY DEF Map!Result, Result
<1>1. \A k \in Keys : /\ Map!Present(k) <=> Found(k)
                      /\ Map!Present(k) \in BOOLEAN
                      /\ Found(k) \in BOOLEAN
                      /\ MapOf[k] = Lookup(k)
  BY PresentIffFound DEF Map!Present, MapOf, Found
<1>2. ASSUME NEW k \in Keys, NEW v \in Values, Insert(k, v) PROVE Map!Insert(k, v)
  <2>1. CASE Found(k)
    <3>1. UNCHANGED <<blocks, last_entry, len, inserted>> /\ ret' = Result(FALSE, Absent)
      BY <1>2, <2>1 DEF Insert
    <3>2. QED
      BY <2>1, <3>1, <1>0, <1>1, AnswerRefines DEF Map!Insert, MapOf, OrderOf
  <2>2. CASE ~Found(k)
    <3>1. Fill(k, v) /\ ret' = Result(TRUE, Absent)
      BY <1>2, <2>2 DEF Insert
    <3>2. QED
      BY <2>2, <3>1, <1>0, <1>1, FillRefines DEF Map!Insert, MapOf, OrderOf
  <2>3. QED
    BY <2>1, <2>2
<1>3. ASSUME NEW k \in Keys, NEW v \in Values, Set(k, v) PROVE Map!Set(k, v)
  <2>1. ret' = Result(Found(k), Absent)
    BY <1>3 DEF Set
  <2>2. QED
    BY <1>3, <2>1, <1>0, <1>1, SetRefines DEF Map!Set, MapOf, OrderOf
<1>4. ASSUME NEW k \in Keys, GetPtr(k) PROVE Map!GetPtr(k)
  <2>1. CASE Found(k)
    <3>1. UNCHANGED <<blocks, last_entry, len, inserted>> /\ ret' = Result(TRUE, Lookup(k))
      BY <1>4, <2>1 DEF GetPtr
    <3>2. QED
      BY <2>1, <3>1, <1>0, <1>1, AnswerRefines DEF Map!GetPtr, MapOf, OrderOf
  <2>2. CASE ~Found(k)
    <3>1. Fill(k, NoValue) /\ ret' = Result(TRUE, NoValue)
      BY <1>4, <2>2 DEF GetPtr
    <3>2. QED
      BY <2>2, <3>1, <1>0, <1>1, FillRefines, TableAssumption DEF Map!GetPtr, MapOf, OrderOf
  <2>3. QED
    BY <2>1, <2>2
<1>5. ASSUME NEW k \in Keys, Get(k) PROVE Map!Get(k)
  BY <1>5, <1>0, <1>1, AnswerRefines DEF Get, Map!Get, MapOf, OrderOf
<1>6. ASSUME NEW k \in Keys, Has(k) PROVE Map!Has(k)
  BY <1>6, <1>0, <1>1, AnswerRefines DEF Has, Map!Has, MapOf, OrderOf
<1>7. CASE UNCHANGED vars
  BY <1>7, AnswerRefines DEF vars
<1>8. QED
  BY <1>2, <1>3, <1>4, <1>5, <1>6, <1>7 DEF Next, Map!Next

LEMMA InitRefines == Init => Map!Init
<1>. SUFFICES ASSUME Init PROVE Map!Init
  OBVIOUS
<1>1. IInv
  BY InitIInv
<1>2. \A k \in Keys : ~HasEntry(k)
  BY TableAssumption DEF Init, HasEntry, Positions, Entry, ZeroBlock, ZeroEntry
<1>3. \A k \in Keys : Lookup(k) = Absent
  BY <1>1, <1>2, LookupIsEntry DEF LookupRight
<1>4. len = 0 /\ ret = Result(FALSE, Absent)
  BY DEF Init
<1>5. [i \in 1 .. len |-> Entry(inserted[i]).key] = << >>
  BY <1>4
<1>6. QED
  BY <1>3, <1>4, <1>5 DEF Map!Init, Map!Result, Result

\* Through every collision and every block, callers see an ordered map.
THEOREM Refinement == Spec => ImplementsOrderedMap
<1>1. QED
  BY InitRefines, StepRefines, Inductive, PTL DEF Spec, ImplementsOrderedMap, Map!Spec
=============================================================================
