------------------------------ MODULE LexerProofs ------------------------------
(***************************************************************************)
(* The string table gives equal contents one address and different ones    *)
(* different addresses, and the lexer finds the longest tokens of a text   *)
(* and their types: for every text, whatever is behind it, for any number  *)
(* of slots and any hash function.                                         *)
(***************************************************************************)
EXTENDS Lexer, Induction, TLAPS, SequenceTheorems

\* hash_bytes returns a number.
HashesAreNumbers == \A c : HashOf(c) \in Nat

\* The provers do not see that a string constant is in STRING, so the characters
\* that the keywords and the end of the memory bring in are named.
Characters ==
  STRING \cup {"NUL", "d", "e", "f", "r", "t", "u", "n", "l", "i", "w", "h", "s"}

-----------------------------------------------------------------------------
(***************************************************************************)
(* What is invariant.                                                      *)
(***************************************************************************)
StringRecord == [text : Seq(Characters), length : Nat, hash : Nat]
RecordOf(c) == [text |-> c, length |-> Len(c), hash |-> HashOf(c)]

\* Content c has its record in block b, and the search for it gets there.
Found(c, b) ==
  /\ interned[c] = <<b, SlotFor(c)>>
  /\ blocks[b][SlotFor(c)] = RecordOf(c)
  /\ \A d \in 1 .. b - 1 : Used(blocks[d][SlotFor(c)])

\* Record r is in slot s of block b.
Known(r, b, s) ==
  /\ r.text \in DOMAIN interned /\ r.text # << >>
  /\ s = SlotFor(r.text)
  /\ Found(r.text, b)

TableInv ==
  /\ blocks \in Seq([Slots -> StringRecord])
  /\ DOMAIN interned \subseteq Seq(Characters)
  /\ \A b \in 1 .. Len(blocks), s \in Slots :
       Used(blocks[b][s]) => Known(blocks[b][s], b, s)
  /\ \A c \in DOMAIN interned :
       IF c = << >> THEN interned[c] = NullString ELSE \E b \in 1 .. Len(blocks) : Found(c, b)
  /\ last.text \in DOMAIN interned => last.address = interned[last.text]

\* How far the bytes count when a token ends at e.
Until(e) == Len(source) + (IF e > Len(source) + 1 THEN 1 ELSE 0)

\* The token from p to e is the text's next token after position from.
GoodText(from, type, p, e) ==
  /\ from <= p /\ p <= e
  /\ \A q \in from .. p - 1 : Byte(q) \in Space
  /\ type = TypeFor(Bytes(p, e))
  /\ type = "EOF" => p > Len(source)
  /\ type # "EOF" => IsToken(Bytes(p, e))
  /\ \A q \in e + 1 .. Until(e) + 1 : ~IsToken(Bytes(p, q))

GoodToken(token, from) ==
  /\ token.start \in Nat /\ token.end \in 1 .. Len(source) + 2
  /\ GoodText(from, token.type, token.start, token.end)
  /\ Bytes(token.start, token.end) \in DOMAIN interned
  /\ token.text = interned[Bytes(token.start, token.end)]

LexerShape ==
  /\ source \in Texts /\ behind \in Behinds
  /\ stage \in 0 .. EXIT
  /\ curr \in 1 .. Len(source) + 2
  /\ is_next_lexed \in BOOLEAN
  /\ \E S : tokens \in Seq(S)

KeywordsKnown == \A n \in DOMAIN KEYWORDS : n < stage => KEYWORDS[n].text \in DOMAIN interned

\* Where the lexer stands behind the tokens that the parser took.
LexerInv ==
  /\ KeywordsKnown
  /\ \A n \in 1 .. Len(tokens) : GoodToken(tokens[n], EndOf(n - 1))
  /\ is_next_lexed =>
       GoodToken(next_token, EndOf(Len(tokens))) /\ curr = next_token.end /\ stage = LEXING
  /\ ~is_next_lexed /\ stage # EXIT => curr = EndOf(Len(tokens))
  /\ stage = EXIT => ~AtEnd(curr) /\ ~IsToken(<<Byte(curr)>>) /\ Byte(curr) \notin Space

IInv == TableInv /\ LexerShape /\ LexerInv

-----------------------------------------------------------------------------
(***************************************************************************)
(* The string table.                                                       *)
(***************************************************************************)
LEMMA SlotForIsSlot ==
  ASSUME HashesAreNumbers, NEW c
  PROVE  SlotFor(c) \in Slots
<1>1. PICK h \in Nat, n \in Nat : h = HashOf(c) /\ n = NumSlots /\ n > 0
  BY TableAssumption DEF HashesAreNumbers
<1>2. (h % n) \in 0 .. n - 1
  BY <1>1
<1>3. QED
  BY <1>1, <1>2 DEF SlotFor, Slots

LEMMA RecordOfIsUsed ==
  ASSUME HashesAreNumbers, NEW c \in Seq(Characters), c # << >>
  PROVE  RecordOf(c) \in StringRecord /\ Used(RecordOf(c)) /\ RecordOf(c).text = c
<1>1. Len(c) \in Nat /\ Len(c) # 0 /\ HashOf(c) \in Nat
  BY DEF HashesAreNumbers
<1>2. QED
  BY <1>1 DEF RecordOf, StringRecord, Used

\* The search ends, at the first block where the slot is free or holds the content.
LEMMA StopStops ==
  ASSUME TableInv, HashesAreNumbers, NEW c
  PROVE  /\ Stop(c) \in 1 .. Len(blocks) + 1
         /\ Stop(c) <= Len(blocks) =>
              \/ ~Used(blocks[Stop(c)][SlotFor(c)])
              \/ Matches(blocks[Stop(c)][SlotFor(c)], c)
         /\ \A d \in 1 .. Stop(c) - 1 :
              Used(blocks[d][SlotFor(c)]) /\ ~Matches(blocks[d][SlotFor(c)], c)
<1>1. PICK len \in Nat : len = Len(blocks)
  BY DEF TableInv
<1>. DEFINE Ends(b) == \/ ~Used(blocks[b][SlotFor(c)])
                       \/ Matches(blocks[b][SlotFor(c)], c)
            T == {b \in 1 .. len + 1 : b <= len => Ends(b)}
<1>2. T \in SUBSET Nat /\ T # {}
  <2>1. len + 1 \in T
    OBVIOUS
  <2>2. QED
    BY <2>1
<1>3. PICK b \in T : \A m \in T : b <= m
  BY <1>2, LeastNumber
<1>4. \A d \in 1 .. b - 1 : ~Ends(d)
  <2>1. ASSUME NEW d \in 1 .. b - 1 PROVE ~Ends(d)
    <3>1. d \in 1 .. len + 1 /\ d <= len /\ ~(b <= d)
      OBVIOUS
    <3>2. d \notin T
      BY <3>1, <1>3
    <3>3. QED
      BY <3>1, <3>2
  <2>2. QED
    BY <2>1
<1>5. /\ b \in 1 .. Len(blocks) + 1
      /\ b <= Len(blocks) =>
           LET r == blocks[b][SlotFor(c)] IN ~Used(r) \/ Matches(r, c)
      /\ \A d \in 1 .. (b - 1) :
           LET r == blocks[d][SlotFor(c)] IN Used(r) /\ ~Matches(r, c)
  BY <1>1, <1>4
<1>6. QED
  BY <1>5 DEF Stop

\* What a call leaves behind, whatever the content is.
Interns(c) ==
  /\ DOMAIN interned \subseteq DOMAIN interned' /\ c \in DOMAIN interned'
  /\ \A d \in DOMAIN interned : interned'[d] = interned[d]
  /\ last'.text = c /\ last'.address = interned'[c]

LEMMA KnownStays ==
  ASSUME TableInv, NEW c, c \in DOMAIN interned, Return(c, interned[c]), UNCHANGED blocks
  PROVE  TableInv' /\ Interns(c)
<1>1. interned' = interned /\ last' = [text |-> c, address |-> interned[c]]
  BY DEF Return
<1>2. TableInv'
  BY <1>1 DEF TableInv, Known, Found
<1>3. QED
  BY <1>1, <1>2 DEF Interns

\* No empty content is in a record, so it is returned the first time as later.
LEMMA AddEmptyKeeps ==
  ASSUME TableInv, NEW c \in Seq(Characters), AddEmpty(c)
  PROVE  TableInv' /\ Interns(c)
<1>1. c = << >> /\ Return(c, NullString) /\ UNCHANGED blocks
  BY DEF AddEmpty
<1>2. CASE c \in DOMAIN interned
  <2>1. interned[c] = NullString
    BY <1>1, <1>2 DEF TableInv
  <2>2. QED
    BY <2>1, <1>1, <1>2, KnownStays
<1>3. CASE c \notin DOMAIN interned
  <2>1. /\ DOMAIN interned' = DOMAIN interned \cup {c}
        /\ interned'[c] = NullString
        /\ \A d \in DOMAIN interned : interned'[d] = interned[d]
        /\ last' = [text |-> c, address |-> NullString]
    BY <1>1, <1>3 DEF Return
  <2>2. ASSUME NEW d \in DOMAIN interned, NEW b, Found(d, b) PROVE Found(d, b)'
    BY <2>1, <2>2, <1>1 DEF Found
  <2>3. TableInv'
    <3>1. blocks' \in Seq([Slots -> StringRecord]) /\ DOMAIN interned' \subseteq Seq(Characters)
      BY <2>1, <1>1 DEF TableInv
    <3>2. ASSUME NEW b \in 1 .. Len(blocks'), NEW s \in Slots, Used(blocks'[b][s])
          PROVE  Known(blocks[b][s], b, s)'
      <4>1. Known(blocks[b][s], b, s)
        BY <3>2, <1>1 DEF TableInv
      <4>2. QED
        BY <4>1, <2>1, <2>2, <1>1 DEF Known
    <3>3. ASSUME NEW d \in DOMAIN interned'
          PROVE  IF d = << >> THEN interned'[d] = NullString
                 ELSE \E b \in 1 .. Len(blocks') : Found(d, b)'
      <4>1. CASE d = c
        BY <4>1, <2>1, <1>1
      <4>2. CASE d # c
        <5>1. d \in DOMAIN interned /\ d # << >>
          BY <4>2, <3>3, <2>1, <1>1
        <5>2. PICK b \in 1 .. Len(blocks) : Found(d, b)
          BY <5>1 DEF TableInv
        <5>3. Found(d, b)' /\ b \in 1 .. Len(blocks')
          BY <5>1, <5>2, <2>2, <1>1
        <5>4. QED
          BY <5>1, <5>3
      <4>3. QED
        BY <4>1, <4>2
    <3>4. last'.address = interned'[last'.text]
      BY <2>1
    <3>5. QED
      BY <3>1, <3>2, <3>3, <3>4 DEF TableInv
  <2>4. QED
    BY <2>1, <2>3 DEF Interns
<1>4. QED
  BY <1>2, <1>3

\* A used record that matches is the content's own.
LEMMA AddKnownKeeps ==
  ASSUME TableInv, HashesAreNumbers, NEW c \in Seq(Characters), AddKnown(c)
  PROVE  TableInv' /\ Interns(c)
<1>1. PICK b : b = Stop(c) /\ b \in 1 .. Len(blocks) /\ Used(blocks[b][SlotFor(c)])
  <2>1. Stop(c) \in 1 .. Len(blocks) + 1 /\ Stop(c) <= Len(blocks)
    BY StopStops DEF AddKnown
  <2>2. PICK len \in Nat, b \in Nat : len = Len(blocks) /\ b = Stop(c)
    BY <2>1 DEF TableInv
  <2>3. b \in 1 .. len
    BY <2>1, <2>2
  <2>4. QED
    BY <2>2, <2>3 DEF AddKnown
<1>2. blocks[b][SlotFor(c)].text = c
  <2>1. b <= Len(blocks)
    BY <1>1 DEF TableInv
  <2>2. QED
    BY <2>1, <1>1, StopStops DEF Matches
<1>3. c \in DOMAIN interned /\ interned[c] = <<b, SlotFor(c)>>
  BY <1>1, <1>2, SlotForIsSlot DEF TableInv, Known, Found
<1>4. Return(c, interned[c]) /\ UNCHANGED blocks
  BY <1>1, <1>3 DEF AddKnown
<1>5. QED
  BY <1>3, <1>4, KnownStays

\* The record goes into a free slot b, s, of the last block or before; the other
\* slots keep their records, or are new and free.
Recorded(c, b) ==
  /\ blocks' \in Seq([Slots -> StringRecord])
  /\ Len(blocks) <= Len(blocks')
  /\ b \in 1 .. Len(blocks')
  /\ blocks'[b][SlotFor(c)] = RecordOf(c)
  /\ b <= Len(blocks) => ~Used(blocks[b][SlotFor(c)])
  /\ \A d \in 1 .. Len(blocks'), s \in Slots :
       d # b \/ s # SlotFor(c) =>
         IF d <= Len(blocks) THEN blocks'[d][s] = blocks[d][s] ELSE ~Used(blocks'[d][s])

LEMMA AddNewRecords ==
  ASSUME TableInv, HashesAreNumbers, NEW c \in Seq(Characters), AddNew(c)
  PROVE  Recorded(c, Stop(c)) /\ c # << >> /\ Return(c, <<Stop(c), SlotFor(c)>>)
<1>1. PICK slot \in Slots : slot = SlotFor(c)
  BY SlotForIsSlot
<1>2. PICK r : r = RecordOf(c) /\ r = [text |-> c, length |-> Len(c), hash |-> HashOf(c)]
  BY DEF RecordOf
<1>3. c # << >>
  BY DEF AddNew
<1>4. r \in StringRecord
  BY <1>2, <1>3, RecordOfIsUsed
<1>5. PICK len \in Nat : len = Len(blocks)
  BY DEF TableInv
<1>6. PICK b \in Nat : b = Stop(c) /\ b \in 1 .. len + 1
  BY <1>5, StopStops
<1>7. PICK g : g = IF b > len THEN Append(blocks, ZeroBlock) ELSE blocks
  OBVIOUS
<1>8. /\ ~Used(g[b][slot])
      /\ blocks' = [g EXCEPT ![b] = [g[b] EXCEPT ![slot] = r]]
      /\ Return(c, <<b, slot>>)
  BY <1>1, <1>2, <1>5, <1>6, <1>7 DEF AddNew
<1>9. PICK m \in Nat : /\ g \in Seq([Slots -> StringRecord]) /\ m = Len(g)
                       /\ len <= m /\ b \in 1 .. m
                       /\ \A d \in 1 .. len : g[d] = blocks[d]
                       /\ \A d \in 1 .. m : ~(d <= len) => g[d] = ZeroBlock
  <2>1. ZeroBlock \in [Slots -> StringRecord]
    BY DEF ZeroBlock, ZeroRecord, StringRecord
  <2>2. PICK list \in Seq([Slots -> StringRecord]) : list = blocks /\ Len(list) = len
    BY <1>5 DEF TableInv
  <2>3. CASE b > len
    <3>1. b = len + 1
      BY <2>3, <1>6
    <3>2. g = Append(list, ZeroBlock) /\ g \in Seq([Slots -> StringRecord])
          /\ Len(g) = len + 1 /\ g[len + 1] = ZeroBlock
          /\ \A d \in 1 .. len : g[d] = list[d]
      BY <2>1, <2>2, <2>3, <1>7
    <3>3. QED
      BY <3>1, <3>2, <2>2
  <2>4. CASE ~(b > len)
    BY <2>2, <2>4, <1>6, <1>7
  <2>5. QED
    BY <2>3, <2>4
<1>10. PICK f : f = [g[b] EXCEPT ![slot] = r]
  OBVIOUS
<1>11. /\ f \in [Slots -> StringRecord] /\ f[slot] = r
       /\ \A s \in Slots : s # slot => f[s] = g[b][s]
  <2>1. g[b] \in [Slots -> StringRecord]
    BY <1>9
  <2>2. QED
    BY <2>1, <1>4, <1>10
<1>12. /\ blocks' \in Seq([Slots -> StringRecord]) /\ Len(blocks') = m /\ blocks'[b] = f
       /\ \A d \in 1 .. m : d # b => blocks'[d] = g[d]
  <2>1. blocks' = [g EXCEPT ![b] = f]
    BY <1>8, <1>10
  <2>2. b \in 1 .. Len(g) /\ f \in [Slots -> StringRecord]
    BY <1>9, <1>11
  <2>3. QED
    BY <2>1, <2>2, <1>9
<1>13. b <= len => ~Used(blocks[b][slot])
  BY <1>6, <1>8, <1>9
<1>14. ASSUME NEW d \in 1 .. m, NEW s \in Slots, d # b \/ s # slot
       PROVE  IF d <= len THEN blocks'[d][s] = blocks[d][s] ELSE ~Used(blocks'[d][s])
  <2>1. blocks'[d][s] = g[d][s]
    BY <1>11, <1>12, <1>14
  <2>2. CASE d <= len
    <3>1. d \in 1 .. len
      BY <2>2
    <3>2. QED
      BY <3>1, <2>1, <2>2, <1>9
  <2>3. CASE ~(d <= len)
    BY <2>1, <2>3, <1>9 DEF ZeroBlock, ZeroRecord, Used
  <2>4. QED
    BY <2>2, <2>3
<1>15. QED
  BY <1>1, <1>2, <1>3, <1>5, <1>6, <1>8, <1>9, <1>11, <1>12, <1>13, <1>14 DEF Recorded

\* The content is new: where it is, the search would have stopped.
LEMMA NewContent ==
  ASSUME TableInv, HashesAreNumbers, NEW c \in Seq(Characters), c # << >>,
         Stop(c) <= Len(blocks) => ~Used(blocks[Stop(c)][SlotFor(c)])
  PROVE  c \notin DOMAIN interned
<1>. SUFFICES ASSUME c \in DOMAIN interned PROVE FALSE
  OBVIOUS
<1>1. PICK len, b \in Nat : len = Len(blocks) /\ b = Stop(c) /\ b \in 1 .. len + 1
  <2>1. PICK len \in Nat : len = Len(blocks)
    BY DEF TableInv
  <2>2. Stop(c) \in 1 .. len + 1
    BY <2>1, StopStops
  <2>3. QED
    BY <2>1, <2>2
<1>2. PICK a \in 1 .. Len(blocks) : Found(c, a)
  BY DEF TableInv
<1>3. /\ blocks[a][SlotFor(c)] = RecordOf(c)
      /\ \A d \in 1 .. a - 1 : Used(blocks[d][SlotFor(c)])
  BY <1>2 DEF Found
<1>4. Used(RecordOf(c)) /\ Matches(RecordOf(c), c)
  BY RecordOfIsUsed DEF Matches, RecordOf
<1>5. a \in Nat /\ (a < b \/ a = b \/ b \in 1 .. a - 1)
  BY <1>1
<1>6. CASE a < b
  <2>1. a \in 1 .. b - 1
    BY <1>6, <1>1
  <2>2. QED
    BY <2>1, <1>1, <1>3, <1>4, StopStops
<1>7. CASE a = b
  BY <1>7, <1>1, <1>3, <1>4
<1>8. CASE b \in 1 .. a - 1
  <2>1. b <= len
    BY <1>8, <1>1
  <2>2. QED
    BY <2>1, <1>1, <1>3, <1>8
<1>9. QED
  BY <1>5, <1>6, <1>7, <1>8

LEMMA AddNewKeeps ==
  ASSUME TableInv, HashesAreNumbers, NEW c \in Seq(Characters), AddNew(c)
  PROVE  TableInv' /\ Interns(c)
<1>1. PICK b : b = Stop(c) /\ Recorded(c, b) /\ c # << >> /\ Return(c, <<b, SlotFor(c)>>)
  BY AddNewRecords
<1>2. c \notin DOMAIN interned
  BY <1>1, NewContent DEF Recorded
<1>3. /\ DOMAIN interned' = DOMAIN interned \cup {c}
      /\ interned'[c] = <<b, SlotFor(c)>>
      /\ \A d \in DOMAIN interned : interned'[d] = interned[d]
      /\ last' = [text |-> c, address |-> <<b, SlotFor(c)>>]
  BY <1>1, <1>2 DEF Return
<1>4. PICK len, m \in Nat : len = Len(blocks) /\ m = Len(blocks') /\ len <= m /\ b \in 1 .. m
  BY <1>1 DEF TableInv, Recorded
<1>5. PICK slot \in Slots : slot = SlotFor(c)
  BY SlotForIsSlot
<1>6. /\ blocks'[b][slot] = RecordOf(c)
      /\ b <= len => ~Used(blocks[b][slot])
      /\ \A d \in 1 .. m, s \in Slots :
           d # b \/ s # slot =>
             IF d <= len THEN blocks'[d][s] = blocks[d][s] ELSE ~Used(blocks'[d][s])
  BY <1>1, <1>4, <1>5 DEF Recorded
<1>7. ASSUME NEW d \in 1 .. len, NEW s \in Slots, Used(blocks[d][s])
      PROVE  blocks'[d][s] = blocks[d][s]
  <2>1. d \in 1 .. m /\ d <= len
    BY <1>4
  <2>2. d # b \/ s # slot
    BY <2>1, <1>6, <1>7
  <2>3. QED
    BY <2>1, <2>2, <1>6
<1>8. ASSUME NEW d \in DOMAIN interned, d # << >>, NEW a \in 1 .. len, Found(d, a)
      PROVE  Found(d, a)'
  <2>1. SlotFor(d) \in Slots /\ d \in Seq(Characters)
    BY SlotForIsSlot DEF TableInv
  <2>2. Used(RecordOf(d))
    BY <2>1, <1>8, RecordOfIsUsed
  <2>3. blocks'[a][SlotFor(d)] = RecordOf(d)
    BY <2>1, <2>2, <1>7, <1>8 DEF Found
  <2>4. ASSUME NEW e \in 1 .. a - 1 PROVE Used(blocks'[e][SlotFor(d)])
    <3>1. e \in 1 .. len /\ Used(blocks[e][SlotFor(d)])
      BY <1>8 DEF Found
    <3>2. QED
      BY <3>1, <2>1, <1>7
  <2>5. QED
    BY <2>3, <2>4, <1>3, <1>8 DEF Found
<1>9. Found(c, b)'
  <2>1. ASSUME NEW d \in 1 .. b - 1 PROVE Used(blocks'[d][slot])
    <3>1. d \in 1 .. len /\ Used(blocks[d][slot])
      <4>1. d \in 1 .. Stop(c) - 1 /\ Stop(c) \in 1 .. Len(blocks) + 1
        BY <1>1, StopStops
      <4>2. Used(blocks[d][slot])
        BY <4>1, <1>5, StopStops
      <4>3. PICK n \in Nat : n = Stop(c)
        BY <4>1
      <4>4. d \in 1 .. len
        BY <4>1, <4>3, <1>4
      <4>5. QED
        BY <4>2, <4>4
    <3>2. QED
      BY <3>1, <1>7
  <2>2. QED
    BY <2>1, <1>3, <1>5, <1>6 DEF Found
<1>10. ASSUME NEW d \in 1 .. m, NEW s \in Slots, Used(blocks'[d][s])
       PROVE  Known(blocks[d][s], d, s)'
  <2>1. CASE d = b /\ s = slot
    <3>1. blocks'[d][s].text = c
      BY <2>1, <1>1, <1>6, RecordOfIsUsed
    <3>2. QED
      BY <3>1, <2>1, <1>1, <1>3, <1>5, <1>9 DEF Known
  <2>2. CASE d # b \/ s # slot
    <3>1. d <= len /\ blocks'[d][s] = blocks[d][s]
      BY <2>2, <1>6, <1>10
    <3>2. d \in 1 .. len
      BY <3>1, <1>4
    <3>3. Known(blocks[d][s], d, s)
      BY <3>1, <3>2, <1>4, <1>10 DEF TableInv
    <3>4. PICK t : /\ t = blocks[d][s].text /\ t \in DOMAIN interned /\ t # << >>
                   /\ s = SlotFor(t) /\ Found(t, d)
      BY <3>3 DEF Known
    <3>5. Found(t, d)'
      BY <3>2, <3>4, <1>8
    <3>6. blocks'[d][s].text = t
      BY <3>1, <3>4
    <3>7. QED
      BY <3>4, <3>5, <3>6, <1>3 DEF Known
  <2>3. QED
    BY <2>1, <2>2
<1>11. ASSUME NEW d \in DOMAIN interned'
       PROVE  IF d = << >> THEN interned'[d] = NullString
              ELSE \E a \in 1 .. m : Found(d, a)'
  <2>1. CASE d = c
    BY <2>1, <1>1, <1>4, <1>9
  <2>2. CASE d # c /\ d = << >>
    BY <2>2, <1>3, <1>11 DEF TableInv
  <2>3. CASE d # c /\ d # << >>
    <3>1. d \in DOMAIN interned
      BY <2>3, <1>3, <1>11
    <3>2. PICK a \in 1 .. len : Found(d, a)
      BY <3>1, <2>3, <1>4 DEF TableInv
    <3>3. Found(d, a)' /\ a \in 1 .. m
      BY <3>1, <3>2, <2>3, <1>4, <1>8
    <3>4. QED
      BY <3>3, <2>3
  <2>4. QED
    BY <2>1, <2>2, <2>3
<1>12. TableInv'
  <2>1. blocks' \in Seq([Slots -> StringRecord])
    BY <1>1 DEF Recorded
  <2>2. DOMAIN interned' \subseteq Seq(Characters)
    BY <1>3 DEF TableInv
  <2>3. last'.address = interned'[last'.text]
    BY <1>3
  <2>4. QED
    BY <2>1, <2>2, <2>3, <1>4, <1>10, <1>11 DEF TableInv
<1>13. QED
  BY <1>3, <1>12 DEF Interns

\* string_table_add keeps the table, and returns the address of the content.
LEMMA AddInterns ==
  ASSUME TableInv, HashesAreNumbers, NEW c \in Seq(Characters), Add(c)
  PROVE  TableInv' /\ Interns(c)
  BY AddEmptyKeeps, AddKnownKeeps, AddNewKeeps DEF Add

LEMMA AddressesDiffer ==
  ASSUME TableInv, NEW c \in DOMAIN interned, NEW d \in DOMAIN interned,
         interned[c] = interned[d], HashesAreNumbers
  PROVE  c = d
<1>1. CASE c = << >> /\ d = << >>
  BY <1>1
<1>2. ASSUME NEW e \in DOMAIN interned, e # << >> PROVE
         \E b \in Nat, s \in Slots : interned[e] = <<b, s>> /\ blocks[b][s].text = e
  <2>1. PICK b \in 1 .. Len(blocks) : Found(e, b)
    BY <1>2 DEF TableInv
  <2>2. b \in Nat /\ SlotFor(e) \in Slots
    BY SlotForIsSlot DEF TableInv
  <2>3. QED
    BY <2>1, <2>2 DEF Found, RecordOf
<1>3. \A e \in DOMAIN interned : e # << >> => interned[e] # NullString
  BY <1>2, TableAssumption
<1>4. CASE c # << >> /\ d # << >>
  BY <1>2, <1>4
<1>5. QED
  BY <1>1, <1>3, <1>4 DEF TableInv

LEMMA TableIsRight ==
  ASSUME TableInv, HashesAreNumbers
  PROVE  OneStringPerContent
<1>1. ASSUME NEW c \in DOMAIN interned, interned[c] # NullString
      PROVE  Record(interned[c]).text = c
  <2>1. PICK b \in 1 .. Len(blocks) : Found(c, b)
    BY <1>1 DEF TableInv
  <2>2. QED
    BY <2>1 DEF Found, Record, RecordOf
<1>2. QED
  BY <1>1, AddressesDiffer DEF OneStringPerContent, TableInv

-----------------------------------------------------------------------------
(***************************************************************************)
(* The tokens: every prefix of a token comes before it, so that each token *)
(* adds one node to the trie, whose index is the token's.                  *)
(***************************************************************************)
LEMMA TokenLengths ==
  /\ Len(BASIC_TOKENS[1]) = 1 /\ Len(BASIC_TOKENS[2]) = 1 /\ Len(BASIC_TOKENS[3]) = 1
  /\ Len(BASIC_TOKENS[4]) = 1 /\ Len(BASIC_TOKENS[5]) = 1 /\ Len(BASIC_TOKENS[6]) = 2
  /\ Len(BASIC_TOKENS[7]) = 1 /\ Len(BASIC_TOKENS[8]) = 2 /\ Len(BASIC_TOKENS[9]) = 1
  /\ Len(BASIC_TOKENS[10]) = 1 /\ Len(BASIC_TOKENS[11]) = 2 /\ Len(BASIC_TOKENS[12]) = 2
  /\ Len(BASIC_TOKENS[13]) = 1 /\ Len(BASIC_TOKENS[14]) = 1 /\ Len(BASIC_TOKENS[15]) = 2
  /\ Len(BASIC_TOKENS[16]) = 2 /\ Len(BASIC_TOKENS[17]) = 1 /\ Len(BASIC_TOKENS[18]) = 2
  /\ Len(BASIC_TOKENS[19]) = 1 /\ Len(BASIC_TOKENS[20]) = 2 /\ Len(BASIC_TOKENS[21]) = 2
  /\ Len(BASIC_TOKENS[22]) = 3 /\ Len(BASIC_TOKENS[23]) = 2 /\ Len(BASIC_TOKENS[24]) = 3
  /\ Len(BASIC_TOKENS[25]) = 1 /\ Len(BASIC_TOKENS[26]) = 1 /\ Len(BASIC_TOKENS[27]) = 1
  /\ Len(BASIC_TOKENS[28]) = 1
  BY DEF BASIC_TOKENS

LEMMA TokenFirsts ==
  /\ BASIC_TOKENS[1][1] = "{" /\ BASIC_TOKENS[2][1] = "}" /\ BASIC_TOKENS[3][1] = "("
  /\ BASIC_TOKENS[4][1] = ")" /\ BASIC_TOKENS[5][1] = "=" /\ BASIC_TOKENS[6][1] = "="
  /\ BASIC_TOKENS[7][1] = "!" /\ BASIC_TOKENS[8][1] = "!" /\ BASIC_TOKENS[9][1] = "<"
  /\ BASIC_TOKENS[10][1] = ">" /\ BASIC_TOKENS[11][1] = "<" /\ BASIC_TOKENS[12][1] = ">"
  /\ BASIC_TOKENS[13][1] = "+" /\ BASIC_TOKENS[14][1] = "-" /\ BASIC_TOKENS[15][1] = "+"
  /\ BASIC_TOKENS[16][1] = "-" /\ BASIC_TOKENS[17][1] = "*" /\ BASIC_TOKENS[18][1] = "*"
  /\ BASIC_TOKENS[19][1] = "/" /\ BASIC_TOKENS[20][1] = "/" /\ BASIC_TOKENS[21][1] = "*"
  /\ BASIC_TOKENS[22][1] = "*" /\ BASIC_TOKENS[23][1] = "/" /\ BASIC_TOKENS[24][1] = "/"
  /\ BASIC_TOKENS[25][1] = "." /\ BASIC_TOKENS[26][1] = ":" /\ BASIC_TOKENS[27][1] = ","
  /\ BASIC_TOKENS[28][1] = ";"
  BY DEF BASIC_TOKENS

LEMMA TokenRests ==
  /\ BASIC_TOKENS[6][2] = "=" /\ BASIC_TOKENS[8][2] = "=" /\ BASIC_TOKENS[11][2] = "="
  /\ BASIC_TOKENS[12][2] = "=" /\ BASIC_TOKENS[15][2] = "=" /\ BASIC_TOKENS[16][2] = "="
  /\ BASIC_TOKENS[18][2] = "*" /\ BASIC_TOKENS[20][2] = "/" /\ BASIC_TOKENS[21][2] = "="
  /\ BASIC_TOKENS[22][2] = "*" /\ BASIC_TOKENS[22][3] = "=" /\ BASIC_TOKENS[23][2] = "="
  /\ BASIC_TOKENS[24][2] = "/" /\ BASIC_TOKENS[24][3] = "="
  BY DEF BASIC_TOKENS

LEMMA TokensSpecial ==
  /\ BASIC_TOKENS[1] \in Seq(Special) /\ BASIC_TOKENS[2] \in Seq(Special)
  /\ BASIC_TOKENS[3] \in Seq(Special) /\ BASIC_TOKENS[4] \in Seq(Special)
  /\ BASIC_TOKENS[5] \in Seq(Special) /\ BASIC_TOKENS[6] \in Seq(Special)
  /\ BASIC_TOKENS[7] \in Seq(Special) /\ BASIC_TOKENS[8] \in Seq(Special)
  /\ BASIC_TOKENS[9] \in Seq(Special) /\ BASIC_TOKENS[10] \in Seq(Special)
  /\ BASIC_TOKENS[11] \in Seq(Special) /\ BASIC_TOKENS[12] \in Seq(Special)
  /\ BASIC_TOKENS[13] \in Seq(Special) /\ BASIC_TOKENS[14] \in Seq(Special)
  /\ BASIC_TOKENS[15] \in Seq(Special) /\ BASIC_TOKENS[16] \in Seq(Special)
  /\ BASIC_TOKENS[17] \in Seq(Special) /\ BASIC_TOKENS[18] \in Seq(Special)
  /\ BASIC_TOKENS[19] \in Seq(Special) /\ BASIC_TOKENS[20] \in Seq(Special)
  /\ BASIC_TOKENS[21] \in Seq(Special) /\ BASIC_TOKENS[22] \in Seq(Special)
  /\ BASIC_TOKENS[23] \in Seq(Special) /\ BASIC_TOKENS[24] \in Seq(Special)
  /\ BASIC_TOKENS[25] \in Seq(Special) /\ BASIC_TOKENS[26] \in Seq(Special)
  /\ BASIC_TOKENS[27] \in Seq(Special) /\ BASIC_TOKENS[28] \in Seq(Special)
  BY DEF BASIC_TOKENS, Special

LEMMA TokenNumbers ==
  /\ Len(BASIC_TOKENS) = 28
  /\ \A i \in 1 .. 28 :
       i \in {1, 2, 3, 4, 5, 6, 7, 8, 9, 10, 11, 12, 13, 14,
              15, 16, 17, 18, 19, 20, 21, 22, 23, 24, 25, 26, 27, 28}
<1>1. Len(BASIC_TOKENS) = 28
  BY DEF BASIC_TOKENS
<1>2. QED
  BY <1>1

LEMMA TokenShape ==
  ASSUME NEW i \in 1 .. 28
  PROVE  /\ BASIC_TOKENS[i] \in Seq(Special)
         /\ Len(BASIC_TOKENS[i]) \in 1 .. 3
<1>1. BASIC_TOKENS[i] \in Seq(Special)
  BY TokensSpecial, TokenNumbers
<1>2. Len(BASIC_TOKENS[i]) = 1 \/ Len(BASIC_TOKENS[i]) = 2 \/ Len(BASIC_TOKENS[i]) = 3
  BY TokenLengths, TokenNumbers
<1>3. QED
  BY <1>1, <1>2

\* Where the tokens are that begin with a character.
LEMMA TokensByFirst ==
  ASSUME NEW i \in 1 .. 28
  PROVE
    /\ BASIC_TOKENS[i][1] = "{" => i \in {1}
    /\ BASIC_TOKENS[i][1] = "}" => i \in {2}
    /\ BASIC_TOKENS[i][1] = "(" => i \in {3}
    /\ BASIC_TOKENS[i][1] = ")" => i \in {4}
    /\ BASIC_TOKENS[i][1] = "=" => i \in {5, 6}
    /\ BASIC_TOKENS[i][1] = "!" => i \in {7, 8}
    /\ BASIC_TOKENS[i][1] = "<" => i \in {9, 11}
    /\ BASIC_TOKENS[i][1] = ">" => i \in {10, 12}
    /\ BASIC_TOKENS[i][1] = "+" => i \in {13, 15}
    /\ BASIC_TOKENS[i][1] = "-" => i \in {14, 16}
    /\ BASIC_TOKENS[i][1] = "*" => i \in {17, 18, 21, 22}
    /\ BASIC_TOKENS[i][1] = "/" => i \in {19, 20, 23, 24}
    /\ BASIC_TOKENS[i][1] = "." => i \in {25}
    /\ BASIC_TOKENS[i][1] = ":" => i \in {26}
    /\ BASIC_TOKENS[i][1] = "," => i \in {27}
    /\ BASIC_TOKENS[i][1] = ";" => i \in {28}
  BY TokenFirsts, TokenNumbers, ZenonT(60)

LEMMA TokensDiffer ==
  ASSUME NEW i \in 1 .. 28, NEW j \in 1 .. 28, BASIC_TOKENS[i] = BASIC_TOKENS[j]
  PROVE  i = j
<1>1. PICK c : c = BASIC_TOKENS[i][1] /\ c = BASIC_TOKENS[j][1] /\ c \in Special
  <2>1. BASIC_TOKENS[i] \in Seq(Special) /\ Len(BASIC_TOKENS[i]) \in 1 .. 3
    BY TokenShape
  <2>2. BASIC_TOKENS[i][1] \in Special
    BY <2>1
  <2>3. QED
    BY <2>2
<1>2. CASE c = "{"
  BY <1>1, <1>2, TokensByFirst, ZenonT(60)
<1>3. CASE c = "}"
  BY <1>1, <1>3, TokensByFirst, ZenonT(60)
<1>4. CASE c = "("
  BY <1>1, <1>4, TokensByFirst, ZenonT(60)
<1>5. CASE c = ")"
  BY <1>1, <1>5, TokensByFirst, ZenonT(60)
<1>6. CASE c = "="
  <2>1. i \in {5, 6}
    BY <1>1, <1>6, TokensByFirst, ZenonT(60)
  <2>2. j \in {5, 6}
    BY <1>1, <1>6, TokensByFirst, ZenonT(60)
  <2>3. /\ Len(BASIC_TOKENS[5]) = 1 /\ Len(BASIC_TOKENS[6]) = 2
    BY TokenLengths, TokenRests
  <2>4. QED
    BY <2>1, <2>2, <2>3
<1>7. CASE c = "!"
  <2>1. i \in {7, 8}
    BY <1>1, <1>7, TokensByFirst, ZenonT(60)
  <2>2. j \in {7, 8}
    BY <1>1, <1>7, TokensByFirst, ZenonT(60)
  <2>3. /\ Len(BASIC_TOKENS[7]) = 1 /\ Len(BASIC_TOKENS[8]) = 2
    BY TokenLengths, TokenRests
  <2>4. QED
    BY <2>1, <2>2, <2>3
<1>8. CASE c = "<"
  <2>1. i \in {9, 11}
    BY <1>1, <1>8, TokensByFirst, ZenonT(60)
  <2>2. j \in {9, 11}
    BY <1>1, <1>8, TokensByFirst, ZenonT(60)
  <2>3. /\ Len(BASIC_TOKENS[9]) = 1 /\ Len(BASIC_TOKENS[11]) = 2
    BY TokenLengths, TokenRests
  <2>4. QED
    BY <2>1, <2>2, <2>3
<1>9. CASE c = ">"
  <2>1. i \in {10, 12}
    BY <1>1, <1>9, TokensByFirst, ZenonT(60)
  <2>2. j \in {10, 12}
    BY <1>1, <1>9, TokensByFirst, ZenonT(60)
  <2>3. /\ Len(BASIC_TOKENS[10]) = 1 /\ Len(BASIC_TOKENS[12]) = 2
    BY TokenLengths, TokenRests
  <2>4. QED
    BY <2>1, <2>2, <2>3
<1>10. CASE c = "+"
  <2>1. i \in {13, 15}
    BY <1>1, <1>10, TokensByFirst, ZenonT(60)
  <2>2. j \in {13, 15}
    BY <1>1, <1>10, TokensByFirst, ZenonT(60)
  <2>3. /\ Len(BASIC_TOKENS[13]) = 1 /\ Len(BASIC_TOKENS[15]) = 2
    BY TokenLengths, TokenRests
  <2>4. QED
    BY <2>1, <2>2, <2>3
<1>11. CASE c = "-"
  <2>1. i \in {14, 16}
    BY <1>1, <1>11, TokensByFirst, ZenonT(60)
  <2>2. j \in {14, 16}
    BY <1>1, <1>11, TokensByFirst, ZenonT(60)
  <2>3. /\ Len(BASIC_TOKENS[14]) = 1 /\ Len(BASIC_TOKENS[16]) = 2
    BY TokenLengths, TokenRests
  <2>4. QED
    BY <2>1, <2>2, <2>3
<1>12. CASE c = "*"
  <2>1. i \in {17, 18, 21, 22}
    <3>1. BASIC_TOKENS[i][1] = "*" => i \in {17, 18, 21, 22}
      BY TokensByFirst, ZenonT(60)
    <3>2. QED
      BY <3>1, <1>1, <1>12
  <2>2. j \in {17, 18, 21, 22}
    <3>1. BASIC_TOKENS[j][1] = "*" => j \in {17, 18, 21, 22}
      BY TokensByFirst, ZenonT(60)
    <3>2. QED
      BY <3>1, <1>1, <1>12
  <2>3. /\ Len(BASIC_TOKENS[17]) = 1 /\ Len(BASIC_TOKENS[18]) = 2
        /\ Len(BASIC_TOKENS[21]) = 2 /\ Len(BASIC_TOKENS[22]) = 3
        /\ BASIC_TOKENS[18][2] = "*" /\ BASIC_TOKENS[21][2] = "="
    BY TokenLengths, TokenRests
  <2>4. QED
    BY <2>1, <2>2, <2>3
<1>13. CASE c = "/"
  <2>1. i \in {19, 20, 23, 24}
    <3>1. BASIC_TOKENS[i][1] = "/" => i \in {19, 20, 23, 24}
      BY TokensByFirst, ZenonT(60)
    <3>2. QED
      BY <3>1, <1>1, <1>13
  <2>2. j \in {19, 20, 23, 24}
    <3>1. BASIC_TOKENS[j][1] = "/" => j \in {19, 20, 23, 24}
      BY TokensByFirst, ZenonT(60)
    <3>2. QED
      BY <3>1, <1>1, <1>13
  <2>3. /\ Len(BASIC_TOKENS[19]) = 1 /\ Len(BASIC_TOKENS[20]) = 2
        /\ Len(BASIC_TOKENS[23]) = 2 /\ Len(BASIC_TOKENS[24]) = 3
        /\ BASIC_TOKENS[20][2] = "/" /\ BASIC_TOKENS[23][2] = "="
    BY TokenLengths, TokenRests
  <2>4. QED
    BY <2>1, <2>2, <2>3
<1>14. CASE c = "."
  BY <1>1, <1>14, TokensByFirst, ZenonT(60)
<1>15. CASE c = ":"
  BY <1>1, <1>15, TokensByFirst, ZenonT(60)
<1>16. CASE c = ","
  BY <1>1, <1>16, TokensByFirst, ZenonT(60)
<1>17. CASE c = ";"
  BY <1>1, <1>17, TokensByFirst, ZenonT(60)
<1>18. QED
  BY <1>1, <1>2, <1>3, <1>4, <1>5, <1>6, <1>7, <1>8, <1>9, <1>10, <1>11, <1>12, <1>13, <1>14, <1>15, <1>16, <1>17 DEF Special

\* Token k is a prefix of token i.
LEMMA SamePrefix ==
  ASSUME NEW i \in 1 .. 28, NEW k \in 1 .. 28, Len(BASIC_TOKENS[k]) <= Len(BASIC_TOKENS[i]),
         \A n \in 1 .. Len(BASIC_TOKENS[k]) : BASIC_TOKENS[k][n] = BASIC_TOKENS[i][n]
  PROVE  BASIC_TOKENS[k] = Prefix(BASIC_TOKENS[i], Len(BASIC_TOKENS[k]))
<1>1. PICK s \in Seq(Special), t \in Seq(Special) : s = BASIC_TOKENS[k] /\ t = BASIC_TOKENS[i]
  BY TokenShape
<1>2. PICK m \in Nat : m = Len(s) /\ m <= Len(t) /\ \A n \in 1 .. m : s[n] = t[n]
  BY <1>1
<1>3. SubSeq(t, 1, m) \in Seq(Special) /\ Len(SubSeq(t, 1, m)) = m
      /\ \A n \in 1 .. m : SubSeq(t, 1, m)[n] = t[n]
  BY <1>2
<1>4. SubSeq(t, 1, m) = s
  BY <1>2, <1>3, SeqEqual
<1>5. QED
  BY <1>1, <1>2, <1>4 DEF Prefix

\* The first character of token i is token k.
Begins(k, i) ==
  k \in 1 .. i - 1 /\ Len(BASIC_TOKENS[k]) = 1 /\ BASIC_TOKENS[k][1] = BASIC_TOKENS[i][1]

LEMMA OnlyThree == \A n \in 1 .. 3 : 2 < n => n = 3
  OBVIOUS

\* The proper prefixes of a token are tokens, and come before it.
LEMMA PrefixesComeFirst ==
  ASSUME NEW i \in 1 .. 28, NEW m \in 1 .. 2, m < Len(BASIC_TOKENS[i])
  PROVE  \E k \in 1 .. i - 1 : BASIC_TOKENS[k] = Prefix(BASIC_TOKENS[i], m)
<1>1. PICK len \in 1 .. 3 : len = Len(BASIC_TOKENS[i])
  BY TokenShape
<1>2. CASE m = 1
  <2>1. i \in {6, 8, 11, 12, 15, 16, 18, 20, 21, 22, 23, 24}
    <3>1. Len(BASIC_TOKENS[i]) # 1
      BY <1>1, <1>2
    <3>2. QED
      BY <3>1, TokenLengths, TokenNumbers
  <2>2. /\ Len(BASIC_TOKENS[5]) = 1 /\ Len(BASIC_TOKENS[7]) = 1 /\ Len(BASIC_TOKENS[9]) = 1
        /\ Len(BASIC_TOKENS[10]) = 1 /\ Len(BASIC_TOKENS[13]) = 1 /\ Len(BASIC_TOKENS[14]) = 1
        /\ Len(BASIC_TOKENS[17]) = 1 /\ Len(BASIC_TOKENS[19]) = 1
    BY TokenLengths
  <2>3. Begins(5, 6) /\ Begins(7, 8) /\ Begins(9, 11) /\ Begins(10, 12)
    <3>1. BASIC_TOKENS[5][1] = BASIC_TOKENS[6][1] /\ BASIC_TOKENS[7][1] = BASIC_TOKENS[8][1]
      BY TokenFirsts, ZenonT(60)
    <3>2. BASIC_TOKENS[9][1] = BASIC_TOKENS[11][1] /\ BASIC_TOKENS[10][1] = BASIC_TOKENS[12][1]
      BY TokenFirsts, ZenonT(60)
    <3>3. QED
      BY <3>1, <3>2, <2>2 DEF Begins
  <2>4. Begins(13, 15) /\ Begins(14, 16) /\ Begins(17, 18) /\ Begins(19, 20)
        /\ Begins(17, 21) /\ Begins(17, 22) /\ Begins(19, 23) /\ Begins(19, 24)
    <3>1. BASIC_TOKENS[13][1] = BASIC_TOKENS[15][1] /\ BASIC_TOKENS[14][1] = BASIC_TOKENS[16][1]
      BY TokenFirsts, ZenonT(60)
    <3>2. BASIC_TOKENS[17][1] = BASIC_TOKENS[18][1] /\ BASIC_TOKENS[19][1] = BASIC_TOKENS[20][1]
      BY TokenFirsts, ZenonT(60)
    <3>3. BASIC_TOKENS[17][1] = BASIC_TOKENS[21][1] /\ BASIC_TOKENS[17][1] = BASIC_TOKENS[22][1]
      BY TokenFirsts, ZenonT(60)
    <3>4. BASIC_TOKENS[19][1] = BASIC_TOKENS[23][1] /\ BASIC_TOKENS[19][1] = BASIC_TOKENS[24][1]
      BY TokenFirsts, ZenonT(60)
    <3>5. QED
      BY <3>1, <3>2, <3>3, <3>4, <2>2 DEF Begins
  <2>5. PICK k : Begins(k, i)
    BY <2>1, <2>3, <2>4
  <2>6. k \in 1 .. 28 /\ Len(BASIC_TOKENS[k]) <= Len(BASIC_TOKENS[i])
    BY <2>5, <1>1 DEF Begins
  <2>7. BASIC_TOKENS[k] = Prefix(BASIC_TOKENS[i], Len(BASIC_TOKENS[k]))
    <3>1. \A n \in 1 .. Len(BASIC_TOKENS[k]) : BASIC_TOKENS[k][n] = BASIC_TOKENS[i][n]
      BY <2>5 DEF Begins
    <3>2. QED
      BY <2>6, <3>1, SamePrefix
  <2>8. QED
    BY <2>5, <2>7, <1>2 DEF Begins
<1>3. CASE m = 2
  <2>1. i \in {22, 24}
    <3>1. PICK l \in 1 .. 3 : l = Len(BASIC_TOKENS[i]) /\ 2 < l
      BY <1>1, <1>3
    <3>2. l = 3
      BY <3>1, OnlyThree
    <3>3. Len(BASIC_TOKENS[i]) = 3
      BY <3>1, <3>2
    <3>4. QED
      BY <3>3, TokenLengths, TokenNumbers
  <2>2. Len(BASIC_TOKENS[18]) = 2 /\ Len(BASIC_TOKENS[20]) = 2
    BY TokenLengths
  <2>3. BASIC_TOKENS[18][1] = BASIC_TOKENS[22][1] /\ BASIC_TOKENS[20][1] = BASIC_TOKENS[24][1]
    BY TokenFirsts, ZenonT(60)
  <2>4. BASIC_TOKENS[18][2] = BASIC_TOKENS[22][2] /\ BASIC_TOKENS[20][2] = BASIC_TOKENS[24][2]
    BY TokenRests
  <2>5. PICK k \in {18, 20} : (i = 22 => k = 18) /\ (i = 24 => k = 20)
    BY <2>1
  <2>6. /\ k \in 1 .. i - 1 /\ k \in 1 .. 28 /\ Len(BASIC_TOKENS[k]) = 2
        /\ Len(BASIC_TOKENS[k]) <= Len(BASIC_TOKENS[i])
        /\ BASIC_TOKENS[k][1] = BASIC_TOKENS[i][1] /\ BASIC_TOKENS[k][2] = BASIC_TOKENS[i][2]
    <3>1. k \in 1 .. i - 1 /\ k \in 1 .. 28 /\ Len(BASIC_TOKENS[k]) = 2
      BY <2>1, <2>2, <2>5
    <3>2. Len(BASIC_TOKENS[k]) <= Len(BASIC_TOKENS[i])
      BY <3>1, <1>1, <1>3
    <3>3. BASIC_TOKENS[k][1] = BASIC_TOKENS[i][1] /\ BASIC_TOKENS[k][2] = BASIC_TOKENS[i][2]
      BY <2>1, <2>3, <2>4, <2>5
    <3>4. QED
      BY <3>1, <3>2, <3>3
  <2>7. BASIC_TOKENS[k] = Prefix(BASIC_TOKENS[i], Len(BASIC_TOKENS[k]))
    <3>1. \A n \in 1 .. 2 : n = 1 \/ n = 2
      OBVIOUS
    <3>2. \A n \in 1 .. Len(BASIC_TOKENS[k]) : BASIC_TOKENS[k][n] = BASIC_TOKENS[i][n]
      BY <2>6, <3>1
    <3>3. QED
      BY <2>6, <3>2, SamePrefix
  <2>8. QED
    BY <2>6, <2>7, <1>3
<1>4. QED
  BY <1>2, <1>3

\* The nodes after the first i tokens.
Nodes(i) == [n \in 1 .. i |-> BASIC_TOKENS[n]]

\* A token adds one node to them: itself.
LEMMA TokenAddsItself ==
  ASSUME NEW i \in 1 .. 28
  PROVE  NewNodes(BASIC_TOKENS[i], Nodes(i - 1)) = <<BASIC_TOKENS[i]>>
<1>1. PICK t, nodes : t = BASIC_TOKENS[i] /\ nodes = Nodes(i - 1) /\ t \in Seq(Special)
  BY TokenShape
<1>2. PICK len \in 1 .. 3 : len = Len(t)
  BY <1>1, TokenShape
<1>3. DOMAIN nodes = 1 .. i - 1 /\ \A k \in 1 .. i - 1 : nodes[k] = BASIC_TOKENS[k]
  BY <1>1 DEF Nodes
<1>4. ASSUME NEW m \in 1 .. len - 1 PROVE \E k \in DOMAIN nodes : nodes[k] = Prefix(t, m)
  <2>1. m \in 1 .. 2 /\ m < len
    BY <1>2
  <2>2. QED
    BY <2>1, <1>1, <1>2, <1>3, PrefixesComeFirst
<1>5. Prefix(t, len) = t
  <2>1. t \in Seq(Special)
    BY <1>1
  <2>2. SubSeq(t, 1, Len(t)) = t
    BY <2>1, SubSeqFull
  <2>3. QED
    BY <2>2, <1>2 DEF Prefix
<1>6. \A k \in DOMAIN nodes : nodes[k] # Prefix(t, len)
  <2>1. \A k \in 1 .. i - 1 : k \in 1 .. 28 /\ k # i
    OBVIOUS
  <2>2. QED
    BY <2>1, <1>1, <1>3, <1>5, TokensDiffer
<1>. DEFINE Stops(n) == /\ \A m \in 1 .. n : \E k \in DOMAIN nodes : nodes[k] = Prefix(t, m)
                        /\ n = Len(t) \/ \A k \in DOMAIN nodes : nodes[k] # Prefix(t, n + 1)
<1>7. Stops(len - 1) /\ len - 1 \in 0 .. Len(t)
  <2>1. PICK d \in 0 .. 2 : d = len - 1 /\ d + 1 = len
    OBVIOUS
  <2>2. \A m \in 1 .. d : \E k \in DOMAIN nodes : nodes[k] = Prefix(t, m)
    BY <2>1, <1>4
  <2>3. \A k \in DOMAIN nodes : nodes[k] # Prefix(t, d + 1)
    BY <2>1, <1>6
  <2>4. d \in 0 .. Len(t)
    BY <2>1, <1>2
  <2>5. QED
    BY <2>1, <2>2, <2>3, <2>4
<1>8. ASSUME NEW n \in 0 .. Len(t), Stops(n) PROVE n = len - 1
  <2>1. CASE n = len
    <3>1. len \in 1 .. n
      BY <2>1
    <3>2. QED
      BY <3>1, <1>6, <1>8
  <2>2. CASE n < len - 1
    <3>1. n + 1 \in 1 .. len - 1 /\ n # Len(t)
      BY <2>2, <1>2
    <3>2. QED
      BY <3>1, <1>4, <1>8
  <2>3. QED
    BY <2>1, <2>2, <1>2
<1>9. Followed(t, nodes) = len - 1
  <2>1. Followed(t, nodes) = CHOOSE n \in 0 .. Len(t) : Stops(n)
    BY DEF Followed
  <2>. HIDE DEF Stops
  <2>2. QED
    BY <2>1, <1>7, <1>8
<1>10. NewNodes(t, nodes) = [n \in 1 .. 1 |-> t]
  <2>1. Len(t) - Followed(t, nodes) = 1 /\ \A n \in 1 .. 1 : Followed(t, nodes) + n = len
    BY <1>2, <1>9
  <2>2. QED
    BY <2>1, <1>5 DEF NewNodes
<1>11. [n \in 1 .. 1 |-> t] = <<t>>
  OBVIOUS
<1>12. QED
  BY <1>1, <1>10, <1>11

LEMMA FunctionIsSequence ==
  ASSUME NEW S, NEW n \in Nat, NEW f \in [1 .. n -> S]
  PROVE  f \in Seq(S) /\ Len(f) = n
<1>1. f \in Seq(S)
  BY SeqDef
<1>2. DOMAIN f = 1 .. n /\ DOMAIN f = 1 .. Len(f) /\ Len(f) \in Nat
  BY <1>1, LenProperties
<1>3. QED
  BY <1>1, <1>2

\* Every token is one node, and has the index of its node.
LEMMA TrieIsTheTokens ==
  Trie = BASIC_TOKENS
<1>. DEFINE Def(f) == [i \in 0 .. 28 |->
              IF i = 0 THEN << >> ELSE f[i - 1] \o NewNodes(BASIC_TOKENS[i], f[i - 1])]
            G == [i \in 0 .. 28 |-> Nodes(i)]
<1>1. TrieOf = CHOOSE f : f = Def(f)
  BY TokenNumbers DEF TrieOf
<1>2. ASSUME NEW i \in 0 .. 28
      PROVE  Nodes(i) \in Seq(Seq(Special)) /\ Len(Nodes(i)) = i
  <2>1. \A n \in 1 .. i : n \in 1 .. 28
    OBVIOUS
  <2>2. Nodes(i) \in [1 .. i -> Seq(Special)]
    BY <2>1, TokenShape DEF Nodes
  <2>3. i \in Nat
    OBVIOUS
  <2>4. QED
    BY <2>2, <2>3, FunctionIsSequence
<1>3. Nodes(0) = << >>
  BY <1>2, SeqEqual
<1>4. ASSUME NEW i \in 1 .. 28
      PROVE  Nodes(i) = Nodes(i - 1) \o NewNodes(BASIC_TOKENS[i], Nodes(i - 1))
  <2>1. PICK s \in Seq(Seq(Special)), t \in Seq(Special) :
          s = Nodes(i - 1) /\ t = BASIC_TOKENS[i] /\ Len(s) = i - 1
    <3>1. i - 1 \in 0 .. 28
      OBVIOUS
    <3>2. QED
      BY <3>1, <1>2, TokenShape
  <2>2. s \o <<t>> = Append(s, t)
    BY <2>1
  <2>3. Append(s, t) = Nodes(i)
    <3>1. PICK u : u = Append(s, t)
      OBVIOUS
    <3>2. /\ u \in Seq(Seq(Special)) /\ Len(u) = Len(s) + 1
          /\ u[Len(s) + 1] = t /\ \A n \in 1 .. Len(s) : u[n] = s[n]
      BY <3>1
    <3>3. i - 1 + 1 = i /\ \A n \in 1 .. i : n = i \/ n \in 1 .. i - 1
      OBVIOUS
    <3>4. \A n \in 1 .. i : u[n] = Nodes(i)[n]
      BY <3>2, <3>3, <2>1 DEF Nodes
    <3>5. Len(u) = i
      BY <3>2, <3>3, <2>1
    <3>6. i \in 0 .. 28
      OBVIOUS
    <3>7. Nodes(i) \in Seq(Seq(Special)) /\ Len(Nodes(i)) = i
      BY <3>6, <1>2
    <3>8. QED
      BY <3>1, <3>2, <3>4, <3>5, <3>7, SeqEqual
  <2>4. QED
    BY <2>1, <2>2, <2>3, TokenAddsItself
<1>5. G = Def(G)
  <2>1. ASSUME NEW i \in 0 .. 28 PROVE G[i] = Def(G)[i]
    <3>1. CASE i = 0
      BY <3>1, <1>3
    <3>2. CASE i # 0
      <4>1. i \in 1 .. 28 /\ G[i - 1] = Nodes(i - 1)
        BY <3>2
      <4>2. QED
        BY <4>1, <3>2, <1>4
    <3>3. QED
      BY <3>1, <3>2
  <2>2. QED
    BY <2>1
<1>. HIDE DEF G
<1>6. ASSUME NEW g, NEW i \in 0 .. 28
      PROVE  Def(g)[i] = IF i = 0 THEN << >>
                         ELSE g[i - 1] \o NewNodes(BASIC_TOKENS[i], g[i - 1])
  OBVIOUS
<1>. HIDE DEF Def
<1>7. PICK f : f = TrieOf /\ f = Def(f)
  BY <1>1, <1>5
<1>8. f[0] = << >>
  <2>1. PICK g : g = f /\ f = Def(g)
    BY <1>7
  <2>2. PICK i \in 0 .. 28 : i = 0
    OBVIOUS
  <2>3. Def(g)[i] = << >>
    BY <2>2, <1>6
  <2>4. QED
    BY <2>1, <2>2, <2>3
<1>9. ASSUME NEW i \in 1 .. 28 PROVE f[i] = f[i - 1] \o NewNodes(BASIC_TOKENS[i], f[i - 1])
  <2>1. i \in 0 .. 28 /\ i # 0
    OBVIOUS
  <2>2. QED
    BY <2>1, <1>6, <1>7
<1>10. \A i \in 0 .. 28 : f[i] = Nodes(i)
  <2>. DEFINE T == {n \in Nat : n \in 0 .. 28 => f[n] = Nodes(n)}
  <2>1. 0 \in T
    BY <1>3, <1>8
  <2>2. ASSUME NEW n \in Nat, n \in T PROVE n + 1 \in T
    <3>1. CASE n + 1 \in 1 .. 28
      <4>1. PICK i \in 1 .. 28 : i = n + 1 /\ i - 1 = n
        BY <3>1
      <4>2. f[i - 1] = Nodes(i - 1)
        BY <3>1, <4>1, <2>2
      <4>3. f[i] = Nodes(i)
        BY <4>2, <1>4, <1>9
      <4>4. QED
        BY <4>1, <4>3
    <3>2. CASE n + 1 \notin 1 .. 28
      <4>1. n + 1 \notin 0 .. 28
        BY <3>2
      <4>2. QED
        BY <4>1
    <3>3. QED
      BY <3>1, <3>2
  <2>3. Nat \subseteq T
    <3>. HIDE DEF T
    <3>1. QED
      BY <2>1, <2>2, NumbersByInduction
  <2>4. QED
    BY <2>3
<1>11. Nodes(28) = BASIC_TOKENS
  <2>1. BASIC_TOKENS = [n \in 1 .. 28 |-> BASIC_TOKENS[n]]
    BY DEF BASIC_TOKENS
  <2>2. QED
    BY <2>1 DEF Nodes
<1>12. QED
  BY <1>7, <1>10, <1>11, TokenNumbers DEF Trie

-----------------------------------------------------------------------------
(***************************************************************************)
(* Characters and texts.                                                   *)
(***************************************************************************)
LEMMA SpecialIsNoDigit == Special \cap Digits = {}
  BY DEF Special, Digits

LEMMA NulStops == "NUL" \notin Special /\ "NUL" \notin Digits /\ ~IsAlpha("NUL")
<1>1. "NUL" \notin Special
  BY DEF Special
<1>2. "NUL" \notin Digits
  BY DEF Digits
<1>3. QED
  BY <1>1, <1>2 DEF IsAlpha, Unknown

LEMMA OneClass ==
  ASSUME NEW c
  PROVE  /\ c \in Special => ~IsAlpha(c) /\ ~IsNum(c)
         /\ IsNum(c) => ~IsAlpha(c) /\ c \notin Special
         /\ IsAlpha(c) => ~IsNum(c) /\ c \notin Special
  BY SpecialIsNoDigit DEF IsAlpha, IsNum

LEMMA ChildrenAreLeaves == Children = Leaves /\ Leaves = {BASIC_TOKENS[i] : i \in 1 .. 28}
<1>1. DOMAIN BASIC_TOKENS = 1 .. 28
  BY DEF BASIC_TOKENS
<1>2. QED
  BY <1>1, TrieIsTheTokens DEF Children, Leaves

\* A token is made of special characters, and so is each of its prefixes a token.
LEMMA LeafShape ==
  ASSUME NEW t \in Leaves
  PROVE  /\ t \in Seq(Special) /\ Len(t) \in 1 .. 3
         /\ \A n \in 1 .. Len(t) : t[n] \in Special
         /\ \A m \in 1 .. Len(t) : Prefix(t, m) \in Leaves
<1>1. PICK i \in 1 .. 28 : t = BASIC_TOKENS[i]
  BY ChildrenAreLeaves
<1>2. t \in Seq(Special) /\ Len(t) \in 1 .. 3
  BY <1>1, TokenShape
<1>3. \A n \in 1 .. Len(t) : t[n] \in Special
  BY <1>2, ElementOfSeq
<1>4. ASSUME NEW m \in 1 .. Len(t) PROVE Prefix(t, m) \in Leaves
  <2>1. CASE m = Len(t)
    <3>1. Prefix(t, m) = t
      BY <2>1, <1>2, SubSeqFull DEF Prefix
    <3>2. QED
      BY <3>1
  <2>2. CASE m # Len(t)
    <3>1. PICK len \in 1 .. 3 : len = Len(t)
      BY <1>2
    <3>2. m \in 1 .. 2 /\ m < len
      BY <3>1, <2>2
    <3>3. m \in 1 .. 2 /\ m < Len(BASIC_TOKENS[i])
      BY <3>1, <3>2, <1>1
    <3>4. PICK k \in 1 .. i - 1 : BASIC_TOKENS[k] = Prefix(BASIC_TOKENS[i], m)
      BY <3>3, PrefixesComeFirst
    <3>5. k \in 1 .. 28
      OBVIOUS
    <3>6. QED
      BY <3>4, <3>5, <1>1, ChildrenAreLeaves
  <2>3. QED
    BY <2>1, <2>2
<1>5. QED
  BY <1>2, <1>3, <1>4

TextShape == source \in Texts /\ behind \in Behinds

LEMMA BytesAreStrings ==
  ASSUME TextShape
  PROVE  /\ Len(source) \in Nat
         /\ \A p \in Nat \ {0} : Byte(p) \in Characters
         /\ Byte(Len(source) + 2) = "NUL"
<1>1. source \in Seq(STRING) /\ behind \in STRING
  BY LexerAssumption DEF TextShape
<1>2. PICK len \in Nat : len = Len(source)
  BY <1>1
<1>3. ASSUME NEW p \in Nat \ {0} PROVE Byte(p) \in Characters
  <2>1. CASE p \in 1 .. len
    BY <2>1, <1>1, <1>2 DEF Byte, AtEnd, Characters
  <2>2. CASE p \notin 1 .. len
    <3>1. p > Len(source)
      BY <2>2, <1>2
    <3>2. Byte(p) = IF p = Len(source) + 1 THEN behind ELSE "NUL"
      BY <3>1 DEF Byte, AtEnd
    <3>3. Byte(p) = behind \/ Byte(p) = "NUL"
      BY <3>2
    <3>4. QED
      BY <3>3, <1>1 DEF Characters
  <2>3. QED
    BY <2>1, <2>2
<1>4. Byte(len + 2) = "NUL"
  BY <1>2 DEF Byte, AtEnd
<1>5. QED
  BY <1>2, <1>3, <1>4

LEMMA BytesDomain ==
  ASSUME NEW p, NEW q
  PROVE  DOMAIN Bytes(p, q) = 1 .. q - p /\ \A n \in 1 .. q - p : Bytes(p, q)[n] = Byte(p + n - 1)
  BY DEF Bytes

LEMMA BytesShape ==
  ASSUME TextShape, NEW p \in Nat \ {0}, NEW q \in Nat, p <= q
  PROVE  /\ Bytes(p, q) \in Seq(Characters) /\ Len(Bytes(p, q)) = q - p
         /\ \A r \in p .. q - 1 : Bytes(p, q)[r - p + 1] = Byte(r)
         /\ \A n \in 1 .. q - p : Bytes(p, q)[n] = Byte(p + n - 1) /\ p + n - 1 \in p .. q - 1
<1>1. PICK len \in Nat : len = q - p
  OBVIOUS
<1>2. ASSUME NEW n \in 1 .. len PROVE Byte(p + n - 1) \in Characters /\ p + n - 1 \in p .. q - 1
  <2>1. p + n - 1 \in Nat \ {0} /\ p + n - 1 \in p .. q - 1
    BY <1>1
  <2>2. QED
    BY <2>1, BytesAreStrings
<1>3. PICK f : f = Bytes(p, q) /\ f = [n \in 1 .. len |-> Byte(p + n - 1)]
  BY <1>1 DEF Bytes
<1>4. f \in [1 .. len -> Characters]
  BY <1>2, <1>3
<1>5. f \in Seq(Characters) /\ Len(f) = len
  BY <1>4, FunctionIsSequence
<1>6. ASSUME NEW r \in p .. q - 1 PROVE f[r - p + 1] = Byte(r)
  <2>1. r - p + 1 \in 1 .. len /\ p + (r - p + 1) - 1 = r
    BY <1>1
  <2>2. QED
    BY <2>1, <1>3
<1>7. QED
  BY <1>1, <1>2, <1>3, <1>5, <1>6

LEMMA BytesPrefix ==
  ASSUME TextShape, NEW p \in Nat \ {0}, NEW q \in Nat, NEW e \in Nat, p <= e, e <= q
  PROVE  Prefix(Bytes(p, q), e - p) = Bytes(p, e)
<1>1. PICK m \in Nat, n \in Nat : m = e - p /\ n = q - p /\ m <= n
  <2>1. e - p \in Nat /\ q - p \in Nat /\ e - p <= q - p
    OBVIOUS
  <2>2. QED
    BY <2>1
<1>2. PICK t \in Seq(Characters), u \in Seq(Characters) :
        t = Bytes(p, q) /\ u = Bytes(p, e) /\ Len(t) = n /\ Len(u) = m
  <2>1. Bytes(p, q) \in Seq(Characters) /\ Len(Bytes(p, q)) = q - p
    <3>1. p <= q
      OBVIOUS
    <3>2. QED
      BY <3>1, BytesShape
  <2>2. Bytes(p, e) \in Seq(Characters) /\ Len(Bytes(p, e)) = e - p
    BY BytesShape
  <2>3. QED
    BY <2>1, <2>2, <1>1
<1>3. ASSUME NEW k \in 1 .. m PROVE t[k] = u[k]
  <2>1. k \in 1 .. n
    BY <1>1
  <2>2. t[k] = Byte(p + k - 1)
    BY <2>1, <1>1, <1>2 DEF Bytes
  <2>3. u[k] = Byte(p + k - 1)
    BY <1>1, <1>2 DEF Bytes
  <2>4. QED
    BY <2>2, <2>3
<1>4. /\ SubSeq(t, 1, m) \in Seq(Characters) /\ Len(SubSeq(t, 1, m)) = m
      /\ \A k \in 1 .. m : SubSeq(t, 1, m)[k] = t[k]
  <2>1. Len(t) \in Nat /\ m <= Len(t)
    BY <1>1, <1>2
  <2>2. QED
    BY <2>1, <1>2
<1>5. SubSeq(t, 1, m) = u
  BY <1>2, <1>3, <1>4, SeqEqual
<1>6. QED
  BY <1>1, <1>2, <1>5 DEF Prefix

-----------------------------------------------------------------------------
(***************************************************************************)
(* The loops that look for the end of a token.                             *)
(***************************************************************************)
\* A loop that may stop at q0 stops there or before.
HasLeast(T, p, top, q0) ==
  \E q \in p .. top : q <= q0 /\ q \in T /\ \A r \in p .. q - 1 : r \notin T

LEMMA LeastFrom ==
  ASSUME NEW p \in Nat, NEW top \in Nat, NEW T, NEW q0 \in p .. top, q0 \in T
  PROVE  HasLeast(T, p, top, q0)
<1>. DEFINE R == {q \in p .. q0 : q \in T}
<1>1. R \in SUBSET Nat /\ q0 \in R
  OBVIOUS
<1>2. PICK q \in R : \A m \in R : q <= m
  BY <1>1, LeastNumber
<1>3. ASSUME NEW r \in p .. q - 1 PROVE r \notin T
  <2>1. r \in p .. q0 /\ ~(q <= r)
    BY <1>2
  <2>2. QED
    BY <2>1, <1>2
<1>4. q \in p .. top /\ q <= q0 /\ q \in T
  BY <1>2
<1>5. QED
  BY <1>3, <1>4 DEF HasLeast

\* Position q is where the spaces from p on end.
SpacesEnd(p, q) ==
  /\ q \in p .. Len(source) + 1
  /\ AtEnd(q) \/ Byte(q) \notin Space
  /\ \A r \in p .. q - 1 : ~AtEnd(r) /\ Byte(r) \in Space

WordEnds(p, q) ==
  /\ q \in p .. Len(source) + 2
  /\ ~IsAlpha(Byte(q)) /\ ~IsNum(Byte(q))
  /\ \A r \in p .. q - 1 : IsAlpha(Byte(r)) \/ IsNum(Byte(r))

NumberEnds(p, q) ==
  /\ q \in p .. Len(source) + 2
  /\ ~IsNum(Byte(q))
  /\ \A r \in p .. q - 1 : IsNum(Byte(r))

MatchEnds(p, q) ==
  /\ q \in p .. Len(source) + 2
  /\ Bytes(p, q + 1) \notin Leaves
  /\ \A r \in p .. q - 1 : Bytes(p, r + 1) \in Leaves

LEMMA SkipSpaceEnds ==
  ASSUME TextShape, NEW p \in 1 .. Len(source) + 1
  PROVE  SpacesEnd(p, SkipSpace(p))
<1>1. PICK len \in Nat : len = Len(source)
  BY BytesAreStrings
<1>. DEFINE Stops(q) == AtEnd(q) \/ Byte(q) \notin Space
            T == {q \in p .. len + 2 : Stops(q)}
            First(q) == q \in p .. len + 2 /\ Stops(q) /\ \A r \in p .. q - 1 : ~Stops(r)
<1>2. len + 1 \in p .. len + 2 /\ Stops(len + 1) /\ p \in Nat /\ len + 2 \in Nat
  BY <1>1 DEF AtEnd
<1>3. PICK q0 \in p .. len + 2 : q0 = len + 1 /\ q0 \in T
  BY <1>2
<1>4. PICK q \in p .. len + 2 :
        q <= q0 /\ q \in T /\ \A r \in p .. q - 1 : r \notin T
  <2>. HIDE DEF T
  <2>1. PICK top \in Nat : top = len + 2
    BY <1>2
  <2>2. p \in Nat /\ q0 \in p .. top /\ q0 \in T
    BY <2>1, <1>2, <1>3
  <2>3. HasLeast(T, p, top, q0)
    BY <2>2, LeastFrom
  <2>4. QED
    BY <2>1, <2>3 DEF HasLeast
<1>5. First(q)
  <2>1. \A r \in p .. q - 1 : r \in p .. len + 2
    OBVIOUS
  <2>. HIDE DEF Stops
  <2>2. QED
    BY <1>4, <2>1
<1>6. SkipSpace(p) = CHOOSE a \in p .. len + 2 : Stops(a) /\ \A r \in p .. a - 1 : ~Stops(r)
  BY <1>1 DEF SkipSpace, FirstFrom
<1>7. PICK e : e = SkipSpace(p) /\ First(e)
  <2>. HIDE DEF Stops
  <2>1. QED
    BY <1>5, <1>6
<1>8. e \in p .. len + 1
  <2>1. CASE e = len + 2
    <3>1. len + 1 \in p .. e - 1
      BY <2>1, <1>2
    <3>2. QED
      BY <3>1, <1>2, <1>7
  <2>2. QED
    BY <2>1, <1>7
<1>9. QED
  BY <1>1, <1>7, <1>8 DEF SpacesEnd

LEMMA WordEndEnds ==
  ASSUME TextShape, NEW p \in 1 .. Len(source) + 1
  PROVE  WordEnds(p, WordEnd(p))
<1>1. PICK len \in Nat : len = Len(source)
  BY BytesAreStrings
<1>. DEFINE Stops(q) == ~IsAlpha(Byte(q)) /\ ~IsNum(Byte(q))
            T == {q \in p .. len + 2 : Stops(q)}
            First(q) == q \in p .. len + 2 /\ Stops(q) /\ \A r \in p .. q - 1 : ~Stops(r)
<1>2. len + 2 \in p .. len + 2 /\ Stops(len + 2) /\ p \in Nat /\ len + 2 \in Nat
  BY <1>1, NulStops, BytesAreStrings DEF IsNum
<1>3. PICK q0 \in p .. len + 2 : q0 = len + 2 /\ q0 \in T
  BY <1>2
<1>4. PICK q \in p .. len + 2 :
        q <= q0 /\ q \in T /\ \A r \in p .. q - 1 : r \notin T
  <2>. HIDE DEF T
  <2>1. PICK top \in Nat : top = len + 2
    BY <1>2
  <2>2. p \in Nat /\ q0 \in p .. top /\ q0 \in T
    BY <2>1, <1>2, <1>3
  <2>3. HasLeast(T, p, top, q0)
    BY <2>2, LeastFrom
  <2>4. QED
    BY <2>1, <2>3 DEF HasLeast
<1>5. First(q)
  <2>1. \A r \in p .. q - 1 : r \in p .. len + 2
    OBVIOUS
  <2>. HIDE DEF Stops
  <2>2. QED
    BY <1>4, <2>1
<1>6. WordEnd(p) = CHOOSE a \in p .. len + 2 : Stops(a) /\ \A r \in p .. a - 1 : ~Stops(r)
  BY <1>1 DEF WordEnd, FirstFrom
<1>7. First(WordEnd(p))
  <2>. HIDE DEF Stops
  <2>1. QED
    BY <1>5, <1>6
<1>8. QED
  BY <1>1, <1>7 DEF WordEnds

LEMMA NumberEndEnds ==
  ASSUME TextShape, NEW p \in 1 .. Len(source) + 1
  PROVE  NumberEnds(p, NumberEnd(p))
<1>1. PICK len \in Nat : len = Len(source)
  BY BytesAreStrings
<1>. DEFINE Stops(q) == ~IsNum(Byte(q))
            T == {q \in p .. len + 2 : Stops(q)}
            First(q) == q \in p .. len + 2 /\ Stops(q) /\ \A r \in p .. q - 1 : ~Stops(r)
<1>2. len + 2 \in p .. len + 2 /\ Stops(len + 2) /\ p \in Nat /\ len + 2 \in Nat
  BY <1>1, NulStops, BytesAreStrings DEF IsNum
<1>3. PICK q0 \in p .. len + 2 : q0 = len + 2 /\ q0 \in T
  BY <1>2
<1>4. PICK q \in p .. len + 2 :
        q <= q0 /\ q \in T /\ \A r \in p .. q - 1 : r \notin T
  <2>. HIDE DEF T
  <2>1. PICK top \in Nat : top = len + 2
    BY <1>2
  <2>2. p \in Nat /\ q0 \in p .. top /\ q0 \in T
    BY <2>1, <1>2, <1>3
  <2>3. HasLeast(T, p, top, q0)
    BY <2>2, LeastFrom
  <2>4. QED
    BY <2>1, <2>3 DEF HasLeast
<1>5. First(q)
  <2>1. \A r \in p .. q - 1 : r \in p .. len + 2
    OBVIOUS
  <2>. HIDE DEF Stops
  <2>2. QED
    BY <1>4, <2>1
<1>6. NumberEnd(p) = CHOOSE a \in p .. len + 2 : Stops(a) /\ \A r \in p .. a - 1 : ~Stops(r)
  BY <1>1 DEF NumberEnd, FirstFrom
<1>7. First(NumberEnd(p))
  <2>. HIDE DEF Stops
  <2>1. QED
    BY <1>5, <1>6
<1>8. QED
  BY <1>1, <1>7 DEF NumberEnds

LEMMA MatchEndEnds ==
  ASSUME TextShape, NEW p \in 1 .. Len(source) + 1
  PROVE  MatchEnds(p, MatchEnd(p))
<1>1. PICK len \in Nat : len = Len(source)
  BY BytesAreStrings
<1>. DEFINE Stops(q) == Bytes(p, q + 1) \notin Leaves
            T == {q \in p .. len + 2 : Stops(q)}
            First(q) == q \in p .. len + 2 /\ Stops(q) /\ \A r \in p .. q - 1 : ~Stops(r)
<1>2. len + 2 \in p .. len + 2 /\ Stops(len + 2) /\ p \in Nat /\ len + 2 \in Nat
  <2>1. PICK t, n : t = Bytes(p, len + 3) /\ n = len + 3 - p
    OBVIOUS
  <2>2. n \in 1 .. Len(t) /\ t[n] = Byte(len + 2)
    <3>1. p \in Nat \ {0} /\ len + 3 \in Nat /\ p <= len + 3 /\ n \in Nat /\ n \in 1 .. n
      BY <2>1, <1>1
    <3>2. Len(t) = n /\ t[n] = Byte(p + n - 1)
      <4>1. PICK q \in Nat : q = len + 3
        BY <3>1
      <4>2. Len(t) = q - p /\ \A m \in 1 .. q - p : t[m] = Byte(p + m - 1)
        <5>1. t = Bytes(p, q) /\ p <= q /\ p \in Nat \ {0}
          BY <4>1, <3>1, <2>1
        <5>2. Len(t) = q - p
          BY <5>1, BytesShape
        <5>3. QED
          BY <5>1, <5>2, BytesDomain
      <4>3. q - p = n
        BY <4>1, <2>1
      <4>4. n \in 1 .. q - p
        BY <4>3, <3>1
      <4>5. QED
        BY <4>2, <4>3, <4>4
    <3>3. p + n - 1 = len + 2
      BY <2>1, <1>1
    <3>4. QED
      BY <3>1, <3>2, <3>3
  <2>3. t[n] \notin Special
    BY <2>2, <1>1, NulStops, BytesAreStrings
  <2>4. t \notin Leaves
    BY <2>2, <2>3, LeafShape
  <2>5. len + 2 + 1 = len + 3 /\ len + 2 \in p .. len + 2 /\ p \in Nat /\ len + 2 \in Nat
    BY <1>1
  <2>6. QED
    BY <2>1, <2>4, <2>5
<1>3. PICK q0 \in p .. len + 2 : q0 = len + 2 /\ q0 \in T
  BY <1>2
<1>4. PICK q \in p .. len + 2 :
        q <= q0 /\ q \in T /\ \A r \in p .. q - 1 : r \notin T
  <2>. HIDE DEF T
  <2>1. PICK top \in Nat : top = len + 2
    BY <1>2
  <2>2. p \in Nat /\ q0 \in p .. top /\ q0 \in T
    BY <2>1, <1>2, <1>3
  <2>3. HasLeast(T, p, top, q0)
    BY <2>2, LeastFrom
  <2>4. QED
    BY <2>1, <2>3 DEF HasLeast
<1>5. First(q)
  <2>1. \A r \in p .. q - 1 : r \in p .. len + 2
    OBVIOUS
  <2>. HIDE DEF Stops
  <2>2. QED
    BY <1>4, <2>1
<1>6. MatchEnd(p) = CHOOSE a \in p .. len + 2 : Stops(a) /\ \A r \in p .. a - 1 : ~Stops(r)
  BY <1>1, ChildrenAreLeaves DEF MatchEnd, FirstFrom
<1>7. First(MatchEnd(p))
  <2>. HIDE DEF Stops
  <2>1. QED
    BY <1>5, <1>6
<1>8. QED
  BY <1>1, <1>7 DEF MatchEnds

-----------------------------------------------------------------------------
(***************************************************************************)
(* What is between the ends is a token, and nothing longer is.             *)
(***************************************************************************)
LEMMA ByteInside ==
  ASSUME TextShape, NEW p \in Nat \ {0}, NEW q \in Nat, NEW r \in Nat, p <= r, r < q
  PROVE  /\ Bytes(p, q) # << >> /\ Bytes(p, q)[1] = Byte(p) /\ 1 \in DOMAIN Bytes(p, q)
         /\ \E n \in DOMAIN Bytes(p, q) : Bytes(p, q)[n] = Byte(r)
<1>1. PICK d : d = 1 .. q - p /\ d = DOMAIN Bytes(p, q)
  BY BytesDomain
<1>2. 1 \in d /\ p + 1 - 1 = p
  BY <1>1
<1>3. PICK n \in Nat : n \in d /\ p + n - 1 = r
  <2>1. r - p + 1 \in d /\ p + (r - p + 1) - 1 = r /\ r - p + 1 \in Nat
    BY <1>1
  <2>2. QED
    BY <2>1
<1>4. Bytes(p, q)[1] = Byte(p)
  BY <1>1, <1>2, BytesDomain
<1>5. Bytes(p, q)[n] = Byte(r)
  BY <1>1, <1>3, BytesDomain
<1>6. Bytes(p, q) # << >>
  <2>1. DOMAIN << >> = {}
    OBVIOUS
  <2>2. QED
    BY <2>1, <1>1, <1>2
<1>7. QED
  BY <1>1, <1>2, <1>3, <1>4, <1>5, <1>6

LEMMA LeafStart ==
  ASSUME NEW t \in Leaves
  PROVE  t[1] \in Special
<1>1. 1 \in 1 .. Len(t)
  BY LeafShape
<1>2. QED
  BY <1>1, LeafShape

LEMMA NothingLongerThanWord ==
  ASSUME TextShape, NEW p \in Nat \ {0}, NEW q \in Nat, NEW r \in Nat, p <= r, r < q,
         IsAlpha(Byte(p)), ~IsAlpha(Byte(r)), ~IsNum(Byte(r))
  PROVE  ~IsToken(Bytes(p, q))
<1>1. PICK t : t = Bytes(p, q)
  OBVIOUS
<1>2. /\ t # << >> /\ t[1] = Byte(p) /\ 1 \in DOMAIN t
      /\ \E n \in DOMAIN t : t[n] = Byte(r)
  BY <1>1, ByteInside
<1>3. t \notin Leaves
  BY <1>2, LeafStart, OneClass
<1>4. ~IsWord(t)
  BY <1>2 DEF IsWord
<1>5. ~IsNumber(t)
  BY <1>2 DEF IsNumber
<1>6. QED
  BY <1>1, <1>3, <1>4, <1>5 DEF IsToken

LEMMA NothingLongerThanNumber ==
  ASSUME TextShape, NEW p \in Nat \ {0}, NEW q \in Nat, NEW r \in Nat, p <= r, r < q,
         IsNum(Byte(p)), ~IsNum(Byte(r))
  PROVE  ~IsToken(Bytes(p, q))
<1>1. PICK t : t = Bytes(p, q)
  OBVIOUS
<1>2. /\ t # << >> /\ t[1] = Byte(p) /\ 1 \in DOMAIN t
      /\ \E n \in DOMAIN t : t[n] = Byte(r)
  BY <1>1, ByteInside
<1>3. t \notin Leaves
  BY <1>2, LeafStart, OneClass
<1>4. ~IsWord(t)
  BY <1>2, OneClass DEF IsWord
<1>5. ~IsNumber(t)
  BY <1>2 DEF IsNumber
<1>6. QED
  BY <1>1, <1>3, <1>4, <1>5 DEF IsToken

\* As the prefixes of a token are tokens, none is longer than the first end.
LEMMA NothingLongerThanLeaf ==
  ASSUME TextShape, NEW p \in Nat \ {0}, NEW q \in Nat, NEW e \in Nat, p <= e, e < q,
         Byte(p) \in Special, Bytes(p, e + 1) \notin Leaves
  PROVE  ~IsToken(Bytes(p, q))
<1>1. PICK t : t = Bytes(p, q)
  OBVIOUS
<1>2. t # << >> /\ t[1] = Byte(p) /\ 1 \in DOMAIN t
  BY <1>1, ByteInside
<1>3. ~IsWord(t) /\ ~IsNumber(t)
  BY <1>2, OneClass DEF IsWord, IsNumber
<1>4. t \notin Leaves
  <2>1. SUFFICES ASSUME t \in Leaves PROVE FALSE
    OBVIOUS
  <2>2. PICK a \in Nat : a = e + 1 /\ p <= a /\ a <= q
    OBVIOUS
  <2>3. Prefix(t, a - p) = Bytes(p, a)
    BY <1>1, <2>2, BytesPrefix
  <2>4. a - p \in 1 .. Len(t)
    <3>1. Len(t) = q - p
      <4>1. p <= q
        OBVIOUS
      <4>2. QED
        BY <4>1, <1>1, BytesShape
    <3>2. QED
      BY <3>1, <2>2
  <2>5. Prefix(t, a - p) \in Leaves
    BY <2>1, <2>4, LeafShape
  <2>6. QED
    BY <2>2, <2>3, <2>5
<1>5. QED
  BY <1>1, <1>3, <1>4 DEF IsToken

Reaches(from, p) ==
  /\ from \in 1 .. Len(source) + 2 /\ p \in from .. Len(source) + 1
  /\ \A q \in from .. p - 1 : Byte(q) \in Space

LEMMA EmptyBytes ==
  ASSUME NEW p \in Nat
  PROVE  Bytes(p, p) = << >>
<1>1. 1 .. p - p = {}
  OBVIOUS
<1>2. QED
  BY <1>1 DEF Bytes

LEMMA NoTokenIsTheEnd ==
  ASSUME NEW i \in 1 .. 28
  PROVE  BASIC_TOKEN_INDICIES[i] # "EOF"
  BY TokenNumbers DEF BASIC_TOKEN_INDICIES

LEMMA LeafType ==
  ASSUME NEW t \in Leaves
  PROVE  BASIC_TOKEN_INDICIES[IndexOf(t)] = TypeFor(t) /\ TypeFor(t) # "EOF"
<1>1. t # << >>
  <2>1. Len(t) \in 1 .. 3
    BY LeafShape
  <2>2. QED
    BY <2>1
<1>2. IndexOf(t) = CHOOSE i \in DOMAIN BASIC_TOKENS : BASIC_TOKENS[i] = t
  BY TrieIsTheTokens DEF IndexOf
<1>3. BASIC_TOKEN_INDICIES[IndexOf(t)] = TypeFor(t)
  BY <1>1, <1>2 DEF TypeFor
<1>4. IndexOf(t) \in 1 .. 28
  <2>1. DOMAIN BASIC_TOKENS = 1 .. 28
    BY DEF BASIC_TOKENS
  <2>2. \E i \in DOMAIN BASIC_TOKENS : BASIC_TOKENS[i] = t
    BY DEF Leaves
  <2>3. QED
    BY <2>1, <2>2, <1>2
<1>5. QED
  BY <1>3, <1>4, NoTokenIsTheEnd

LEMMA LeafIsGood ==
  ASSUME TextShape, NEW from, NEW p, NEW e, Reaches(from, p),
         MatchEnds(p, e), Bytes(p, e) \in Leaves
  PROVE  /\ GoodText(from, BASIC_TOKEN_INDICIES[IndexOf(Bytes(p, e))], p, e)
         /\ e \in 1 .. Len(source) + 2 /\ p \in Nat /\ p < e
<1>1. PICK len \in Nat : len = Len(source)
  BY BytesAreStrings
<1>2. PICK a \in Nat \ {0}, b \in Nat, f \in Nat :
        a = p /\ b = e /\ f = from /\ f <= a /\ a <= b /\ b <= len + 2 /\ a <= len + 1
  BY <1>1 DEF Reaches, MatchEnds
<1>3. a < b
  <2>1. CASE a = b
    <3>1. Bytes(a, a) = << >>
      BY EmptyBytes
    <3>2. Len(Bytes(a, a)) \in 1 .. 3
      BY <2>1, <1>2, LeafShape
    <3>3. QED
      BY <3>1, <3>2
  <2>2. QED
    BY <2>1, <1>2
<1>4. Byte(a) \in Special
  <2>1. Bytes(a, b)[1] = Byte(a)
    BY <1>3, ByteInside
  <2>2. QED
    BY <2>1, <1>2, LeafStart
<1>5. ASSUME NEW q \in b + 1 .. Until(b) + 1 PROVE ~IsToken(Bytes(a, q))
  <2>1. Until(b) \in Nat
    BY <1>1 DEF Until
  <2>2. q \in Nat /\ b < q
    BY <2>1
  <2>3. Bytes(a, b + 1) \notin Leaves
    BY <1>2 DEF MatchEnds
  <2>4. QED
    BY <2>2, <2>3, <1>2, <1>4, NothingLongerThanLeaf
<1>6. PICK type : type = BASIC_TOKEN_INDICIES[IndexOf(Bytes(p, e))]
                  /\ type = TypeFor(Bytes(p, e)) /\ type # "EOF"
  BY LeafType
<1>7. \A q \in f .. a - 1 : Byte(q) \in Space
  BY <1>2 DEF Reaches
<1>8. GoodText(f, type, a, b)
  BY <1>2, <1>5, <1>6, <1>7 DEF GoodText, IsToken
<1>9. QED
  BY <1>1, <1>2, <1>3, <1>6, <1>8

LEMMA KeywordTypes ==
  ASSUME NEW n \in DOMAIN KEYWORDS
  PROVE  KEYWORDS[n].type # "EOF"
  BY DEF KEYWORDS

LEMMA WordIsGood ==
  ASSUME TextShape, NEW from, NEW p, NEW e, Reaches(from, p),
         WordEnds(p, e), IsAlpha(Byte(p))
  PROVE  /\ GoodText(from, TypeFor(Bytes(p, e)), p, e)
         /\ e \in 1 .. Len(source) + 2 /\ p \in Nat /\ p < e
         /\ Bytes(p, e) \notin Leaves /\ Bytes(p, e) # << >> /\ ~IsNumber(Bytes(p, e))
<1>1. PICK len \in Nat : len = Len(source)
  BY BytesAreStrings
<1>2. PICK a \in Nat \ {0}, b \in Nat, f \in Nat :
        a = p /\ b = e /\ f = from /\ f <= a /\ a <= b /\ b <= len + 2 /\ a <= len + 1
  BY <1>1 DEF Reaches, WordEnds
<1>3. ~IsAlpha(Byte(b)) /\ ~IsNum(Byte(b)) /\ IsAlpha(Byte(a))
  BY <1>2 DEF WordEnds
<1>4. a < b
  BY <1>2, <1>3
<1>5. ASSUME NEW q \in b + 1 .. Until(b) + 1 PROVE ~IsToken(Bytes(a, q))
  <2>1. Until(b) \in Nat
    BY <1>1 DEF Until
  <2>2. q \in Nat /\ b < q
    BY <2>1
  <2>3. QED
    BY <2>2, <1>2, <1>3, NothingLongerThanWord
<1>6. PICK t : t = Bytes(a, b)
  OBVIOUS
<1>7. t # << >> /\ t[1] = Byte(a) /\ 1 \in DOMAIN t
  BY <1>4, <1>6, ByteInside
<1>8. IsWord(t)
  <2>1. ASSUME NEW n \in DOMAIN t PROVE IsAlpha(t[n]) \/ IsNum(t[n])
    <3>1. n \in 1 .. b - a /\ t[n] = Byte(a + n - 1)
      BY <1>6, BytesDomain
    <3>2. a + n - 1 \in a .. b - 1
      BY <3>1
    <3>3. QED
      BY <3>1, <3>2, <1>2 DEF WordEnds
  <2>2. QED
    BY <2>1, <1>3, <1>7 DEF IsWord
<1>9. t \notin Leaves /\ ~IsNumber(t)
  BY <1>3, <1>7, LeafStart, OneClass DEF IsNumber
<1>10. TypeFor(t) # "EOF"
  BY <1>7, <1>9, KeywordTypes DEF TypeFor
<1>11. \A q \in f .. a - 1 : Byte(q) \in Space
  BY <1>2 DEF Reaches
<1>12. GoodText(f, TypeFor(t), a, b)
  BY <1>2, <1>5, <1>6, <1>8, <1>10, <1>11 DEF GoodText, IsToken
<1>13. QED
  BY <1>1, <1>2, <1>4, <1>6, <1>7, <1>9, <1>12

LEMMA NumberIsGood ==
  ASSUME TextShape, NEW from, NEW p, NEW e, Reaches(from, p),
         NumberEnds(p, e), IsNum(Byte(p))
  PROVE  /\ GoodText(from, "NUMBER", p, e)
         /\ e \in 1 .. Len(source) + 2 /\ p \in Nat /\ p < e
<1>1. PICK len \in Nat : len = Len(source)
  BY BytesAreStrings
<1>2. PICK a \in Nat \ {0}, b \in Nat, f \in Nat :
        a = p /\ b = e /\ f = from /\ f <= a /\ a <= b /\ b <= len + 2 /\ a <= len + 1
  BY <1>1 DEF Reaches, NumberEnds
<1>3. ~IsNum(Byte(b)) /\ IsNum(Byte(a))
  BY <1>2 DEF NumberEnds
<1>4. a < b
  BY <1>2, <1>3
<1>5. ASSUME NEW q \in b + 1 .. Until(b) + 1 PROVE ~IsToken(Bytes(a, q))
  <2>1. Until(b) \in Nat
    BY <1>1 DEF Until
  <2>2. q \in Nat /\ b < q
    BY <2>1
  <2>3. QED
    BY <2>2, <1>2, <1>3, NothingLongerThanNumber
<1>6. PICK t : t = Bytes(a, b)
  OBVIOUS
<1>7. t # << >> /\ t[1] = Byte(a) /\ 1 \in DOMAIN t
  BY <1>4, <1>6, ByteInside
<1>8. IsNumber(t)
  <2>1. ASSUME NEW n \in DOMAIN t PROVE IsNum(t[n])
    <3>1. n \in 1 .. b - a /\ t[n] = Byte(a + n - 1)
      BY <1>6, BytesDomain
    <3>2. a + n - 1 \in a .. b - 1
      BY <3>1
    <3>3. QED
      BY <3>1, <3>2, <1>2 DEF NumberEnds
  <2>2. QED
    BY <2>1, <1>7 DEF IsNumber
<1>9. t \notin Leaves
  BY <1>3, <1>7, LeafStart, OneClass
<1>10. TypeFor(t) = "NUMBER"
  BY <1>7, <1>8, <1>9 DEF TypeFor
<1>11. \A q \in f .. a - 1 : Byte(q) \in Space
  BY <1>2 DEF Reaches
<1>12. GoodText(f, "NUMBER", a, b)
  <2>1. "NUMBER" # "EOF"
    OBVIOUS
  <2>2. IsToken(t)
    BY <1>8 DEF IsToken
  <2>3. QED
    BY <2>1, <2>2, <1>2, <1>5, <1>6, <1>10, <1>11 DEF GoodText
<1>13. QED
  BY <1>1, <1>2, <1>4, <1>12

\* The end of the text, at it or behind it.
LEMMA EndIsGood ==
  ASSUME TextShape, NEW from \in 1 .. Len(source) + 2, NEW p \in from .. Len(source) + 2,
         \A q \in from .. p - 1 : Byte(q) \in Space, AtEnd(p)
  PROVE  GoodText(from, "EOF", p, p) /\ p \in 1 .. Len(source) + 2
<1>1. PICK len \in Nat : len = Len(source)
  BY BytesAreStrings
<1>2. PICK a \in Nat, f \in Nat : a = p /\ f = from /\ f <= a /\ a \in 1 .. len + 2
  BY <1>1
<1>3. a > len
  BY <1>1, <1>2 DEF AtEnd
<1>4. Bytes(a, a) = << >>
  BY EmptyBytes
<1>5. TypeFor(Bytes(a, a)) = "EOF"
  BY <1>4 DEF TypeFor
<1>6. a + 1 .. Until(a) + 1 = {}
  <2>1. CASE a = len + 1
    <3>1. Until(a) = len
      BY <2>1, <1>1 DEF Until
    <3>2. QED
      BY <3>1, <2>1
  <2>2. CASE a = len + 2
    <3>1. Until(a) = len + 1
      BY <2>2, <1>1 DEF Until
    <3>2. QED
      BY <3>1, <2>2
  <2>3. QED
    BY <2>1, <2>2, <1>2, <1>3
<1>7. \A q \in f .. a - 1 : Byte(q) \in Space
  BY <1>2
<1>8. GoodText(f, "EOF", a, a)
  BY <1>1, <1>2, <1>3, <1>5, <1>6, <1>7 DEF GoodText
<1>9. QED
  BY <1>1, <1>2, <1>8

-----------------------------------------------------------------------------
(***************************************************************************)
(* Keywords are found by address.                                          *)
(***************************************************************************)
DistinctAddresses == \A c, d \in DOMAIN interned : interned[c] = interned[d] => c = d

LEMMA AddressesAreDistinct ==
  TableInv /\ HashesAreNumbers => DistinctAddresses
  BY AddressesDiffer DEF DistinctAddresses

LEMMA AddressesStayDistinct ==
  ASSUME TableInv', HashesAreNumbers
  PROVE  DistinctAddresses'
<1>1. (TableInv /\ HashesAreNumbers => DistinctAddresses)'
  BY AddressesAreDistinct, PTL
<1>2. QED
  BY <1>1 DEF HashesAreNumbers

LEMMA KeywordsDiffer ==
  ASSUME NEW m \in DOMAIN KEYWORDS, NEW n \in DOMAIN KEYWORDS,
         KEYWORDS[m].text = KEYWORDS[n].text
  PROVE  m = n
<1>1. /\ DOMAIN KEYWORDS = 1 .. 6
      /\ Len(KEYWORDS[1].text) = 3 /\ Len(KEYWORDS[2].text) = 6
      /\ Len(KEYWORDS[3].text) = 3 /\ Len(KEYWORDS[4].text) = 2
      /\ Len(KEYWORDS[5].text) = 5 /\ Len(KEYWORDS[6].text) = 4
  BY DEF KEYWORDS
<1>2. KEYWORDS[1].text[1] = "d" /\ KEYWORDS[3].text[1] = "l"
  BY DEF KEYWORDS
<1>3. QED
  BY <1>1, <1>2

LEMMA KeywordShape ==
  ASSUME NEW n \in 1 .. 6
  PROVE  n \in DOMAIN KEYWORDS /\ KEYWORDS[n].text \in Seq(Characters)
<1>1. DOMAIN KEYWORDS = 1 .. 6
  BY DEF KEYWORDS
<1>2. /\ KEYWORDS[1].text \in Seq(Characters) /\ KEYWORDS[2].text \in Seq(Characters)
      /\ KEYWORDS[3].text \in Seq(Characters) /\ KEYWORDS[4].text \in Seq(Characters)
      /\ KEYWORDS[5].text \in Seq(Characters) /\ KEYWORDS[6].text \in Seq(Characters)
  <2>1. /\ "d" \in Characters /\ "e" \in Characters /\ "f" \in Characters
        /\ "r" \in Characters /\ "t" \in Characters /\ "u" \in Characters
        /\ "n" \in Characters /\ "l" \in Characters /\ "i" \in Characters
        /\ "w" \in Characters /\ "h" \in Characters /\ "s" \in Characters
    BY DEF Characters
  <2>2. KEYWORDS[1].text \in Seq(Characters)
    <3>1. KEYWORDS[1].text = <<"d", "e", "f">>
      BY DEF KEYWORDS
    <3>2. <<"d", "e", "f">> \in Seq(Characters)
      BY <2>1
    <3>3. QED
      BY <3>1, <3>2
  <2>3. KEYWORDS[2].text \in Seq(Characters)
    <3>1. KEYWORDS[2].text = <<"r", "e", "t", "u", "r", "n">>
      BY DEF KEYWORDS
    <3>2. <<"r", "e", "t", "u", "r", "n">> \in Seq(Characters)
      BY <2>1
    <3>3. QED
      BY <3>1, <3>2
  <2>4. KEYWORDS[3].text \in Seq(Characters)
    <3>1. KEYWORDS[3].text = <<"l", "e", "t">>
      BY DEF KEYWORDS
    <3>2. <<"l", "e", "t">> \in Seq(Characters)
      BY <2>1
    <3>3. QED
      BY <3>1, <3>2
  <2>5. KEYWORDS[4].text \in Seq(Characters)
    <3>1. KEYWORDS[4].text = <<"i", "f">>
      BY DEF KEYWORDS
    <3>2. <<"i", "f">> \in Seq(Characters)
      BY <2>1
    <3>3. QED
      BY <3>1, <3>2
  <2>6. KEYWORDS[5].text \in Seq(Characters)
    <3>1. KEYWORDS[5].text = <<"w", "h", "i", "l", "e">>
      BY DEF KEYWORDS
    <3>2. <<"w", "h", "i", "l", "e">> \in Seq(Characters)
      BY <2>1
    <3>3. QED
      BY <3>1, <3>2
  <2>7. KEYWORDS[6].text \in Seq(Characters)
    <3>1. KEYWORDS[6].text = <<"e", "l", "s", "e">>
      BY DEF KEYWORDS
    <3>2. <<"e", "l", "s", "e">> \in Seq(Characters)
      BY <2>1
    <3>3. QED
      BY <3>1, <3>2
  <2>8. QED
    BY <2>2, <2>3, <2>4, <2>5, <2>6, <2>7
<1>3. QED
  BY <1>1, <1>2

\* The address that a name gets is a keyword's when its text is.
LEMMA NamesGetTheirType ==
  ASSUME TableInv, HashesAreNumbers, KeywordsKnown, stage = LEXING,
         NEW t \in Seq(Characters), Add(t),
         t # << >>, t \notin Leaves, ~IsNumber(t)
  PROVE  TypeOfName(last'.address) = TypeFor(t)
<1>1. TableInv' /\ Interns(t)
  BY AddInterns
<1>2. PICK a : a = last'.address /\ a = interned'[t]
  BY <1>1 DEF Interns
<1>3. ASSUME NEW n \in DOMAIN KEYWORDS
      PROVE  (interned[KEYWORDS[n].text] = a) <=> (KEYWORDS[n].text = t)
  <2>1. PICK k : k = KEYWORDS[n].text
    OBVIOUS
  <2>2. k \in DOMAIN interned
    <3>1. n < LEXING
      BY DEF LEXING, KEYWORDS
    <3>2. QED
      BY <3>1, <2>1 DEF KeywordsKnown
  <2>3. k \in DOMAIN interned' /\ t \in DOMAIN interned' /\ interned'[k] = interned[k]
    BY <2>2, <1>1 DEF Interns
  <2>4. interned'[k] = interned'[t] => k = t
    BY <2>3, <1>1, AddressesStayDistinct DEF DistinctAddresses
  <2>5. QED
    BY <2>1, <2>3, <2>4, <1>2
<1>4. CASE \E n \in DOMAIN KEYWORDS : KEYWORDS[n].text = t
  <2>1. PICK n \in DOMAIN KEYWORDS : KEYWORDS[n].text = t
    BY <1>4
  <2>2. \A m \in DOMAIN KEYWORDS : KEYWORDS[m].text = t => m = n
    BY <2>1, KeywordsDiffer
  <2>3. (CHOOSE m \in DOMAIN KEYWORDS : KEYWORDS[m].text = t) = n
    BY <2>1, <2>2
  <2>4. (CHOOSE m \in DOMAIN KEYWORDS : interned[KEYWORDS[m].text] = a) = n
    BY <2>1, <2>2, <1>3
  <2>5. TypeOfName(a) = KEYWORDS[n].type
    BY <2>1, <2>4, <1>3 DEF TypeOfName
  <2>6. TypeFor(t) = KEYWORDS[n].type
    BY <2>1, <2>3 DEF TypeFor
  <2>7. QED
    BY <2>5, <2>6, <1>2
<1>5. CASE ~\E n \in DOMAIN KEYWORDS : KEYWORDS[n].text = t
  <2>1. TypeOfName(a) = "IDENT"
    BY <1>3, <1>5 DEF TypeOfName
  <2>2. TypeFor(t) = "IDENT"
    BY <1>5 DEF TypeFor
  <2>3. QED
    BY <2>1, <2>2, <1>2
<1>6. QED
  BY <1>4, <1>5

-----------------------------------------------------------------------------
(***************************************************************************)
(* One step of the lexer.                                                  *)
(***************************************************************************)
SameText == source' = source /\ behind' = behind

Grows ==
  /\ DOMAIN interned \subseteq DOMAIN interned'
  /\ \A d \in DOMAIN interned : interned'[d] = interned[d]

LEMMA BytesStay ==
  ASSUME SameText, NEW p, NEW q
  PROVE  AtEnd(p)' = AtEnd(p) /\ Byte(p)' = Byte(p) /\ Bytes(p, q)' = Bytes(p, q)
  BY DEF SameText, AtEnd, Byte, Bytes

LEMMA GoodTextStays ==
  ASSUME SameText, NEW from, NEW type, NEW p, NEW e, GoodText(from, type, p, e)
  PROVE  GoodText(from, type, p, e)'
<1>1. Until(e)' = Until(e) /\ source' = source
  BY DEF Until, SameText
<1>2. \A q : Byte(q)' = Byte(q) /\ Bytes(p, q)' = Bytes(p, q)
  BY BytesStay
<1>3. QED
  BY <1>1, <1>2 DEF GoodText

LEMMA GoodTokenStays ==
  ASSUME SameText, Grows, NEW token, NEW from, GoodToken(token, from)
  PROVE  GoodToken(token, from)'
<1>1. PICK p, e, type : p = token.start /\ e = token.end /\ type = token.type
  OBVIOUS
<1>2. GoodText(from, type, p, e)'
  BY <1>1, GoodTextStays DEF GoodToken
<1>3. Bytes(p, e)' = Bytes(p, e)
  BY BytesStay
<1>4. Bytes(p, e) \in DOMAIN interned /\ token.text = interned[Bytes(p, e)]
  BY <1>1 DEF GoodToken
<1>5. Bytes(p, e) \in DOMAIN interned' /\ token.text = interned'[Bytes(p, e)]
  BY <1>4 DEF Grows
<1>6. token.start \in Nat /\ token.end \in 1 .. Len(source') + 2
  BY DEF GoodToken, SameText
<1>7. QED
  BY <1>1, <1>2, <1>3, <1>5, <1>6 DEF GoodToken

\* A token from position from on has been put into next_token.
Emitted(from) ==
  /\ TableInv' /\ Grows
  /\ GoodToken(next_token, from)'
  /\ curr' = next_token'.end /\ curr' \in 1 .. Len(source) + 2
  /\ stage' = stage

GaveUp ==
  /\ stage' = EXIT
  /\ UNCHANGED tableVars
  /\ curr' \in 1 .. Len(source) + 2
  /\ (~AtEnd(curr) /\ ~IsToken(<<Byte(curr)>>) /\ Byte(curr) \notin Space)'

LEMMA EmitKeeps ==
  ASSUME TableInv, HashesAreNumbers, TextShape, SameText,
         NEW from, NEW type, NEW p \in Nat \ {0}, NEW e \in 1 .. Len(source) + 2, p <= e,
         EmitToken(type, p, e), GoodText(from, type, p, e)
  PROVE  Emitted(from)
<1>1. PICK t \in Seq(Characters) : t = Bytes(p, e)
  <2>1. Len(source) \in Nat
    BY BytesAreStrings
  <2>2. e \in Nat
    BY <2>1
  <2>3. QED
    BY <2>2, BytesShape
<1>2. /\ Add(t) /\ curr' = e /\ stage' = stage
      /\ next_token' = [type |-> type, text |-> last'.address, start |-> p, end |-> e]
  BY <1>1 DEF EmitToken
<1>3. TableInv' /\ Interns(t)
  BY <1>2, AddInterns
<1>4. GoodToken(next_token, from)'
  <2>1. PICK token : token = next_token'
    OBVIOUS
  <2>2. /\ token.type = type /\ token.start = p /\ token.end = e
        /\ token.text = interned'[t] /\ t \in DOMAIN interned'
    BY <2>1, <1>2, <1>3 DEF Interns
  <2>3. GoodText(from, type, p, e)'
    BY GoodTextStays
  <2>4. Bytes(p, e)' = t
    BY <1>1, BytesStay
  <2>5. p \in Nat /\ e \in 1 .. Len(source') + 2
    BY DEF SameText
  <2>6. GoodToken(token, from)'
    BY <2>2, <2>3, <2>4, <2>5 DEF GoodToken
  <2>7. QED
    BY <2>1, <2>6
<1>5. QED
  BY <1>2, <1>3, <1>4 DEF Emitted, Interns, Grows

LEMMA OneByte ==
  ASSUME NEW p \in Nat
  PROVE  Bytes(p, p + 1) = <<Byte(p)>>
<1>1. p + 1 - p = 1
  OBVIOUS
<1>2. \A n \in 1 .. 1 : p + n - 1 = p
  OBVIOUS
<1>3. Bytes(p, p + 1) = [n \in 1 .. 1 |-> Byte(p)]
  BY <1>1, <1>2 DEF Bytes
<1>4. QED
  BY <1>3

\* The first character of the input that the lexer gives up begins no token.
LEMMA NoTokenBegins ==
  ASSUME TextShape, NEW p \in 1 .. Len(source) + 1, Bytes(p, MatchEnd(p)) \notin Leaves,
         ~IsAlpha(Byte(p)), ~IsNum(Byte(p))
  PROVE  ~IsToken(<<Byte(p)>>)
<1>1. PICK len \in Nat, a \in Nat : len = Len(source) /\ a = p
  BY BytesAreStrings
<1>2. PICK e \in Nat : e = MatchEnd(p) /\ MatchEnds(a, e)
  <2>1. MatchEnds(p, MatchEnd(p))
    BY MatchEndEnds
  <2>2. MatchEnd(p) \in p .. len + 2
    BY <2>1, <1>1 DEF MatchEnds
  <2>3. QED
    BY <2>1, <2>2, <1>1
<1>3. a <= e
  BY <1>1, <1>2 DEF MatchEnds
<1>4. <<Byte(a)>> \notin Leaves
  <2>1. CASE a = e
    BY <2>1, <1>2, OneByte DEF MatchEnds
  <2>2. CASE a < e
    <3>1. e - 1 \in a .. e - 1 /\ e - 1 + 1 = e
      BY <2>2, <1>3
    <3>2. Bytes(a, e) \in Leaves
      BY <3>1, <1>2 DEF MatchEnds
    <3>3. QED
      BY <3>2, <1>1, <1>2
  <2>3. QED
    BY <2>1, <2>2, <1>3
<1>5. PICK t : t = <<Byte(a)>> /\ t[1] = Byte(a) /\ 1 \in DOMAIN t
  <2>1. PICK c : c = Byte(a)
    OBVIOUS
  <2>2. <<c>>[1] = c /\ DOMAIN <<c>> = 1 .. 1 /\ 1 \in 1 .. 1
    OBVIOUS
  <2>3. QED
    BY <2>1, <2>2
<1>6. ~IsWord(t) /\ ~IsNumber(t)
  BY <1>1, <1>5 DEF IsWord, IsNumber
<1>7. QED
  BY <1>1, <1>4, <1>5, <1>6 DEF IsToken

LEMMA LexKeeps ==
  ASSUME TableInv, HashesAreNumbers, TextShape, SameText, KeywordsKnown, stage = LEXING,
         NEW from \in 1 .. Len(source) + 2, curr = from, Lex
  PROVE  Emitted(from) \/ GaveUp
<1>1. PICK len \in Nat : len = Len(source)
  BY BytesAreStrings
<1>2. CASE AtEnd(from)
  <2>1. EmitToken("EOF", from, from)
    BY <1>2 DEF Lex
  <2>2. GoodText(from, "EOF", from, from)
    <3>1. from .. from - 1 = {} /\ from \in from .. len + 2
      BY <1>1
    <3>2. QED
      BY <3>1, <1>1, <1>2, EndIsGood
  <2>3. from \in Nat \ {0} /\ from <= from
    BY <1>1
  <2>4. QED
    BY <2>1, <2>2, <2>3, EmitKeeps
<1>3. CASE ~AtEnd(from)
  <2>1. from \in 1 .. len + 1
    BY <1>1, <1>3 DEF AtEnd
  <2>2. PICK p \in Nat \ {0} : p = SkipSpace(from) /\ SpacesEnd(from, p)
                              /\ p \in 1 .. len + 1 /\ p \in from .. len + 1
    <3>1. SpacesEnd(from, SkipSpace(from))
      BY <2>1, <1>1, SkipSpaceEnds
    <3>2. SkipSpace(from) \in from .. len + 1
      BY <3>1, <1>1 DEF SpacesEnd
    <3>3. SkipSpace(from) \in 1 .. len + 1 /\ SkipSpace(from) \in Nat \ {0}
      BY <3>2, <2>1
    <3>4. QED
      BY <3>1, <3>2, <3>3
  <2>3. Reaches(from, p)
    BY <2>2, <1>1 DEF Reaches, SpacesEnd
  <2>4. PICK node : node = Bytes(p, MatchEnd(p))
    OBVIOUS
  <2>5. \/ node \in Leaves /\ EmitToken(BASIC_TOKEN_INDICIES[IndexOf(node)], p, MatchEnd(p))
        \/ /\ node \notin Leaves /\ IsAlpha(Byte(p))
           /\ EmitToken(TypeOfName(last'.address), p, WordEnd(p))
        \/ node \notin Leaves /\ IsNum(Byte(p)) /\ EmitToken("NUMBER", p, NumberEnd(p))
        \/ /\ node \notin Leaves /\ ~IsAlpha(Byte(p)) /\ ~IsNum(Byte(p))
           /\ IF AtEnd(p) THEN EmitToken("EOF", p, p) ELSE Unrecognized(p)
    BY <1>3, <2>2, <2>4 DEF Lex
  <2>6. CASE node \in Leaves
             /\ EmitToken(BASIC_TOKEN_INDICIES[IndexOf(node)], p, MatchEnd(p))
    <3>1. PICK e, type : e = MatchEnd(p) /\ type = BASIC_TOKEN_INDICIES[IndexOf(node)]
      OBVIOUS
    <3>2. MatchEnds(p, e)
      BY <3>1, <2>2, <1>1, MatchEndEnds
    <3>3. GoodText(from, type, p, e) /\ e \in 1 .. Len(source) + 2 /\ p < e
      BY <3>1, <3>2, <2>3, <2>4, <2>6, LeafIsGood
    <3>4. p <= e
      BY <3>3, <1>1
    <3>5. EmitToken(type, p, e)
      BY <3>1, <2>6
    <3>6. QED
      BY <3>3, <3>4, <3>5, EmitKeeps
  <2>7. CASE node \notin Leaves /\ IsAlpha(Byte(p))
             /\ EmitToken(TypeOfName(last'.address), p, WordEnd(p))
    <3>1. PICK e, type : e = WordEnd(p) /\ type = TypeOfName(last'.address)
      OBVIOUS
    <3>2. WordEnds(p, e)
      BY <3>1, <2>2, <1>1, WordEndEnds
    <3>3. PICK t : t = Bytes(p, e)
      OBVIOUS
    <3>4. /\ GoodText(from, TypeFor(t), p, e) /\ e \in 1 .. Len(source) + 2 /\ p < e
          /\ t \notin Leaves /\ t # << >> /\ ~IsNumber(t)
      BY <3>2, <3>3, <2>3, <2>7, WordIsGood
    <3>5. p <= e /\ e \in Nat
      BY <3>4, <1>1
    <3>6. EmitToken(type, p, e)
      BY <3>1, <2>7
    <3>7. t \in Seq(Characters) /\ Add(t)
      BY <3>3, <3>5, <3>6, BytesShape DEF EmitToken
    <3>8. type = TypeFor(t)
      BY <3>1, <3>4, <3>7, NamesGetTheirType
    <3>9. QED
      BY <3>4, <3>5, <3>6, <3>8, EmitKeeps
  <2>8. CASE node \notin Leaves /\ IsNum(Byte(p)) /\ EmitToken("NUMBER", p, NumberEnd(p))
    <3>1. PICK e : e = NumberEnd(p)
      OBVIOUS
    <3>2. NumberEnds(p, e)
      BY <3>1, <2>2, <1>1, NumberEndEnds
    <3>3. GoodText(from, "NUMBER", p, e) /\ e \in 1 .. Len(source) + 2 /\ p < e
      BY <3>2, <2>3, <2>8, NumberIsGood
    <3>4. p <= e
      BY <3>3, <1>1
    <3>5. EmitToken("NUMBER", p, e)
      BY <3>1, <2>8
    <3>6. QED
      BY <3>3, <3>4, <3>5, EmitKeeps
  <2>9. CASE /\ node \notin Leaves /\ ~IsAlpha(Byte(p)) /\ ~IsNum(Byte(p))
             /\ AtEnd(p) /\ EmitToken("EOF", p, p)
    <3>1. p \in from .. Len(source) + 2 /\ p \in 1 .. Len(source) + 2 /\ p <= p
      BY <2>2, <1>1
    <3>2. \A q \in from .. p - 1 : Byte(q) \in Space
      BY <2>3 DEF Reaches
    <3>3. GoodText(from, "EOF", p, p)
      BY <3>1, <3>2, <2>9, EndIsGood
    <3>4. QED
      BY <3>1, <3>3, <2>9, EmitKeeps
  <2>10. CASE /\ node \notin Leaves /\ ~IsAlpha(Byte(p)) /\ ~IsNum(Byte(p))
              /\ ~AtEnd(p) /\ Unrecognized(p)
    <3>1. stage' = EXIT /\ curr' = p /\ UNCHANGED tableVars
      BY <2>10 DEF Unrecognized
    <3>2. ~IsToken(<<Byte(p)>>)
      BY <2>2, <2>4, <2>10, <1>1, NoTokenBegins
    <3>3. Byte(p) \notin Space
      BY <2>2, <2>10 DEF SpacesEnd
    <3>4. (~AtEnd(p) /\ ~IsToken(<<Byte(p)>>) /\ Byte(p) \notin Space)'
      BY <3>2, <3>3, <2>10, BytesStay
    <3>5. curr' \in 1 .. Len(source) + 2
      BY <3>1, <2>2, <1>1
    <3>6. (~AtEnd(curr) /\ ~IsToken(<<Byte(curr)>>) /\ Byte(curr) \notin Space)'
      BY <3>1, <3>4
    <3>7. QED
      BY <3>1, <3>5, <3>6 DEF GaveUp
  <2>11. QED
    BY <2>5, <2>6, <2>7, <2>8, <2>9, <2>10
<1>4. QED
  BY <1>2, <1>3

-----------------------------------------------------------------------------
(***************************************************************************)
(* The steps of the program.                                               *)
(***************************************************************************)
LEMMA TextIsShaped ==
  ASSUME LexerShape
  PROVE  TextShape /\ source \in Seq(Characters) /\ Len(source) \in Nat
<1>1. TextShape
  BY DEF LexerShape, TextShape
<1>2. source \in Seq(STRING) /\ STRING \subseteq Characters
  BY LexerAssumption DEF LexerShape, Characters
<1>3. source \in Seq(Characters)
  <2>1. PICK n \in Nat : source \in [1 .. n -> STRING]
    BY <1>2, SeqDef
  <2>2. source \in [1 .. n -> Characters]
    BY <2>1, <1>2
  <2>3. QED
    BY <2>2, SeqDef
<1>4. QED
  BY <1>1, <1>3

LEMMA KeywordCount ==
  LEXING = 7 /\ EXIT = 8 /\ DOMAIN KEYWORDS = 1 .. 6
  BY DEF LEXING, EXIT, KEYWORDS

LEMMA InitHolds ==
  ASSUME Init, HashesAreNumbers
  PROVE  IInv
<1>1. blocks \in Seq([Slots -> StringRecord]) /\ Len(blocks) = 1 /\ blocks[1] = ZeroBlock
  <2>1. PICK z : z = ZeroBlock
    OBVIOUS
  <2>2. z \in [Slots -> StringRecord]
    <3>1. ZeroRecord \in StringRecord
      BY DEF ZeroRecord, StringRecord
    <3>2. QED
      BY <2>1, <3>1 DEF ZeroBlock
  <2>3. QED
    BY <2>1, <2>2 DEF Init, TableInit
<1>2. \A b \in 1 .. Len(blocks), s \in Slots : ~Used(blocks[b][s])
  <2>1. \A b \in 1 .. Len(blocks) : blocks[b] = ZeroBlock
    BY <1>1
  <2>2. QED
    BY <2>1 DEF ZeroBlock, ZeroRecord, Used
<1>3. DOMAIN interned = {}
  BY DEF Init, TableInit
<1>4. TableInv
  BY <1>1, <1>2, <1>3 DEF TableInv
<1>5. PICK len \in Nat : len = Len(source)
  <2>1. source \in Seq(STRING)
    BY LexerAssumption DEF Init
  <2>2. QED
    BY <2>1
<1>6. /\ stage = 0 /\ curr = 1 /\ ~is_next_lexed /\ is_next_lexed = FALSE
      /\ source \in Texts /\ behind \in Behinds
  BY DEF Init
<1>7. tokens = << >> /\ tokens \in Seq({}) /\ Len(tokens) = 0
  BY DEF Init
<1>8. LexerShape
  <2>1. stage \in 0 .. EXIT
    BY <1>6, KeywordCount
  <2>2. curr \in 1 .. Len(source) + 2
    BY <1>5, <1>6
  <2>3. QED
    BY <2>1, <2>2, <1>6, <1>7 DEF LexerShape
<1>9. KeywordsKnown
  BY <1>6, KeywordCount DEF KeywordsKnown
<1>10. EndOf(Len(tokens)) = 1
  BY <1>7 DEF EndOf
<1>11. stage # EXIT /\ \A n \in 1 .. Len(tokens) : FALSE
  BY <1>6, <1>7, KeywordCount
<1>12. QED
  BY <1>4, <1>6, <1>8, <1>9, <1>10, <1>11 DEF IInv, LexerInv

\* The tokens that are there stay right while the string table grows.
LEMMA TokensStay ==
  ASSUME LexerInv, SameText, Grows, tokens' = tokens
  PROVE  /\ \A n \in 1 .. Len(tokens) : GoodToken(tokens[n], EndOf(n - 1))'
         /\ EndOf(Len(tokens))' = EndOf(Len(tokens))
<1>1. \A n : EndOf(n)' = EndOf(n)
  BY DEF EndOf
<1>2. ASSUME NEW n \in 1 .. Len(tokens) PROVE GoodToken(tokens[n], EndOf(n - 1))'
  <2>1. PICK token, from : token = tokens[n] /\ from = EndOf(n - 1)
    OBVIOUS
  <2>2. GoodToken(token, from)'
    BY <2>1, GoodTokenStays DEF LexerInv
  <2>3. QED
    BY <2>1, <2>2, <1>1
<1>3. QED
  BY <1>1, <1>2

LEMMA KeywordsStay ==
  ASSUME KeywordsKnown, Grows, stage' = stage
  PROVE  KeywordsKnown'
  BY DEF KeywordsKnown, Grows

\* Adding the file or a keyword changes nothing that the lexer has.
LEMMA AddingKeeps ==
  ASSUME IInv, HashesAreNumbers, NEW c \in Seq(Characters), Add(c),
         stage \in 0 .. 6, stage' = stage + 1,
         stage \in DOMAIN KEYWORDS => c = KEYWORDS[stage].text,
         UNCHANGED <<source, behind, start, curr, is_next_lexed, next_token, tokens>>
  PROVE  IInv'
<1>1. TableInv' /\ Interns(c) /\ Grows
  BY AddInterns DEF IInv, Interns, Grows
<1>2. SameText /\ tokens' = tokens
  BY DEF SameText
<1>3. LexerShape'
  <2>1. stage' \in 0 .. EXIT
    BY KeywordCount
  <2>2. QED
    BY <2>1 DEF IInv, LexerShape
<1>4. KeywordsKnown'
  <2>1. ASSUME NEW n \in DOMAIN KEYWORDS, n < stage + 1
        PROVE  KEYWORDS[n].text \in DOMAIN interned'
    <3>1. CASE n < stage
      BY <3>1, <1>1 DEF IInv, LexerInv, KeywordsKnown, Grows
    <3>2. CASE n = stage
      BY <3>2, <1>1 DEF Interns
    <3>3. n \in Nat
      BY KeywordCount
    <3>4. QED
      BY <3>1, <3>2, <3>3, <2>1
  <2>2. QED
    BY <2>1 DEF KeywordsKnown
<1>5. stage # EXIT /\ stage # LEXING /\ stage' # EXIT
  BY KeywordCount
<1>6. ~is_next_lexed /\ ~is_next_lexed' /\ curr' = EndOf(Len(tokens))
  BY <1>5 DEF IInv, LexerInv, LexerShape
<1>7. /\ \A n \in 1 .. Len(tokens) : GoodToken(tokens[n], EndOf(n - 1))'
      /\ EndOf(Len(tokens))' = EndOf(Len(tokens))
  BY <1>1, <1>2, TokensStay DEF IInv
<1>8. LexerInv'
  BY <1>2, <1>4, <1>5, <1>6, <1>7 DEF LexerInv
<1>9. QED
  BY <1>1, <1>3, <1>8 DEF IInv

LEMMA ReadFileKeeps ==
  ASSUME IInv, HashesAreNumbers, ReadFile
  PROVE  IInv'
<1>1. source \in Seq(Characters) /\ Add(source)
  BY TextIsShaped DEF IInv, ReadFile
<1>2. PICK c \in Seq(Characters) : c = source
  BY <1>1
<1>3. /\ stage \in 0 .. 6 /\ stage' = stage + 1 /\ stage \notin DOMAIN KEYWORDS
      /\ UNCHANGED <<source, behind, start, curr, is_next_lexed, next_token, tokens>>
  BY KeywordCount DEF ReadFile
<1>4. QED
  BY <1>1, <1>2, <1>3, AddingKeeps

LEMMA AddKeywordKeeps ==
  ASSUME IInv, HashesAreNumbers, AddKeyword
  PROVE  IInv'
<1>1. stage \in 1 .. 6
  BY KeywordCount DEF AddKeyword
<1>2. PICK c \in Seq(Characters) : c = KEYWORDS[stage].text
  BY <1>1, KeywordShape
<1>3. /\ stage \in 0 .. 6 /\ stage' = stage + 1 /\ Add(c)
      /\ UNCHANGED <<source, behind, start, curr, is_next_lexed, next_token, tokens>>
  BY <1>1, <1>2 DEF AddKeyword
<1>4. QED
  BY <1>2, <1>3, AddingKeeps

\* What Lex needs and brings about in a state of the program.
LEMMA LexStep ==
  ASSUME IInv, HashesAreNumbers, stage = LEXING, ~is_next_lexed, Lex, SameText
  PROVE  \E from : from = EndOf(Len(tokens)) /\ (Emitted(from) \/ GaveUp)
<1>1. PICK from \in 1 .. Len(source) + 2 : from = curr
  BY DEF IInv, LexerShape
<1>2. from = EndOf(Len(tokens))
  BY <1>1, KeywordCount DEF IInv, LexerInv
<1>3. Emitted(from) \/ GaveUp
  BY <1>1, TextIsShaped, LexKeeps DEF IInv, LexerInv
<1>4. QED
  BY <1>2, <1>3

LEMMA GaveUpGrows ==
  ASSUME TableInv, GaveUp
  PROVE  TableInv' /\ Grows
<1>1. UNCHANGED tableVars
  BY DEF GaveUp
<1>2. TableInv'
  BY <1>1 DEF TableInv, tableVars, Known, Found
<1>3. QED
  BY <1>1, <1>2 DEF Grows, tableVars

LEMMA PeekTokenKeeps ==
  ASSUME IInv, HashesAreNumbers, PeekToken
  PROVE  IInv'
<1>1. /\ stage = LEXING /\ ~is_next_lexed /\ Lex /\ is_next_lexed' = (stage' # EXIT)
      /\ SameText /\ tokens' = tokens
  BY DEF PeekToken, Reads, SameText
<1>2. PICK from : from = EndOf(Len(tokens)) /\ (Emitted(from) \/ GaveUp)
  BY <1>1, LexStep
<1>3. LEXING # EXIT /\ LEXING \in 0 .. EXIT /\ EXIT \in 0 .. EXIT
  BY KeywordCount
<1>4. TableInv' /\ Grows
  BY <1>2, GaveUpGrows DEF IInv, Emitted
<1>5. /\ \A n \in 1 .. Len(tokens) : GoodToken(tokens[n], EndOf(n - 1))'
      /\ EndOf(Len(tokens))' = from
  BY <1>1, <1>2, <1>4, TokensStay DEF IInv
<1>6. LexerShape'
  <2>1. stage' \in 0 .. EXIT /\ curr' \in 1 .. Len(source) + 2 /\ is_next_lexed' \in BOOLEAN
    BY <1>1, <1>2, <1>3 DEF Emitted, GaveUp
  <2>2. QED
    BY <2>1, <1>1 DEF IInv, LexerShape, SameText
<1>7. CASE Emitted(from)
  <2>1. stage' = LEXING /\ is_next_lexed'
    BY <1>1, <1>3, <1>7 DEF Emitted
  <2>2. KeywordsKnown'
    BY <1>1, <1>4, <2>1, KeywordsStay DEF IInv, LexerInv
  <2>3. GoodToken(next_token, EndOf(Len(tokens)))' /\ curr' = next_token'.end
    BY <1>5, <1>7 DEF Emitted
  <2>4. LexerInv'
    BY <2>1, <2>2, <2>3, <1>1, <1>3, <1>5 DEF LexerInv
  <2>5. QED
    BY <2>4, <1>4, <1>6 DEF IInv
<1>8. CASE GaveUp
  <2>1. stage' = EXIT /\ ~is_next_lexed'
    BY <1>1, <1>8 DEF GaveUp
  <2>2. KeywordsKnown'
    BY <2>1, <1>1, <1>4, KeywordCount DEF IInv, LexerInv, KeywordsKnown, Grows
  <2>3. (~AtEnd(curr) /\ ~IsToken(<<Byte(curr)>>) /\ Byte(curr) \notin Space)'
    BY <1>8 DEF GaveUp
  <2>4. LexerInv'
    BY <2>1, <2>2, <2>3, <1>1, <1>5 DEF LexerInv
  <2>5. QED
    BY <2>4, <1>4, <1>6 DEF IInv
<1>9. QED
  BY <1>2, <1>7, <1>8

\* A token is taken: the one that is there, or the next one.
LEMMA TakingKeeps ==
  ASSUME IInv, SameText, TableInv', Grows, stage = LEXING, stage' = LEXING,
         tokens' = Append(tokens, next_token'), is_next_lexed' = FALSE,
         NEW from, from = EndOf(Len(tokens)), GoodToken(next_token, from)',
         curr' = next_token'.end, curr' \in 1 .. Len(source) + 2
  PROVE  IInv'
<1>1. PICK S, tok : tok = next_token' /\ tokens \in Seq(S)
  BY DEF IInv, LexerShape
<1>2. PICK len \in Nat : len = Len(tokens)
  BY <1>1
<1>3. /\ tokens' \in Seq(S \cup {tok}) /\ Len(tokens') = len + 1
      /\ tokens'[len + 1] = tok /\ \A n \in 1 .. len : tokens'[n] = tokens[n]
  <2>1. tokens \in Seq(S \cup {tok}) /\ tok \in S \cup {tok}
    <3>1. PICK n \in Nat : tokens \in [1 .. n -> S]
      BY <1>1, SeqDef
    <3>2. tokens \in [1 .. n -> S \cup {tok}]
      BY <3>1
    <3>3. QED
      BY <3>2, SeqDef
  <2>2. QED
    BY <2>1, <1>1, <1>2
<1>4. ASSUME NEW n \in 0 .. len PROVE EndOf(n)' = EndOf(n)
  <2>1. n = 0 \/ n \in 1 .. len
    OBVIOUS
  <2>2. QED
    BY <2>1, <1>3 DEF EndOf
<1>5. ASSUME NEW n \in 1 .. len + 1 PROVE GoodToken(tokens[n], EndOf(n - 1))'
  <2>1. CASE n = len + 1
    <3>1. PICK m \in 0 .. len : m = n - 1 /\ m = len
      BY <2>1, <1>2
    <3>2. EndOf(m)' = from
      BY <3>1, <1>2, <1>4
    <3>3. GoodToken(tok, from)'
      BY <1>1
    <3>4. QED
      BY <3>1, <3>2, <3>3, <2>1, <1>3
  <2>2. CASE n # len + 1
    <3>1. n \in 1 .. len
      BY <2>2
    <3>2. PICK m \in 0 .. len : m = n - 1
      BY <3>1
    <3>3. PICK token, f : token = tokens[n] /\ f = EndOf(m)
      OBVIOUS
    <3>4. GoodToken(token, f)
      BY <3>1, <3>2, <3>3, <1>2 DEF IInv, LexerInv
    <3>5. GoodToken(token, f)'
      BY <3>4, GoodTokenStays
    <3>6. EndOf(m)' = f /\ tokens'[n] = token
      BY <3>1, <3>3, <1>3, <1>4
    <3>7. QED
      BY <3>2, <3>5, <3>6
  <2>3. QED
    BY <2>1, <2>2
<1>6. EndOf(Len(tokens))' = tok.end
  <2>1. len + 1 # 0
    BY <1>2
  <2>2. QED
    BY <2>1, <1>3 DEF EndOf
<1>7. LEXING # EXIT /\ LEXING \in 0 .. EXIT
  BY KeywordCount
<1>8. LexerShape'
  BY <1>3, <1>7 DEF IInv, LexerShape, SameText
<1>9. KeywordsKnown'
  BY KeywordsStay DEF IInv, LexerInv
<1>10. LexerInv'
  BY <1>1, <1>3, <1>5, <1>6, <1>7, <1>9 DEF LexerInv
<1>11. QED
  BY <1>8, <1>10 DEF IInv

LEMMA NextTokenKeeps ==
  ASSUME IInv, HashesAreNumbers, NextToken
  PROVE  IInv'
<1>1. /\ stage = LEXING /\ is_next_lexed' = FALSE /\ SameText
      /\ tokens' = IF stage' = EXIT THEN tokens ELSE Append(tokens, next_token')
      /\ IF is_next_lexed THEN UNCHANGED <<tableVars, stage, start, curr, next_token>> ELSE Lex
  BY DEF NextToken, Reads, SameText
<1>2. LEXING # EXIT /\ EXIT \in 0 .. EXIT
  BY KeywordCount
<1>3. CASE is_next_lexed
  <2>1. PICK from : from = EndOf(Len(tokens))
    OBVIOUS
  <2>2. /\ UNCHANGED tableVars /\ stage' = stage /\ curr' = curr /\ next_token' = next_token
        /\ tokens' = Append(tokens, next_token')
    BY <1>1, <1>2, <1>3
  <2>3. TableInv' /\ Grows
    BY <2>2 DEF IInv, TableInv, tableVars, Known, Found, Grows
  <2>4. PICK token : token = next_token
    OBVIOUS
  <2>5. GoodToken(token, from) /\ curr = token.end
    BY <2>1, <2>4, <1>3 DEF IInv, LexerInv
  <2>6. GoodToken(token, from)'
    BY <2>3, <2>5, <1>1, GoodTokenStays
  <2>7. GoodToken(next_token, from)' /\ curr' = next_token'.end
    BY <2>2, <2>4, <2>5, <2>6
  <2>8. curr' \in 1 .. Len(source) + 2
    BY <2>2 DEF IInv, LexerShape
  <2>9. QED
    BY <2>1, <2>2, <2>3, <2>7, <2>8, <1>1, TakingKeeps
<1>4. CASE ~is_next_lexed
  <2>1. PICK from : from = EndOf(Len(tokens)) /\ (Emitted(from) \/ GaveUp)
    BY <1>1, <1>4, LexStep
  <2>2. CASE Emitted(from)
    <3>1. /\ TableInv' /\ Grows /\ stage' = LEXING /\ curr' = next_token'.end
          /\ curr' \in 1 .. Len(source) + 2 /\ GoodToken(next_token, from)'
      BY <2>2, <1>1 DEF Emitted
    <3>2. tokens' = Append(tokens, next_token')
      BY <3>1, <1>1, <1>2
    <3>3. QED
      BY <3>1, <3>2, <2>1, <1>1, TakingKeeps
  <2>3. CASE GaveUp
    <3>1. TableInv' /\ Grows /\ stage' = EXIT /\ tokens' = tokens
      BY <2>3, <1>1, GaveUpGrows DEF IInv, GaveUp
    <3>2. \A n \in 1 .. Len(tokens) : GoodToken(tokens[n], EndOf(n - 1))'
      BY <3>1, <1>1, TokensStay DEF IInv
    <3>3. LexerShape'
      <4>1. curr' \in 1 .. Len(source) + 2
        BY <2>3 DEF GaveUp
      <4>2. QED
        BY <4>1, <3>1, <1>1, <1>2 DEF IInv, LexerShape, SameText
    <3>4. KeywordsKnown'
      BY <3>1, <1>1, KeywordCount DEF IInv, LexerInv, KeywordsKnown, Grows
    <3>5. (~AtEnd(curr) /\ ~IsToken(<<Byte(curr)>>) /\ Byte(curr) \notin Space)'
      BY <2>3 DEF GaveUp
    <3>6. LexerInv'
      BY <3>1, <3>2, <3>4, <3>5, <1>1 DEF LexerInv
    <3>7. QED
      BY <3>1, <3>3, <3>6 DEF IInv
  <2>4. QED
    BY <2>1, <2>2, <2>3
<1>5. QED
  BY <1>3, <1>4

LEMMA StutterKeeps ==
  ASSUME IInv, UNCHANGED vars
  PROVE  IInv'
<1>1. UNCHANGED tableVars /\ UNCHANGED lexVars
  BY DEF vars
<1>2. TableInv' /\ Grows
  BY <1>1 DEF IInv, TableInv, tableVars, Known, Found, Grows
<1>3. SameText /\ tokens' = tokens /\ curr' = curr /\ stage' = stage
      /\ is_next_lexed' = is_next_lexed /\ next_token' = next_token
  BY <1>1 DEF lexVars, SameText
<1>4. LexerShape'
  BY <1>3 DEF IInv, LexerShape, SameText
<1>5. KeywordsKnown'
  BY <1>2, <1>3, KeywordsStay DEF IInv, LexerInv
<1>6. /\ \A n \in 1 .. Len(tokens) : GoodToken(tokens[n], EndOf(n - 1))'
      /\ EndOf(Len(tokens))' = EndOf(Len(tokens))
  BY <1>2, <1>3, TokensStay DEF IInv
<1>7. is_next_lexed => GoodToken(next_token, EndOf(Len(tokens)))'
  <2>1. PICK token, from : token = next_token /\ from = EndOf(Len(tokens))
    OBVIOUS
  <2>2. is_next_lexed => GoodToken(token, from)
    BY <2>1 DEF IInv, LexerInv
  <2>3. is_next_lexed => GoodToken(token, from)'
    BY <2>2, <1>2, <1>3, GoodTokenStays
  <2>4. QED
    BY <2>1, <2>3, <1>3, <1>6
<1>8. (stage = EXIT => ~AtEnd(curr) /\ ~IsToken(<<Byte(curr)>>) /\ Byte(curr) \notin Space)'
  <2>1. PICK c : c = curr
    OBVIOUS
  <2>2. stage = EXIT => ~AtEnd(c) /\ ~IsToken(<<Byte(c)>>) /\ Byte(c) \notin Space
    BY <2>1 DEF IInv, LexerInv
  <2>3. AtEnd(c)' = AtEnd(c) /\ Byte(c)' = Byte(c)
    BY <1>3, BytesStay
  <2>4. QED
    BY <2>1, <2>2, <2>3, <1>3
<1>9. LexerInv'
  BY <1>3, <1>5, <1>6, <1>7, <1>8 DEF IInv, LexerInv
<1>10. QED
  BY <1>2, <1>4, <1>9 DEF IInv

-----------------------------------------------------------------------------
(***************************************************************************)
(* The theorems.                                                           *)
(***************************************************************************)
\* In every state that is reached, the search for a content that was added gets
\* to its record, every token taken is the text's next one, and the lexer
\* stands where the last one ends.
THEOREM LexingInvariant ==
  ASSUME HashesAreNumbers
  PROVE  Spec => []IInv
<1>1. Init => IInv
  BY InitHolds
<1>2. IInv /\ [Next]_vars => IInv'
  BY ReadFileKeeps, AddKeywordKeeps, PeekTokenKeeps, NextTokenKeeps, StutterKeeps DEF Next
<1>3. QED
  BY <1>1, <1>2, PTL DEF Spec

\* string_table_add returns one address for one content and never the same one
\* for two, for any number of slots and whatever hashes and slots collide.
THEOREM StringsAreUnique ==
  ASSUME HashesAreNumbers
  PROVE  Spec => []OneStringPerContent
<1>1. IInv => OneStringPerContent
  BY TableIsRight DEF IInv
<1>2. QED
  BY <1>1, LexingInvariant, PTL

LEMMA TokensAreRight ==
  ASSUME IInv
  PROVE  TokensAreTheText
<1>1. ASSUME NEW n \in DOMAIN tokens, NEW t, t = TextOf(n),
             NEW until, until = Until(tokens[n].end)
      PROVE  /\ \A p \in EndOf(n - 1) .. tokens[n].start - 1 : Byte(p) \in Space
             /\ tokens[n].type = TypeFor(t)
             /\ tokens[n].text = (IF t = << >> THEN NullString ELSE interned[t])
             /\ tokens[n].type = "EOF" => tokens[n].start > Len(source)
             /\ tokens[n].type # "EOF" => IsToken(t)
             /\ \A q \in tokens[n].end + 1 .. until + 1 : ~IsToken(Bytes(tokens[n].start, q))
  <2>1. n \in 1 .. Len(tokens)
    BY DEF IInv, LexerShape
  <2>2. GoodToken(tokens[n], EndOf(n - 1))
    BY <2>1 DEF IInv, LexerInv
  <2>3. t \in DOMAIN interned /\ tokens[n].text = interned[t]
    BY <2>2, <1>1 DEF GoodToken, TextOf
  <2>4. t = << >> => interned[t] = NullString
    BY <2>3 DEF IInv, TableInv
  <2>5. GoodText(EndOf(n - 1), tokens[n].type, tokens[n].start, tokens[n].end)
    BY <2>2 DEF GoodToken
  <2>6. QED
    BY <2>3, <2>4, <2>5, <1>1 DEF GoodText, TextOf
<1>2. stage = EXIT => ~AtEnd(curr) /\ ~IsToken(<<Byte(curr)>>) /\ Byte(curr) \notin Space
  BY DEF IInv, LexerInv
<1>3. QED
  BY <1>1, <1>2 DEF TokensAreTheText, Until

\* The tokens that the parser takes are the longest ones of the text, one behind
\* the other with only spaces between them; each has the type of its text, found
\* by the index of a node or by an address, and the address of that text; and the
\* program gives up only where no token begins: for every text, whatever is
\* behind its buffer, any number of slots and any hash function.
THEOREM TokensFollowTheText ==
  ASSUME HashesAreNumbers
  PROVE  Spec => []TokensAreTheText
<1>1. IInv => TokensAreTheText
  BY TokensAreRight
<1>2. QED
  BY <1>1, LexingInvariant, PTL

===============================================================================
