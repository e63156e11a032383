--------------------------- MODULE BranchMovesProofs ---------------------------
(***************************************************************************)
(* The places that resolve_branch chooses, for any number of registers and *)
(* variables: what a first or only target resolves fits into target_locs,  *)
(* and its parameters never arrive at the same place; those of the second  *)
(* target do only when the place of one was written behind target_locs;    *)
(* and no register is given to two values.                                 *)
(***************************************************************************)
EXTENDS BranchMoves, Induction, TLAPS, SequenceTheorems, FiniteSetTheorems

\* A register that get_unused hands out, or a slot.
Place == {l \in [is_reg : BOOLEAN, n : Nat] : l.is_reg => l.n \in 1 .. NumRegs}
Resolving == step \in {"defined", "undefined", "map"}

Shape ==
  /\ arg \in [Rows -> Rows]
  /\ own \in [Rows -> Place \cup {NoLoc}]
  /\ loc \in [Rows -> Place \cup {NoLoc}]
  /\ used \subseteq Place
  /\ num_vars \in Nat
  /\ targets \in {<<"only">>, <<"true", "false">>}
  /\ current \in 1 .. Len(targets)
  /\ row \in Nat
  /\ step \in {"defined", "undefined", "map", "run", "arrived", "exit"}
  /\ \A m \in 1 .. Len(targets) : needed[targets[m]] \subseteq Rows
  /\ DOMAIN entry = {targets[m] : m \in 1 .. Len(targets)}
  /\ \A m \in 1 .. Len(targets) : entry[targets[m]] \in [Rows -> Place \cup {NoLoc}]
  /\ target_locs \in Seq(Place)

\* The parameters of a target have their places already, or those that have one
\* got it since this target is resolved: those are in target_locs or behind it.
InList(t, k, S) == entry[t][k] \in S \/ <<t, k>> \in unseen

OpenEntries ==
  Resolving =>
    /\ \/ \A k \in needed[Target] : entry[Target][k] # NoLoc
       \/ \A k \in needed[Target] : entry[Target][k] # NoLoc => InList(Target, k, Placed)
    /\ \A m \in current + 1 .. Len(targets) : \A k \in Rows : entry[targets[m]][k] = NoLoc

\* The parameters of the first target that were resolved when a pass is at row r:
\* the first pass takes those whose argument is a parameter of the block.
Handled(pass, r) ==
  {k \in needed[Target] :
     \/ pass = "defined" /\ k < r /\ IsParameter(arg[k])
     \/ pass = "undefined" /\ (k < r \/ IsParameter(arg[k]))
     \/ pass = "map"}

\* Each of them only once.
FirstTarget ==
  current = 1 =>
    /\ Resolving => Len(target_locs) <= Cardinality(Handled(step, row))
    /\ ~Resolving => Len(target_locs) <= NumVars
    /\ step = "defined" => \A v \in Rows : loc[v] # NoLoc => IsParameter(v)
    /\ Resolving => \A k \in Handled(step, row) : IsParameter(arg[k]) => loc[arg[k]] # NoLoc

\* Only the second target writes behind target_locs.
Behind == \A u \in unseen : u[1] = "false"

Ran == step \in {"run", "arrived"} => target_locs = << >>

IInv ==
  /\ Shape
  /\ OpenEntries
  /\ EntriesDistinct
  /\ RegistersHeldOnce
  /\ FirstTarget
  /\ Behind
  /\ Ran

-----------------------------------------------------------------------------
(***************************************************************************)
(* One argument gets a location and its parameter a place.                 *)
(***************************************************************************)
LEMMA FirstOfMember ==
  ASSUME NEW S \in SUBSET Nat, S # {}
  PROVE  FirstOf(S) \in S
<1>1. \E n \in S : \A m \in S : n <= m
  BY LeastNumber
<1>2. QED
  BY <1>1 DEF FirstOf

\* What instr_assign_loc returns: the location that the value has, or one whose
\* register is marked nowhere.
Assigned(v, l) ==
  /\ l \in Place
  /\ loc[v] # NoLoc => l = loc[v]
  /\ loc[v] = NoLoc /\ l.is_reg => l \notin used

LEMMA NoLocIsNoPlace ==
  /\ NoLoc \notin Place
  /\ \A n \in 1 .. NumRegs : Reg(n) \in Place /\ Reg(n).is_reg
  /\ \A n \in Nat : Slot(n) \in Place /\ ~Slot(n).is_reg
  BY BranchMovesAssumption DEF NoLoc, Reg, Slot, Place

LEMMA AssignAssigns ==
  ASSUME Shape, NEW v \in Rows, NEW suggested \in Place \cup {NoLoc}
  PROVE  Assigned(v, Assign(v, suggested))
<1>1. PICK l : l = Assign(v, suggested)
  OBVIOUS
<1>2. loc[v] \in Place \cup {NoLoc} /\ own[v] \in Place \cup {NoLoc} /\ num_vars \in Nat
  BY DEF Shape
<1>3. CASE loc[v] # NoLoc
  BY <1>1, <1>2, <1>3 DEF Assign, Assigned
<1>4. CASE loc[v] = NoLoc /\ Suggested(v, suggested) # NoLoc
  <2>1. l = Suggested(v, suggested)
    BY <1>1, <1>4 DEF Assign
  <2>2. l \in Place /\ l \notin used
    BY <2>1, <1>2, <1>4 DEF Suggested
  <2>3. QED
    BY <2>2, <1>1, <1>4 DEF Assigned
<1>5. CASE loc[v] = NoLoc /\ Suggested(v, suggested) = NoLoc /\ Unused # {}
  <2>1. FirstOf(Unused) \in Unused
    <3>1. Unused \in SUBSET Nat
      BY BranchMovesAssumption DEF Unused
    <3>2. QED
      BY <3>1, <1>5, FirstOfMember
  <2>2. PICK n \in 1 .. NumRegs : n = FirstOf(Unused) /\ Reg(n) \notin used
    BY <2>1 DEF Unused
  <2>3. l = Reg(n)
    BY <1>1, <1>5, <2>2 DEF Assign
  <2>4. QED
    BY <2>2, <2>3, <1>1, <1>5, NoLocIsNoPlace DEF Assigned
<1>6. CASE loc[v] = NoLoc /\ Suggested(v, suggested) = NoLoc /\ Unused = {}
  <2>1. l = Slot(num_vars)
    BY <1>1, <1>6 DEF Assign
  <2>2. QED
    BY <2>1, <1>1, <1>2, <1>6, NoLocIsNoPlace DEF Assigned
<1>7. QED
  BY <1>3, <1>4, <1>5, <1>6

\* A place that no parameter of this target has been given, if there is one.
LEMMA ChosenIsFree ==
  ASSUME NEW l \in Place
  PROVE  Chosen(l) # NoLoc => Chosen(l) \in Place /\ Chosen(l) \notin Placed
<1>1. CASE l \notin Placed
  BY <1>1 DEF Chosen
<1>2. CASE l \in Placed /\ Free # {}
  <2>1. FirstOf(Free) \in Free
    <3>1. Free \in SUBSET Nat
      BY BranchMovesAssumption DEF Free
    <3>2. QED
      BY <3>1, <1>2, FirstOfMember
  <2>2. PICK n \in 1 .. NumRegs : n = FirstOf(Free) /\ Reg(n) \notin Placed
    BY <2>1 DEF Free
  <2>3. QED
    BY <2>2, <1>2, NoLocIsNoPlace DEF Chosen
<1>3. CASE l \in Placed /\ Free = {}
  BY <1>3 DEF Chosen
<1>4. QED
  BY <1>1, <1>2, <1>3

\* Row k of the target t: its value v gets the location l, the parameter the place e.
Placement(t, k, v, l) ==
  /\ t = Target /\ k = row /\ k \in needed[t] /\ k \in Rows /\ v = arg[k] /\ v \in Rows
  /\ Assigned(v, l)
  /\ loc' = [loc EXCEPT ![v] = l]
  /\ used' = IF l.is_reg THEN used \cup {l} ELSE used
  /\ num_vars' \in Nat
  /\ UNCHANGED <<arg, own, targets, needed, current>>

Entered(t, k, e, next) ==
  /\ e \in Place
  /\ entry[t][k] # NoLoc => e = entry[t][k]
  /\ entry[t][k] = NoLoc => e \notin Placed
  /\ entry' = [entry EXCEPT ![t] = [entry[t] EXCEPT ![k] = e]]
  /\ target_locs' = Append(target_locs, e)
  /\ Overlook(e)
  /\ Advance(next)

Placing(t, k, v, l, next) ==
  /\ Placement(t, k, v, l)
  /\ \/ step' = "exit" /\ UNCHANGED <<entry, target_locs, unseen, row>>
     \/ \E e : Entered(t, k, e, next)

LEMMA ResolvePlaces ==
  ASSUME Shape, row \in needed[Target], NEW next, Resolve(next)
  PROVE  \E t, k, v, l : Placing(t, k, v, l, next)
<1>1. PICK t, k, m :
        t = Target /\ k = row /\ m = current /\ m \in 1 .. Len(targets) /\ t = targets[m]
  BY DEF Shape, Target
<1>2. k \in Rows /\ k \in needed[t] /\ entry[t] \in [Rows -> Place \cup {NoLoc}]
  BY <1>1 DEF Shape
<1>3. PICK v : v = arg[k] /\ v \in Rows
  BY <1>2 DEF Shape
<1>4. PICK old : old = entry[t][k] /\ old \in Place \cup {NoLoc}
  BY <1>2
<1>5. PICK l : l = Assign(v, old) /\ Assigned(v, l)
  BY <1>3, <1>4, AssignAssigns
<1>6. PICK e : e = IF old # NoLoc THEN old ELSE Chosen(l)
  OBVIOUS
<1>7. Placement(t, k, v, l)
  <2>1. /\ loc' = [loc EXCEPT ![v] = l]
        /\ used' = IF l.is_reg THEN used \cup {l} ELSE used
        /\ num_vars' = IF Allocates(v, old) THEN num_vars + 1 ELSE num_vars
    BY <1>1, <1>3, <1>4, <1>5 DEF Resolve
  <2>2. num_vars' \in Nat
    <3>1. PICK n \in Nat : n = num_vars
      BY DEF Shape
    <3>2. num_vars' = n + 1 \/ num_vars' = n
      BY <2>1, <3>1
    <3>3. QED
      BY <3>1, <3>2
  <2>3. UNCHANGED <<arg, own, targets, needed, current>>
    BY DEF Resolve, block
  <2>4. QED
    BY <2>1, <2>2, <2>3, <1>1, <1>2, <1>3, <1>5 DEF Placement
<1>8. CASE e = NoLoc
  <2>1. step' = "exit" /\ UNCHANGED <<entry, target_locs, unseen, row>>
    BY <1>1, <1>3, <1>4, <1>5, <1>6, <1>8 DEF Resolve
  <2>2. QED
    BY <2>1, <1>7 DEF Placing
<1>9. CASE e # NoLoc
  <2>1. e \in Place /\ (old # NoLoc => e = old) /\ (old = NoLoc => e \notin Placed)
    BY <1>4, <1>5, <1>6, <1>9, ChosenIsFree DEF Assigned
  <2>2. /\ entry' = [entry EXCEPT ![t][k] = e]
        /\ target_locs' = Append(target_locs, e)
        /\ Overlook(e)
        /\ Advance(next)
    BY <1>1, <1>3, <1>4, <1>5, <1>6, <1>9 DEF Resolve
  <2>3. Entered(t, k, e, next)
    BY <2>1, <2>2, <1>4 DEF Entered
  <2>4. QED
    BY <2>3, <1>7 DEF Placing
<1>10. QED
  BY <1>8, <1>9

\* The two passes over the parameters.
Passing(next) ==
  \/ step = "defined" /\ next = "undefined"
  \/ step = "undefined" /\ next = "map"

LEMMA PlacingShape ==
  ASSUME Shape, NEW t, NEW k, NEW v, NEW l, NEW next, Passing(next), Placing(t, k, v, l, next)
  PROVE  Shape'
<1>1. /\ UNCHANGED <<arg, own, targets, needed, current>> /\ num_vars' \in Nat
      /\ l \in Place /\ v \in Rows /\ k \in Rows /\ k = row
      /\ loc' = [loc EXCEPT ![v] = l]
      /\ used' = IF l.is_reg THEN used \cup {l} ELSE used
  BY DEF Placing, Placement, Assigned
<1>2. loc' \in [Rows -> Place \cup {NoLoc}] /\ used' \subseteq Place
  BY <1>1 DEF Shape
<1>3. PICK m : m \in 1 .. Len(targets) /\ t = targets[m]
  BY DEF Shape, Placing, Placement, Target
<1>. DEFINE Typed ==
              /\ DOMAIN entry' = {targets[n] : n \in 1 .. Len(targets)}
              /\ \A n \in 1 .. Len(targets) : entry'[targets[n]] \in [Rows -> Place \cup {NoLoc}]
              /\ target_locs' \in Seq(Place)
              /\ row' \in Nat
              /\ step' \in {"defined", "undefined", "map", "exit"}
<1>4. Typed
  <2>1. CASE step' = "exit" /\ UNCHANGED <<entry, target_locs, unseen, row>>
    BY <2>1 DEF Shape
  <2>2. ASSUME NEW e, Entered(t, k, e, next) PROVE Typed
    <3>1. PICK f : f = [entry[t] EXCEPT ![k] = e]
      OBVIOUS
    <3>2. f \in [Rows -> Place \cup {NoLoc}] /\ entry' = [entry EXCEPT ![t] = f]
      BY <3>1, <2>2, <1>1, <1>3 DEF Shape, Entered
    <3>3. target_locs' \in Seq(Place)
      BY <2>2 DEF Shape, Entered
    <3>4. row' \in Nat /\ step' \in {"defined", "undefined", "map"}
      <4>1. PICK n \in Nat : n = row
        BY DEF Shape
      <4>2. (row' = n + 1 \/ row' = 1) /\ (step' = step \/ step' = next)
        BY <4>1, <2>2 DEF Entered, Advance
      <4>3. QED
        BY <4>1, <4>2 DEF Passing
    <3>5. QED
      BY <3>2, <3>3, <3>4, <1>3 DEF Shape
  <2>3. QED
    BY <2>1, <2>2 DEF Placing
<1>5. /\ arg' \in [Rows -> Rows] /\ own' \in [Rows -> Place \cup {NoLoc}]
      /\ targets' \in {<<"only">>, <<"true", "false">>} /\ current' \in 1 .. Len(targets')
      /\ \A n \in 1 .. Len(targets') : needed'[targets'[n]] \subseteq Rows
  BY <1>1 DEF Shape
<1>6. QED
  BY <1>1, <1>2, <1>4, <1>5 DEF Shape

\* A register that is not marked belongs to nobody.
LEMMA PlacementHeldOnce ==
  ASSUME Shape, RegistersHeldOnce, NEW t, NEW k, NEW v, NEW l, Placement(t, k, v, l)
  PROVE  RegistersHeldOnce'
<1>. DEFINE Registers == {Reg(n) : n \in 1 .. NumRegs}
<1>1. /\ l \in Place /\ v \in Rows /\ loc' = [loc EXCEPT ![v] = l]
      /\ used' = IF l.is_reg THEN used \cup {l} ELSE used
      /\ loc[v] # NoLoc => l = loc[v]
      /\ loc[v] = NoLoc /\ l.is_reg => l \notin used
  BY DEF Placement, Assigned
<1>2. loc \in [Rows -> Place \cup {NoLoc}]
  BY DEF Shape
<1>3. /\ used = {loc[w] : w \in Rows} \cap Registers
      /\ \A w, u \in Rows : w # u /\ loc[w] = loc[u] /\ loc[w] # NoLoc => ~loc[w].is_reg
  BY DEF RegistersHeldOnce
<1>4. /\ \A p \in Place : p.is_reg <=> p \in Registers
      /\ NoLoc \notin Registers /\ NoLoc \notin Place
  <2>1. ASSUME NEW p \in Place, p.is_reg PROVE p \in Registers
    <3>1. p = Reg(p.n) /\ p.n \in 1 .. NumRegs
      BY <2>1 DEF Place, Reg
    <3>2. QED
      BY <3>1
  <2>2. QED
    BY <2>1, NoLocIsNoPlace DEF Reg
<1>. HIDE DEF Registers
<1>5. /\ loc'[v] = l /\ \A w \in Rows : w # v => loc'[w] = loc[w]
  BY <1>1, <1>2
<1>6. CASE loc[v] # NoLoc
  <2>1. l = loc[v] /\ loc' = loc
    BY <1>1, <1>2, <1>6
  <2>2. l.is_reg => l \in used
    BY <2>1, <1>1, <1>3, <1>4
  <2>3. used' = used
    BY <2>2, <1>1
  <2>4. QED
    BY <2>1, <2>3, <1>3 DEF RegistersHeldOnce, Registers
<1>7. CASE loc[v] = NoLoc
  <2>1. \A w \in Rows : l.is_reg => loc[w] # l
    BY <1>1, <1>3, <1>4, <1>7
  <2>2. used' = {loc'[w] : w \in Rows} \cap Registers
    <3>1. \A p : p \in used' <=> p \in Registers /\ \E w \in Rows : loc'[w] = p
      <4>1. ASSUME NEW p \in used' PROVE p \in Registers /\ \E w \in Rows : loc'[w] = p
        <5>1. CASE p = l /\ l.is_reg
          BY <5>1, <1>1, <1>4, <1>5
        <5>2. CASE p \in used
          <6>1. PICK w \in Rows : loc[w] = p /\ p \in Registers
            BY <5>2, <1>3
          <6>2. w # v
            BY <6>1, <1>4, <1>7
          <6>3. QED
            BY <6>1, <6>2, <1>5
        <5>3. QED
          BY <5>1, <5>2, <1>1
      <4>2. ASSUME NEW w \in Rows, loc'[w] \in Registers PROVE loc'[w] \in used'
        <5>1. CASE w = v
          BY <5>1, <4>2, <1>1, <1>4, <1>5
        <5>2. CASE w # v
          BY <5>2, <4>2, <1>1, <1>3, <1>5
        <5>3. QED
          BY <5>1, <5>2
      <4>3. QED
        BY <4>1, <4>2
    <3>2. QED
      BY <3>1
  <2>3. ASSUME NEW w \in Rows, NEW u \in Rows, w # u, loc'[w] = loc'[u], loc'[w] # NoLoc
        PROVE  ~loc'[w].is_reg
    <3>1. CASE w = v
      BY <3>1, <2>1, <2>3, <1>5
    <3>2. CASE u = v
      BY <3>2, <2>1, <2>3, <1>5
    <3>3. CASE w # v /\ u # v
      BY <3>3, <2>3, <1>3, <1>5
    <3>4. QED
      BY <3>1, <3>2, <3>3
  <2>4. QED
    BY <2>2, <2>3 DEF RegistersHeldOnce, Registers
<1>8. QED
  BY <1>6, <1>7

\* The place is in target_locs then, or behind it.
LEMMA EnteredIsListed ==
  ASSUME Shape, NEW t, NEW k, NEW e, NEW next, t = Target, k = row, Entered(t, k, e, next)
  PROVE  /\ Placed \subseteq Placed' /\ unseen \subseteq unseen'
         /\ e \in Placed' \/ <<t, k>> \in unseen'
<1>1. PICK list \in Seq(Place), rows \in Nat :
        list = target_locs /\ target_locs' = Append(list, e) /\ rows = NumVars
  BY BranchMovesAssumption DEF Shape, Entered
<1>2. PICK len \in Nat : len = Len(list)
  BY <1>1
<1>3. /\ DOMAIN list = 1 .. len /\ DOMAIN Append(list, e) = 1 .. len + 1
      /\ Append(list, e)[len + 1] = e
      /\ \A n \in 1 .. len : Append(list, e)[n] = list[n]
  BY <1>1, <1>2
<1>4. /\ Placed = {list[n] : n \in (1 .. len) \cap (1 .. rows)}
      /\ Placed' = {Append(list, e)[n] : n \in (1 .. len + 1) \cap (1 .. rows)}
  BY <1>1, <1>3 DEF Placed
<1>5. Placed \subseteq Placed'
  <2>1. (1 .. len) \cap (1 .. rows) \subseteq (1 .. len + 1) \cap (1 .. rows)
    BY <1>2
  <2>2. QED
    BY <2>1, <1>3, <1>4
<1>6. CASE len < rows
  <2>1. len + 1 \in (1 .. len + 1) \cap (1 .. rows)
    BY <1>2, <1>6
  <2>2. e \in Placed'
    BY <2>1, <1>3, <1>4
  <2>3. unseen' = unseen
    BY <1>1, <1>2, <1>6 DEF Entered, Overlook
  <2>4. QED
    BY <2>2, <2>3, <1>5
<1>7. CASE ~(len < rows)
  <2>1. unseen' = IF e \in Placed THEN unseen ELSE unseen \cup {<<t, k>>}
    BY <1>1, <1>2, <1>7 DEF Entered, Overlook
  <2>2. QED
    BY <2>1, <1>5
<1>8. QED
  BY <1>6, <1>7

\* A parameter that had no place gets one that no other parameter has, of those
\* that are in target_locs.
LEMMA PlacingDistinct ==
  ASSUME Shape, Resolving, OpenEntries, EntriesDistinct, Behind,
         NEW t, NEW k, NEW v, NEW l, NEW next, Passing(next), Placing(t, k, v, l, next)
  PROVE  EntriesDistinct' /\ OpenEntries'
<1>1. /\ UNCHANGED <<targets, needed, current>> /\ t = Target /\ k = row
      /\ k \in needed[t] /\ k \in Rows /\ Target' = Target
  BY DEF Placing, Placement, Target
<1>2. CASE step' = "exit" /\ UNCHANGED <<entry, target_locs, unseen, row>>
  BY <1>1, <1>2 DEF EntriesDistinct, Collide, OpenEntries, Resolving
<1>3. ASSUME NEW e, Entered(t, k, e, next) PROVE EntriesDistinct' /\ OpenEntries'
  <2>1. PICK m : m = current /\ m \in 1 .. Len(targets) /\ t = targets[m]
    BY <1>1 DEF Shape, Target
  <2>2. entry[t] \in [Rows -> Place \cup {NoLoc}] /\ t \in DOMAIN entry
    BY <2>1 DEF Shape
  <2>3. PICK f : f = [entry[t] EXCEPT ![k] = e] /\ entry' = [entry EXCEPT ![t] = f]
    BY <1>3 DEF Entered
  <2>4. /\ f[k] = e /\ \A j \in Rows : j # k => f[j] = entry[t][j]
        /\ entry'[t] = f /\ \A u \in DOMAIN entry : u # t => entry'[u] = entry[u]
        /\ DOMAIN entry' = DOMAIN entry
    BY <2>2, <2>3, <1>1
  <2>5. e # NoLoc /\ (entry[t][k] # NoLoc => e = entry[t][k])
        /\ (entry[t][k] = NoLoc => e \notin Placed)
    BY <1>3, NoLocIsNoPlace DEF Entered
  <2>6. needed[t] \subseteq Rows
    BY <2>1 DEF Shape
  <2>7. /\ Placed \subseteq Placed' /\ unseen \subseteq unseen'
        /\ e \in Placed' \/ <<t, k>> \in unseen'
    BY <1>1, <1>3, EnteredIsListed
  <2>8. ASSUME NEW j \in needed[t], j # k, entry[t][j] = e
        PROVE  t = "false" /\ {<<t, j>>, <<t, k>>} \cap unseen # {}
    <3>1. CASE entry[t][k] # NoLoc
      BY <3>1, <2>2, <2>5, <2>8, <1>1 DEF EntriesDistinct, Collide
    <3>2. CASE entry[t][k] = NoLoc
      <4>1. InList(t, j, Placed)
        BY <3>2, <2>5, <2>8, <1>1 DEF OpenEntries
      <4>2. <<t, j>> \in unseen
        BY <4>1, <3>2, <2>5, <2>8 DEF InList
      <4>3. t = "false"
        BY <4>2 DEF Behind
      <4>4. QED
        BY <4>2, <4>3
    <3>3. QED
      BY <3>1, <3>2
  <2>9. ASSUME NEW u \in DOMAIN entry, NEW i \in needed[u], NEW j \in needed[u],
               i # j, entry'[u][i] = entry'[u][j], entry'[u][i] # NoLoc
        PROVE  u = "false" /\ {<<u, i>>, <<u, j>>} \cap unseen' # {}
    <3>1. CASE u # t \/ (i # k /\ j # k)
      <4>1. entry'[u][i] = entry[u][i] /\ entry'[u][j] = entry[u][j]
        BY <3>1, <2>4, <2>6
      <4>2. u = "false" /\ {<<u, i>>, <<u, j>>} \cap unseen # {}
        BY <4>1, <2>9 DEF EntriesDistinct, Collide
      <4>3. QED
        BY <4>2, <2>7
    <3>2. CASE u = t /\ i = k
      <4>1. t = "false" /\ {<<t, j>>, <<t, k>>} \cap unseen # {}
        BY <3>2, <2>4, <2>6, <2>8, <2>9
      <4>2. QED
        BY <4>1, <3>2, <2>7
    <3>3. CASE u = t /\ j = k
      <4>1. t = "false" /\ {<<t, i>>, <<t, k>>} \cap unseen # {}
        BY <3>3, <2>4, <2>6, <2>8, <2>9
      <4>2. QED
        BY <4>1, <3>3, <2>7
    <3>4. QED
      BY <3>1, <3>2, <3>3
  <2>10. EntriesDistinct'
    BY <2>4, <2>9, <1>1 DEF EntriesDistinct, Collide
  <2>11. \/ \A j \in needed[t] : f[j] # NoLoc
         \/ \A j \in needed[t] : f[j] # NoLoc => f[j] \in Placed' \/ <<t, j>> \in unseen'
    <3>1. CASE \A j \in needed[t] : entry[t][j] # NoLoc
      BY <3>1, <2>4, <2>5, <2>6
    <3>2. CASE \A j \in needed[t] : entry[t][j] # NoLoc => InList(t, j, Placed)
      BY <3>2, <2>4, <2>6, <2>7 DEF InList
    <3>3. QED
      BY <3>1, <3>2, <1>1 DEF OpenEntries
  <2>12. ASSUME NEW n \in current + 1 .. Len(targets), NEW j \in Rows
         PROVE  entry'[targets[n]][j] = NoLoc
    <3>1. targets[n] # t /\ targets[n] \in DOMAIN entry
      BY <2>1 DEF Shape
    <3>2. entry[targets[n]][j] = NoLoc
      BY DEF OpenEntries
    <3>3. QED
      BY <3>1, <3>2, <2>4
  <2>13. OpenEntries'
    BY <2>4, <2>11, <2>12, <1>1 DEF OpenEntries, InList
  <2>14. QED
    BY <2>10, <2>13
<1>4. QED
  BY <1>2, <1>3 DEF Placing

-----------------------------------------------------------------------------
(***************************************************************************)
(* The first target: its first pass leaves locations to parameters of the  *)
(* block only, so the second pass takes just what the first did not.       *)
(***************************************************************************)
\* One row further, or on to the next pass.
LEMMA HandledAdvances ==
  ASSUME Shape, NEW next, Passing(next), Advance(next),
         UNCHANGED <<arg, own, targets, needed, current>>
  PROVE  /\ step' \in {"defined", "undefined", "map"}
         /\ step' = "defined" => step = "defined"
         /\ Handled(step, row) \subseteq Handled(step, row)'
         /\ row \in needed[Target] /\ (step = "defined" => IsParameter(arg[row]))
              => row \in Handled(step, row)'
         /\ \A k \in Handled(step, row)' :
              IsParameter(arg[k]) => k = row \/ k \in Handled(step, row)
<1>1. PICK r \in Nat, rows \in Nat, wanted \in {needed[Target]} : r = row /\ rows = NumVars
  BY BranchMovesAssumption DEF Shape
<1>2. wanted \subseteq 1 .. rows /\ \A k \in wanted : arg[k] \in Rows
  <2>1. wanted \subseteq Rows
    <3>1. PICK m \in 1 .. Len(targets) : m = current
      BY DEF Shape
    <3>2. QED
      BY <3>1, <1>1 DEF Shape, Target
  <2>2. QED
    BY <2>1, <1>1 DEF Shape, Rows
<1>3. needed[Target]' = wanted
  BY <1>1 DEF Target
<1>4. Handled(step, row) =
        {k \in wanted : \/ step = "defined" /\ k < r /\ IsParameter(arg[k])
                        \/ step = "undefined" /\ (k < r \/ IsParameter(arg[k]))
                        \/ step = "map"}
  BY <1>1 DEF Handled
<1>5. Handled(step, row)' =
        {k \in wanted : \/ step' = "defined" /\ k < row' /\ IsParameter(arg[k])
                        \/ step' = "undefined" /\ (k < row' \/ IsParameter(arg[k]))
                        \/ step' = "map"}
  BY <1>3 DEF Handled, IsParameter
<1>6. PICK p, q : p = step /\ q = row' /\ q \in Nat
  BY <1>1 DEF Advance
<1>7. \/ q = r + 1 /\ step' = p
      \/ q = 1 /\ step' = next /\ \A k \in wanted : k < r \/ k = r
  <2>1. CASE r < rows
    BY <2>1, <1>1, <1>6 DEF Advance
  <2>2. CASE ~(r < rows)
    <3>1. q = 1 /\ step' = next
      BY <2>2, <1>1, <1>6 DEF Advance
    <3>2. \A k \in wanted : k < r \/ k = r
      BY <1>2, <2>2
    <3>3. QED
      BY <3>1, <3>2
  <2>3. QED
    BY <2>1, <2>2
<1>8. step' \in {"defined", "undefined", "map"} /\ (step' = "defined" => step = "defined")
  BY <1>6, <1>7 DEF Passing
<1>9. ASSUME NEW k \in wanted
      PROVE  /\ k \in Handled(step, row) => k \in Handled(step, row)'
             /\ k = row /\ (step = "defined" => IsParameter(arg[k])) => k \in Handled(step, row)'
             /\ k \in Handled(step, row)' /\ IsParameter(arg[k])
                  => k = row \/ k \in Handled(step, row)
  <2>1. PICK j \in Nat : j = k
    BY <1>2
  <2>2. (j < r => j < r + 1) /\ (j < r + 1 => j < r \/ j = r) /\ (j = r => j < r + 1)
    BY <2>1
  <2>3. CASE q = r + 1 /\ step' = p
    BY <2>1, <2>2, <2>3, <1>1, <1>4, <1>5, <1>6 DEF Passing
  <2>4. CASE q = 1 /\ step' = next /\ (j < r \/ j = r)
    BY <2>1, <2>4, <1>1, <1>4, <1>5, <1>6 DEF Passing
  <2>5. QED
    BY <2>1, <2>3, <2>4, <1>7
<1>10. Handled(step, row) \subseteq wanted /\ Handled(step, row)' \subseteq wanted
  BY <1>4, <1>5
<1>11. QED
  BY <1>1, <1>8, <1>9, <1>10

LEMMA HandledIsFinite ==
  ASSUME Shape
  PROVE  /\ Handled(step, row) \subseteq Rows /\ IsFiniteSet(Handled(step, row))
         /\ Cardinality(Handled(step, row)) \in Nat
         /\ Cardinality(Handled(step, row)) <= NumVars
<1>1. PICK m \in 1 .. Len(targets) : m = current
  BY DEF Shape
<1>2. Handled(step, row) \subseteq Rows
  BY <1>1 DEF Shape, Handled, Target
<1>3. IsFiniteSet(Rows) /\ Cardinality(Rows) = NumVars
  <2>1. PICK rows \in Nat : rows = NumVars
    BY BranchMovesAssumption
  <2>2. IsFiniteSet(1 .. rows) /\ Cardinality(1 .. rows) = rows
    BY <2>1, FS_Interval
  <2>3. QED
    BY <2>1, <2>2 DEF Rows
<1>4. QED
  BY <1>2, <1>3, FS_Subset, FS_CardinalityType

\* The same of a step's successor.
LEMMA HandledNextIsFinite ==
  ASSUME Shape'
  PROVE  /\ IsFiniteSet(Handled(step, row)')
         /\ Cardinality(Handled(step, row)') \in Nat
         /\ Cardinality(Handled(step, row)') <= NumVars
<1>1. PICK m \in 1 .. Len(targets') : m = current'
  BY DEF Shape
<1>2. Handled(step, row)' \subseteq Rows
  BY <1>1 DEF Shape, Handled, Target
<1>3. IsFiniteSet(Rows) /\ Cardinality(Rows) = NumVars
  <2>1. PICK rows \in Nat : rows = NumVars
    BY BranchMovesAssumption
  <2>2. IsFiniteSet(1 .. rows) /\ Cardinality(1 .. rows) = rows
    BY <2>1, FS_Interval
  <2>3. QED
    BY <2>1, <2>2 DEF Rows
<1>4. QED
  BY <1>2, <1>3, FS_Subset, FS_CardinalityType

\* A parameter is taken once: what is appended to target_locs is counted.
LEMMA PlacingFirst ==
  ASSUME Shape, Shape', FirstTarget,
         NEW t, NEW k, NEW v, NEW l, NEW next, Passing(next), Placing(t, k, v, l, next),
         step = "defined" => InDefined(row), step = "undefined" => InUndefined(row)
  PROVE  FirstTarget'
<1>. SUFFICES ASSUME current' = 1 PROVE FirstTarget'
  BY DEF FirstTarget
<1>1. /\ UNCHANGED <<arg, own, targets, needed, current>> /\ current = 1 /\ Resolving
      /\ k = row /\ t = Target /\ k \in needed[t] /\ v = arg[k] /\ v \in Rows
      /\ loc' = [loc EXCEPT ![v] = l] /\ l # NoLoc
  BY NoLocIsNoPlace DEF Placing, Placement, Assigned, Passing, Resolving
<1>2. /\ Len(target_locs) <= Cardinality(Handled(step, row))
      /\ step = "defined" => \A w \in Rows : loc[w] # NoLoc => IsParameter(w)
      /\ \A j \in Handled(step, row) : IsParameter(arg[j]) => loc[arg[j]] # NoLoc
  BY <1>1 DEF FirstTarget
<1>3. PICK len, size, rows \in Nat :
        len = Len(target_locs) /\ size = Cardinality(Handled(step, row)) /\ rows = NumVars
          /\ size <= rows
  BY HandledIsFinite, BranchMovesAssumption, SMTT(30) DEF Shape
<1>4. CASE step' = "exit" /\ UNCHANGED <<entry, target_locs, unseen, row>>
  BY <1>2, <1>3, <1>4 DEF FirstTarget, Resolving
<1>5. ASSUME NEW e, Entered(t, k, e, next) PROVE FirstTarget'
  <2>1. step = "defined" => IsParameter(v)
    BY <1>1, <1>2 DEF InDefined
  <2>2. row \notin Handled(step, row)
    <3>1. PICK r \in Nat : r = row /\ ~(r < r)
      BY DEF Shape
    <3>2. QED
      BY <3>1, <1>1, <1>2 DEF Handled, Passing, InUndefined
  <2>3. /\ step' \in {"defined", "undefined", "map"}
        /\ step' = "defined" => step = "defined"
        /\ Handled(step, row) \subseteq Handled(step, row)'
        /\ row \in Handled(step, row)'
        /\ \A j \in Handled(step, row)' :
             IsParameter(arg[j]) => j = row \/ j \in Handled(step, row)
    <3>1. Advance(next)
      BY <1>5 DEF Entered
    <3>2. QED
      BY <3>1, <2>1, <1>1, HandledAdvances
  <2>4. PICK size2 \in Nat : size2 = Cardinality(Handled(step, row)') /\ size + 1 <= size2
    <3>1. PICK H, H2 : H = Handled(step, row) /\ H2 = Handled(step, row)'
      OBVIOUS
    <3>2. IsFiniteSet(H) /\ IsFiniteSet(H2) /\ Cardinality(H) = size
          /\ Cardinality(H2) \in Nat
      BY <3>1, <1>3, HandledIsFinite, HandledNextIsFinite
    <3>3. H \cup {row} \subseteq H2 /\ row \notin H
      BY <3>1, <2>2, <2>3
    <3>4. Cardinality(H \cup {row}) = size + 1 /\ Cardinality(H \cup {row}) <= Cardinality(H2)
      BY <3>2, <3>3, FS_AddElement, FS_Subset
    <3>5. QED
      BY <3>1, <3>2, <3>4
  <2>5. Len(target_locs') <= Cardinality(Handled(step, row)')
    <3>1. PICK list \in Seq(Place) : list = target_locs /\ target_locs' = Append(list, e)
      BY <1>5 DEF Shape, Entered
    <3>2. Len(target_locs') = len + 1
      BY <3>1, <1>3, <1>5 DEF Entered
    <3>3. QED
      BY <3>2, <2>4, <1>2, <1>3
  <2>6. /\ loc'[v] = l /\ \A w \in Rows : loc'[w] = loc[w] \/ (w = v /\ loc'[w] = l)
    BY <1>1 DEF Shape
  <2>7. step' = "defined" => \A w \in Rows : loc'[w] # NoLoc => IsParameter(w)
    BY <2>1, <2>3, <2>6, <1>2
  <2>8. \A j \in Handled(step, row)' : IsParameter(arg[j]) => loc'[arg[j]] # NoLoc
    <3>1. ASSUME NEW j \in Handled(step, row)', IsParameter(arg[j]) PROVE loc'[arg[j]] # NoLoc
      <4>1. CASE j = row
        BY <4>1, <2>6, <1>1
      <4>2. CASE j \in Handled(step, row)
        <5>1. loc[arg[j]] # NoLoc /\ arg[j] \in Rows
          BY <4>2, <3>1, <1>2, HandledIsFinite DEF Shape
        <5>2. QED
          BY <5>1, <2>6, <1>1
      <4>3. QED
        BY <4>1, <4>2, <3>1, <2>3
    <3>2. QED
      BY <3>1
  <2>9. Resolving'
    BY <2>3 DEF Resolving
  <2>10. QED
    BY <2>5, <2>7, <2>8, <2>9, <1>1 DEF FirstTarget, IsParameter
<1>6. QED
  BY <1>4, <1>5 DEF Placing

LEMMA SecondTarget ==
  ASSUME Shape, current # 1
  PROVE  Target = "false"
<1>1. targets = <<"true", "false">> /\ current = 2
  BY DEF Shape
<1>2. QED
  BY <1>1 DEF Target

\* So nothing is written behind target_locs.
LEMMA PlacingBehind ==
  ASSUME Shape, Shape', FirstTarget', Behind,
         NEW t, NEW k, NEW v, NEW l, NEW next, Passing(next), Placing(t, k, v, l, next)
  PROVE  Behind'
<1>1. CASE unseen' = unseen
  BY <1>1 DEF Behind
<1>2. ASSUME NEW e, Entered(t, k, e, next), unseen' # unseen PROVE Behind'
  <2>1. UNCHANGED <<targets, current>> /\ t = Target /\ k = row
    BY DEF Placing, Placement
  <2>2. unseen' = unseen \cup {<<t, k>>} /\ ~(Len(target_locs) < NumVars)
    BY <2>1, <1>2 DEF Entered, Overlook
  <2>3. ASSUME current = 1 PROVE FALSE
    <3>1. Resolving' /\ current' = 1
      BY <2>1, <2>3, <1>2 DEF Entered, Advance, Passing, Resolving
    <3>2. PICK size, rows \in Nat :
            /\ size = Cardinality(Handled(step, row)') /\ rows = NumVars /\ size <= rows
            /\ Len(target_locs') <= size
      BY <3>1, HandledNextIsFinite, BranchMovesAssumption DEF FirstTarget
    <3>3. PICK list \in Seq(Place) : list = target_locs /\ target_locs' = Append(list, e)
      BY <1>2 DEF Shape, Entered
    <3>4. PICK len \in Nat : len = Len(list) /\ Len(target_locs') = len + 1
      BY <3>3
    <3>5. QED
      BY <3>2, <3>3, <3>4, <2>2
  <2>4. t = "false"
    BY <2>1, <2>3, SecondTarget
  <2>5. QED
    BY <2>2, <2>4 DEF Behind
<1>3. QED
  BY <1>1, <1>2 DEF Placing

\* A parameter that is left to the other pass has a location, or the other pass
\* takes it.
LEMMA SkipFirst ==
  ASSUME Shape, Shape', FirstTarget, Skip
  PROVE  FirstTarget'
<1>. SUFFICES ASSUME current' = 1 PROVE FirstTarget'
  BY DEF FirstTarget
<1>1. /\ UNCHANGED <<arg, own, targets, needed, current, loc, target_locs>>
      /\ current = 1 /\ Target' = Target
  BY DEF Skip, block, Target
<1>2. PICK next : /\ Passing(next) /\ Advance(next)
                  /\ step = "defined" => ~InDefined(row)
                  /\ step = "undefined" => ~InUndefined(row)
  BY DEF Skip, Passing
<1>3. /\ Len(target_locs) <= Cardinality(Handled(step, row))
      /\ step = "defined" => \A w \in Rows : loc[w] # NoLoc => IsParameter(w)
      /\ \A j \in Handled(step, row) : IsParameter(arg[j]) => loc[arg[j]] # NoLoc
  BY <1>1, <1>2 DEF FirstTarget, Passing, Resolving
<1>4. /\ step' \in {"defined", "undefined", "map"}
      /\ step' = "defined" => step = "defined"
      /\ Handled(step, row) \subseteq Handled(step, row)'
      /\ \A j \in Handled(step, row)' :
           IsParameter(arg[j]) => j = row \/ j \in Handled(step, row)
  BY <1>1, <1>2, HandledAdvances
<1>5. Len(target_locs') <= Cardinality(Handled(step, row)')
  <2>1. PICK H, H2 : H = Handled(step, row) /\ H2 = Handled(step, row)'
    OBVIOUS
  <2>2. IsFiniteSet(H2) /\ H \subseteq H2 /\ Cardinality(H) \in Nat /\ Cardinality(H2) \in Nat
    BY <2>1, <1>4, HandledIsFinite, HandledNextIsFinite
  <2>3. Cardinality(H) <= Cardinality(H2)
    BY <2>2, FS_Subset
  <2>4. PICK len, size, size2 \in Nat :
          len = Len(target_locs) /\ size = Cardinality(H) /\ size2 = Cardinality(H2)
    BY <2>2 DEF Shape
  <2>5. QED
    BY <2>1, <2>3, <2>4, <1>1, <1>3
<1>6. ASSUME NEW j \in Handled(step, row)', IsParameter(arg[j]) PROVE loc[arg[j]] # NoLoc
  <2>1. CASE j \in Handled(step, row)
    BY <2>1, <1>3, <1>6
  <2>2. CASE j = row
    <3>1. j \in needed[Target]
      BY <1>1 DEF Handled
    <3>2. QED
      BY <3>1, <2>2, <1>2, <1>6 DEF InDefined, InUndefined, Passing
  <2>3. QED
    BY <2>1, <2>2, <1>4, <1>6
<1>7. Resolving'
  BY <1>4 DEF Resolving
<1>8. QED
  BY <1>1, <1>3, <1>4, <1>5, <1>6, <1>7 DEF FirstTarget, IsParameter

-----------------------------------------------------------------------------
(***************************************************************************)
(* Every reachable state.                                                  *)
(***************************************************************************)
LEMMA InitIInv == Init => IInv
<1>. SUFFICES ASSUME Init PROVE IInv
  OBVIOUS
<1>1. /\ loc = NoRows /\ used = {} /\ num_vars = 0 /\ current = 1 /\ step = "defined"
      /\ row = 1 /\ target_locs = << >> /\ unseen = {}
  BY DEF Init
<1>2. EntryLocs \subseteq Place
  BY NoLocIsNoPlace DEF EntryLocs
<1>3. arg \in [Rows -> Rows] /\ own \in [Rows -> Place \cup {NoLoc}]
  <2>1. PICK b \in Blocks : arg = b.arg /\ own = b.own
    BY DEF Init
  <2>2. b.arg \in [Rows -> Rows] /\ b.own \in [Rows -> EntryLocs \cup {NoLoc}]
    BY DEF Blocks
  <2>3. QED
    BY <2>1, <2>2, <1>2
<1>4. NoRows \in [Rows -> Place \cup {NoLoc}] /\ \A k \in Rows : NoRows[k] = NoLoc
  BY DEF NoRows
<1>5. ASSUME NEW S \in SUBSET Rows, NEW f \in SettledEntries(S) \cup {NoRows}
      PROVE  /\ f \in [Rows -> Place \cup {NoLoc}]
             /\ \A j, k \in S : j # k /\ f[j] = f[k] => f[j] = NoLoc
             /\ (\A k \in S : f[k] # NoLoc) \/ (\A k \in S : f[k] = NoLoc)
  <2>1. CASE f = NoRows
    BY <2>1, <1>4
  <2>2. CASE f \in SettledEntries(S)
    <3>1. PICK g \in [S -> EntryLocs] :
            Distinct(g, S) /\ f = [k \in Rows |-> IF k \in S THEN g[k] ELSE NoLoc]
      BY <2>2 DEF SettledEntries
    <3>2. /\ f \in [Rows -> Place \cup {NoLoc}]
          /\ \A k \in S : f[k] = g[k] /\ g[k] \in Place
      BY <3>1, <1>2
    <3>3. QED
      BY <3>1, <3>2, NoLocIsNoPlace DEF Distinct
  <2>3. QED
    BY <2>1, <2>2
<1>6. /\ targets \in {<<"only">>, <<"true", "false">>}
      /\ \A m \in 1 .. Len(targets) :
           /\ needed[targets[m]] \subseteq Rows
           /\ entry[targets[m]] \in [Rows -> Place \cup {NoLoc}]
      /\ DOMAIN entry = {targets[m] : m \in 1 .. Len(targets)}
      /\ EntriesDistinct /\ OpenEntries
  <2>1. CASE targets = <<"only">>
    <3>1. PICK S \in SUBSET Rows : \E f \in SettledEntries(S) \cup {NoRows} :
            needed = [t \in {"only"} |-> S] /\ entry = [t \in {"only"} |-> f]
      BY <2>1 DEF Init
    <3>2. PICK f \in SettledEntries(S) \cup {NoRows} :
            needed = [t \in {"only"} |-> S] /\ entry = [t \in {"only"} |-> f]
      BY <3>1
    <3>3. 1 .. Len(targets) = {1} /\ targets[1] = "only" /\ Len(targets) = 1
      BY <2>1
    <3>4. needed["only"] = S /\ entry["only"] = f /\ DOMAIN entry = {"only"}
      BY <3>2
    <3>5. EntriesDistinct
      BY <3>4, <1>5 DEF EntriesDistinct, Collide
    <3>6. OpenEntries
      <4>1. Target = "only"
        BY <3>3, <1>1 DEF Target
      <4>2. current + 1 .. Len(targets) = {}
        BY <3>3, <1>1
      <4>3. QED
        BY <4>1, <4>2, <3>4, <1>5 DEF OpenEntries
    <3>7. QED
      BY <2>1, <3>3, <3>4, <3>5, <3>6, <1>5
  <2>2. CASE targets = <<"true", "false">>
    <3>1. PICK S, T \in SUBSET Rows :
            needed = [t \in {"true", "false"} |-> IF t = "true" THEN S ELSE T]
      BY <2>2 DEF Init
    <3>2. entry = [t \in {"true", "false"} |-> NoRows]
      BY <2>2 DEF Init
    <3>3. /\ Len(targets) = 2 /\ targets[1] = "true" /\ targets[2] = "false"
          /\ 1 .. Len(targets) = {1, 2}
      BY <2>2
    <3>4. /\ needed["true"] = S /\ needed["false"] = T
          /\ entry["true"] = NoRows /\ entry["false"] = NoRows
          /\ DOMAIN entry = {"true", "false"}
      BY <3>1, <3>2
    <3>5. EntriesDistinct
      BY <3>1, <3>4, <1>4 DEF EntriesDistinct, Collide
    <3>6. OpenEntries
      <4>1. Target = "true"
        BY <3>3, <1>1 DEF Target
      <4>2. current + 1 .. Len(targets) = {2}
        BY <3>3, <1>1
      <4>3. QED
        BY <4>1, <4>2, <3>1, <3>3, <3>4, <1>4 DEF OpenEntries
    <3>7. QED
      BY <2>2, <3>1, <3>3, <3>4, <3>5, <3>6, <1>4
  <2>3. QED
    BY <2>1, <2>2 DEF Init
<1>7. Shape
  <2>1. current \in 1 .. Len(targets)
    BY <1>1, <1>6
  <2>2. QED
    BY <2>1, <1>1, <1>3, <1>4, <1>6 DEF Shape
<1>8. RegistersHeldOnce
  <2>1. \A n \in 1 .. NumRegs : Reg(n) # NoLoc
    BY NoLocIsNoPlace
  <2>2. \A v \in Rows : loc[v] = NoLoc
    BY <1>1, <1>4
  <2>3. QED
    BY <2>1, <2>2, <1>1 DEF RegistersHeldOnce
<1>9. FirstTarget
  <2>1. Len(target_locs) = 0 /\ Resolving
    BY <1>1 DEF Resolving
  <2>2. Handled(step, row) = {}
    <3>1. \A k \in Rows : ~(k < 1)
      BY BranchMovesAssumption DEF Rows
    <3>2. QED
      BY <3>1, <1>1, <1>7, HandledIsFinite DEF Handled
  <2>3. Cardinality(Handled(step, row)) \in Nat
    BY <1>7, HandledIsFinite
  <2>4. \A v \in Rows : loc[v] = NoLoc
    BY <1>1, <1>4
  <2>5. QED
    BY <2>1, <2>2, <2>3, <2>4 DEF FirstTarget
<1>10. Behind /\ Ran
  BY <1>1 DEF Behind, Ran
<1>11. QED
  BY <1>6, <1>7, <1>8, <1>9, <1>10 DEF IInv

LEMMA ResolveStep ==
  ASSUME IInv, NEW next, Passing(next), Resolve(next), row \in needed[Target],
         step = "defined" => InDefined(row), step = "undefined" => InUndefined(row)
  PROVE  IInv'
<1>1. /\ Shape /\ OpenEntries /\ EntriesDistinct /\ RegistersHeldOnce /\ FirstTarget
      /\ Behind /\ Resolving
  BY DEF IInv, Passing, Resolving
<1>2. PICK t, k, v, l : Placing(t, k, v, l, next)
  BY <1>1, ResolvePlaces
<1>3. Shape'
  BY <1>1, <1>2, PlacingShape
<1>4. EntriesDistinct' /\ OpenEntries'
  BY <1>1, <1>2, PlacingDistinct
<1>5. RegistersHeldOnce'
  <2>1. Placement(t, k, v, l)
    BY <1>2 DEF Placing
  <2>2. QED
    BY <2>1, <1>1, PlacementHeldOnce
<1>6. FirstTarget'
  BY <1>1, <1>2, <1>3, PlacingFirst
<1>7. Ran'
  <2>1. step' = "exit" \/ step' = step \/ step' = next
    BY <1>2 DEF Placing, Entered, Advance
  <2>2. QED
    BY <2>1 DEF Ran, Passing
<1>8. Behind'
  BY <1>1, <1>2, <1>3, <1>6, PlacingBehind
<1>9. QED
  BY <1>3, <1>4, <1>5, <1>6, <1>7, <1>8 DEF IInv

LEMMA SkipStep ==
  ASSUME IInv, Skip
  PROVE  IInv'
<1>1. UNCHANGED <<arg, own, targets, needed, entry, loc, used, num_vars, current, target_locs,
                unseen>>
  BY DEF Skip, block
<1>2. Shape /\ OpenEntries /\ EntriesDistinct /\ RegistersHeldOnce /\ Behind /\ FirstTarget
  BY DEF IInv
<1>3. Resolving /\ row' \in Nat /\ step' \in {"defined", "undefined", "map"}
  <2>1. PICK n \in Nat : n = row
    BY <1>2 DEF Shape
  <2>2. QED
    BY <2>1 DEF Skip, Advance, Resolving
<1>4. Shape'
  BY <1>1, <1>2, <1>3 DEF Shape
<1>5. OpenEntries'
  BY <1>1, <1>2, <1>3 DEF OpenEntries, InList, Target, Placed
<1>6. EntriesDistinct' /\ RegistersHeldOnce' /\ Behind'
  BY <1>1, <1>2 DEF EntriesDistinct, Collide, RegistersHeldOnce, Behind
<1>7. FirstTarget'
  BY <1>2, <1>4, SkipFirst
<1>8. Ran'
  BY <1>3 DEF Ran
<1>9. QED
  BY <1>4, <1>5, <1>6, <1>7, <1>8 DEF IInv

\* The second target starts with an empty target_locs, and with no place for a
\* parameter.
LEMMA MapStep ==
  ASSUME IInv, Map
  PROVE  IInv'
<1>1. /\ UNCHANGED <<arg, own, targets, needed, entry, loc, used, num_vars, unseen>>
      /\ target_locs' = << >> /\ row' = 1
      /\ \/ current' = current + 1 /\ current < Len(targets) /\ step' = "defined"
         \/ current' = current /\ step' = "run"
  BY DEF Map, block
<1>2. Shape /\ OpenEntries /\ EntriesDistinct /\ RegistersHeldOnce /\ Behind /\ Resolving
  BY DEF IInv, Map, Resolving
<1>3. PICK len, c \in Nat : len = Len(targets) /\ c = current /\ 1 <= c /\ c <= len
  BY <1>2 DEF Shape
<1>4. current' \in 1 .. Len(targets')
  <2>1. (c < len => c + 1 \in 1 .. len) /\ c \in 1 .. len
    BY <1>3
  <2>2. QED
    BY <2>1, <1>1, <1>3
<1>5. target_locs' \in Seq(Place) /\ Len(target_locs') = 0
  BY <1>1
<1>6. Shape'
  BY <1>1, <1>2, <1>4, <1>5 DEF Shape
<1>7. EntriesDistinct' /\ RegistersHeldOnce' /\ Behind'
  BY <1>1, <1>2 DEF EntriesDistinct, Collide, RegistersHeldOnce, Behind
<1>8. OpenEntries'
  <2>1. SUFFICES ASSUME Resolving' PROVE OpenEntries'
    BY DEF OpenEntries
  <2>2. current' = c + 1 /\ c < len
    BY <2>1, <1>1, <1>3 DEF Resolving
  <2>3. \A m \in c + 1 .. len : \A k \in Rows : entry[targets[m]][k] = NoLoc
    BY <1>2, <1>3 DEF OpenEntries
  <2>4. c + 1 \in c + 1 .. len /\ c + 1 \in 1 .. len /\ c + 1 + 1 .. len \subseteq c + 1 .. len
    BY <2>2, <1>3
  <2>5. \A k \in needed[targets[c + 1]] : entry[targets[c + 1]][k] = NoLoc
    BY <2>3, <2>4, <1>2, <1>3 DEF Shape
  <2>6. Target' = targets[c + 1]
    BY <2>2, <1>1 DEF Target
  <2>7. QED
    BY <2>2, <2>3, <2>4, <2>5, <2>6, <1>1, <1>3 DEF OpenEntries
<1>9. FirstTarget'
  <2>1. SUFFICES ASSUME current' = 1 PROVE FirstTarget'
    BY DEF FirstTarget
  <2>2. step' = "run"
    BY <2>1, <1>1, <1>3
  <2>3. 0 <= NumVars
    BY BranchMovesAssumption
  <2>4. QED
    BY <2>2, <2>3, <1>5 DEF FirstTarget, Resolving
<1>10. Ran'
  BY <1>1 DEF Ran
<1>11. QED
  BY <1>6, <1>7, <1>8, <1>9, <1>10 DEF IInv

\* When the code runs, nothing is given a place any more.
LEMMA RunStep ==
  ASSUME IInv, Move \/ Jump \/ FallThrough
  PROVE  IInv'
<1>1. /\ UNCHANGED <<arg, own, targets, needed, entry, loc, used, num_vars, target_locs,
                    unseen>>
      /\ step = "run" /\ step' \in {"run", "arrived"}
      /\ row' \in {row, row + 1, 1}
      /\ current' = current \/ (current > 1 /\ current' = current - 1)
  <2>1. CASE Move
    BY <2>1 DEF Move, block
  <2>2. CASE Jump
    BY <2>2 DEF Jump, MovesDone, Unmoved, block
  <2>3. CASE FallThrough
    BY <2>3 DEF FallThrough, MovesDone, Unmoved, block
  <2>4. QED
    BY <2>1, <2>2, <2>3
<1>2. Shape /\ EntriesDistinct /\ RegistersHeldOnce /\ Behind /\ target_locs = << >>
  BY <1>1 DEF IInv, Ran
<1>3. row' \in Nat
  <2>1. PICK n \in Nat : n = row
    BY <1>2 DEF Shape
  <2>2. QED
    BY <2>1, <1>1
<1>4. current' \in 1 .. Len(targets')
  <2>1. PICK len, c \in Nat : len = Len(targets) /\ c = current /\ 1 <= c /\ c <= len
    BY <1>2 DEF Shape
  <2>2. (c > 1 => c - 1 \in 1 .. len) /\ c \in 1 .. len
    BY <2>1
  <2>3. QED
    BY <2>1, <2>2, <1>1
<1>5. Shape'
  BY <1>1, <1>2, <1>3, <1>4 DEF Shape
<1>6. EntriesDistinct' /\ RegistersHeldOnce' /\ Behind'
  BY <1>1, <1>2 DEF EntriesDistinct, Collide, RegistersHeldOnce, Behind
<1>7. OpenEntries' /\ Ran'
  BY <1>1, <1>2 DEF OpenEntries, Ran, Resolving
<1>8. FirstTarget'
  <2>1. Len(target_locs') = 0 /\ 0 <= NumVars
    BY <1>1, <1>2, BranchMovesAssumption
  <2>2. QED
    BY <2>1, <1>1 DEF FirstTarget, Resolving
<1>9. QED
  BY <1>5, <1>6, <1>7, <1>8 DEF IInv

LEMMA NextIInv ==
  ASSUME IInv, [Next]_vars
  PROVE  IInv'
<1>1. CASE ResolveDefined
  <2>1. Passing("undefined") /\ row \in needed[Target] /\ InDefined(row) /\ step = "defined"
    BY <1>1 DEF ResolveDefined, InDefined, Passing
  <2>2. Resolve("undefined")
    BY <1>1 DEF ResolveDefined
  <2>3. QED
    BY <2>1, <2>2, ResolveStep
<1>2. CASE ResolveUndefined
  <2>1. Passing("map") /\ row \in needed[Target] /\ InUndefined(row) /\ step = "undefined"
    BY <1>2 DEF ResolveUndefined, InUndefined, Passing
  <2>2. Resolve("map")
    BY <1>2 DEF ResolveUndefined
  <2>3. QED
    BY <2>1, <2>2, ResolveStep
<1>3. CASE Skip
  BY <1>3, SkipStep
<1>4. CASE Map
  BY <1>4, MapStep
<1>5. CASE Move \/ Jump \/ FallThrough
  BY <1>5, RunStep
<1>6. CASE UNCHANGED vars
  <2>1. /\ UNCHANGED <<arg, own, targets, needed, entry, loc, used, num_vars, target_locs>>
        /\ UNCHANGED <<unseen, current, step, row>>
    BY <1>6 DEF vars
  <2>2. Shape /\ OpenEntries /\ EntriesDistinct /\ RegistersHeldOnce /\ Behind /\ FirstTarget /\ Ran
    BY DEF IInv
  <2>3. Shape'
    BY <2>1, <2>2 DEF Shape
  <2>4. OpenEntries' /\ EntriesDistinct' /\ RegistersHeldOnce' /\ Behind' /\ Ran'
    BY <2>1, <2>2 DEF OpenEntries, InList, EntriesDistinct, Collide, RegistersHeldOnce,
       Behind, Ran, Resolving, Target,
       Placed
  <2>5. FirstTarget'
    BY <2>1, <2>2 DEF FirstTarget, Resolving, Handled, IsParameter, Target
  <2>6. QED
    BY <2>3, <2>4, <2>5, <2>2 DEF IInv
<1>7. QED
  BY <1>1, <1>2, <1>3, <1>4, <1>5, <1>6 DEF Next

\* In every reachable state: the parameters of the target have their places
\* already, or each that has one got it since the target is resolved, and it is in
\* target_locs or was noted as written behind it; two places of a target are the
\* same only if one of them was; that happens for the second target only, because
\* a first target has resolved each parameter at most once, since its first pass
\* leaves locations to parameters of the block only; and the marked registers are
\* those held, each by one value.
THEOREM ResolvingInvariant == Spec => []IInv
<1>1. IInv /\ [Next]_vars => IInv'
  BY NextIInv
<1>2. QED
  BY <1>1, InitIInv, PTL DEF Spec

\* However many registers and variables there are, no two parameters of a first or
\* only target arrive at the same place; two of a second target only when the place
\* of one was written behind target_locs, where vloc_list_contains does not look;
\* and no register is given to two values (resolve_branch, instr_assign_loc).
THEOREM ParametersArriveApart == Spec => []PlacesAreDistinct
<1>1. IInv => PlacesAreDistinct
  BY DEF IInv, PlacesAreDistinct
<1>2. QED
  BY <1>1, ResolvingInvariant, PTL

\* What resolve_branch writes for a first or only target fits into target_locs,
\* which has an entry for each parameter: only the second target of a conditional
\* branch can write behind it.
THEOREM FirstTargetFits == Spec => []OnlySecondTargetOverruns
<1>1. ASSUME IInv PROVE OnlySecondTargetOverruns
  <2>1. Shape /\ FirstTarget
    BY <1>1 DEF IInv
  <2>2. PICK len, rows \in Nat : len = Len(target_locs) /\ rows = NumVars
    BY <2>1, BranchMovesAssumption DEF Shape
  <2>3. CASE current = 1
    <3>1. PICK size \in Nat : size = Cardinality(Handled(step, row)) /\ size <= rows
      BY <2>1, <2>2, HandledIsFinite
    <3>2. len <= rows
      BY <3>1, <2>1, <2>2, <2>3 DEF FirstTarget
    <3>3. QED
      BY <3>2, <2>2 DEF OnlySecondTargetOverruns
  <2>4. CASE current # 1
    BY <2>1, <2>4, SecondTarget DEF OnlySecondTargetOverruns
  <2>5. QED
    BY <2>3, <2>4
<1>2. QED
  BY <1>1, ResolvingInvariant, PTL

===============================================================================
