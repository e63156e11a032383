--------------------------- MODULE MemArenaProofs ---------------------------
(***************************************************************************)
(* Memory safety of ojit_mem.c for every arena size, every set of request  *)
(* sizes and any number of contexts and arenas.                            *)
(***************************************************************************)
EXTENDS MemArena, TLAPS

\* The arena a live context allocates from is its own, and is the end of its
\* chain: nothing follows it in the next_arena direction.
CurrOwned ==
  \A c \in Ctxs : Live(c) =>
    /\ owner[ctx[c]] = c
    /\ arena[ctx[c]].next = Null
    /\ c # destroying => ctx[c] \in heap

\* A region lies below curr_ptr, so moving curr_ptr up is enough to stay clear
\* of every region handed out before.
GrantsBelowCurr ==
  \A r \in granted :
    /\ Live(r.ctx)
    /\ r.from + r.size <= arena[r.arena].curr

\* The destroy loop is at the newest arena or done, since next_arena is NULL.
WalkAtNewest ==
  destroying # Null =>
    /\ Live(destroying)
    /\ curr_arena # Null => curr_arena = ctx[destroying] /\ curr_arena \in heap

IInv ==
  /\ TypeOK
  /\ CurrOwned
  /\ GrantsBelowCurr
  /\ WalkAtNewest
  /\ GrantsDisjoint
  /\ GrantsBacked

LEMMA InitIInv == Init => IInv
<1> SUFFICES ASSUME Init PROVE IInv
  OBVIOUS
<1>1. TypeOK
  <2>1. arena \in [Arenas -> ArenaType]
    BY ArenaAssumption DEF Init, ArenaType
  <2>2. /\ owner \in [Arenas -> Ctxs \cup {Null}]
        /\ ctx \in [Ctxs -> Arenas \cup {Null}]
    BY DEF Init
  <2>3. /\ heap \subseteq Arenas
        /\ granted \subseteq RegionType
    BY DEF Init
  <2>4. /\ destroying \in Ctxs \cup {Null}
        /\ curr_arena \in Arenas \cup {Null}
        /\ exited \in BOOLEAN
    BY DEF Init
  <2>5. QED
    BY <2>1, <2>2, <2>3, <2>4 DEF TypeOK
<1>2. CurrOwned
  BY DEF Init, CurrOwned, Live
<1>3. GrantsBelowCurr /\ GrantsDisjoint /\ GrantsBacked
  BY DEF Init, GrantsBelowCurr, GrantsDisjoint, GrantsBacked
<1>4. WalkAtNewest
  BY DEF Init, WalkAtNewest
<1>5. QED
  BY <1>1, <1>2, <1>3, <1>4 DEF IInv

LEMMA NewArenaType ==
  ASSUME IInv, NEW c \in Ctxs, NEW a \in Arenas, NEW size \in Nat, 
         size <= ArenaSize, NewArena(c, a, size)
  PROVE  /\ arena' \in [Arenas -> ArenaType]
         /\ heap' \subseteq Arenas
         /\ owner' \in [Arenas -> Ctxs \cup {Null}]
         /\ ctx' \in [Ctxs -> Arenas \cup {Null}]
         /\ arena'[a] = [curr |-> size, next |-> Null, prev |-> ctx[c]]
         /\ \A x \in Arenas \ {a} : arena'[x].curr = arena[x].curr
         /\ \A x \in Arenas \ {a, ctx[c]} : arena'[x] = arena[x]
<1>1. Linked(c, a) \in [Arenas -> ArenaType]
  BY ArenaAssumption DEF IInv, TypeOK, ArenaType, Linked
<1>2. Linked(c, a)[a] = [curr |-> 0, next |-> Null, prev |-> ctx[c]]
  BY DEF Linked
<1>3. \A x \in Arenas \ {a} : Linked(c, a)[x].curr = arena[x].curr
  BY DEF Linked, IInv, TypeOK, ArenaType
<1>4. \A x \in Arenas \ {a, ctx[c]} : Linked(c, a)[x] = arena[x]
  BY DEF Linked
<1>5. arena' = [Linked(c, a) EXCEPT ![a].curr = size]
  BY DEF NewArena
<1>6. QED
  BY <1>1, <1>2, <1>3, <1>4, <1>5, ArenaAssumption DEF NewArena, IInv, TypeOK, ArenaType

(***************************************************************************)
(* One lemma per action.                                                   *)
(***************************************************************************)
LEMMA CreateCtxIInv ==
  ASSUME IInv, NEW c \in Ctxs, CreateCtx(c)
  PROVE  IInv'
<1>. PICK a \in Arenas : NewArena(c, a, 0)
  BY DEF CreateCtx
<1>. USE DEF IInv
<1>1. /\ arena' \in [Arenas -> ArenaType]
      /\ heap' \subseteq Arenas
      /\ owner' \in [Arenas -> Ctxs \cup {Null}]
      /\ ctx' \in [Ctxs -> Arenas \cup {Null}]
      /\ arena'[a] = [curr |-> 0, next |-> Null, prev |-> ctx[c]]
      /\ \A x \in Arenas \ {a} : arena'[x].curr = arena[x].curr
      /\ \A x \in Arenas \ {a, ctx[c]} : arena'[x] = arena[x]
  BY ArenaAssumption, NewArenaType
<1>2. /\ a \notin heap
      /\ heap' = heap \cup {a}
      /\ owner' = [owner EXCEPT ![a] = c]
      /\ ctx' = [ctx EXCEPT ![c] = a]
      /\ UNCHANGED <<granted, destroying, curr_arena, exited>>
      /\ destroying = Null
      /\ ~Live(c)
  BY DEF NewArena, CreateCtx, Running
<1>3. TypeOK'
  BY <1>1, <1>2 DEF TypeOK
<1>4. CurrOwned'
  BY <1>1, <1>2, ArenaAssumption DEF CurrOwned, Live, TypeOK, ArenaType
<1>5. \A r \in granted : r.arena \in Arenas \ {a} /\ r.ctx \in Ctxs
  BY <1>2, ArenaAssumption DEF GrantsBacked, TypeOK, RegionType
<1>6. GrantsBelowCurr'
  BY <1>1, <1>2, <1>5, ArenaAssumption DEF GrantsBelowCurr, Live, TypeOK
<1>7. WalkAtNewest'
  BY <1>2 DEF WalkAtNewest
<1>8. GrantsDisjoint'
  BY <1>2 DEF GrantsDisjoint, Disjoint
<1>9. GrantsBacked'
  BY <1>2, <1>5 DEF GrantsBacked, TypeOK
<1>10. QED
  BY <1>3, <1>4, <1>6, <1>7, <1>8, <1>9

LEMMA AllocHereIInv ==
  ASSUME IInv, NEW c \in Ctxs, NEW size \in Sizes, AllocHere(c, size)
  PROVE  IInv'
<1>. DEFINE a == ctx[c]
            new == Region(c, a, arena[a].curr, size)
<1>. USE DEF IInv
<1>1. /\ a \in Arenas
      /\ a \in heap
      /\ owner[a] = c
      /\ size \in Nat
      /\ arena[a] \in ArenaType
      /\ arena[a].curr \in Nat
      /\ arena[a].curr + size < ArenaSize
      /\ destroying = Null
  BY ArenaAssumption
  DEF AllocHere, Live, Running, Fits, CurrOwned, TypeOK, ArenaType
<1>2. /\ granted' = granted \cup {new}
      /\ arena' = [arena EXCEPT ![a].curr = @ + size]
      /\ UNCHANGED <<heap, owner, ctx, destroying, curr_arena, exited>>
  BY DEF AllocHere
<1>3. /\ new \in RegionType
      /\ new.ctx = c /\ new.arena = a /\ new.from = arena[a].curr /\ new.size = size
  BY <1>1 DEF Region, RegionType
<1>4. /\ arena' \in [Arenas -> ArenaType]
      /\ arena'[a].curr = arena[a].curr + size
      /\ \A x \in Arenas \ {a} : arena'[x].curr = arena[x].curr
      /\ \A x \in Arenas : arena'[x].next = arena[x].next
  BY <1>1, <1>2, ArenaAssumption DEF TypeOK, ArenaType
<1>5. TypeOK'
  BY <1>2, <1>3, <1>4 DEF TypeOK
<1>6. CurrOwned'
  BY <1>2, <1>4 DEF CurrOwned, Live, TypeOK
<1>7. \A r \in granted : r \in RegionType /\ r.from + r.size <= arena[r.arena].curr
  BY DEF TypeOK, GrantsBelowCurr
<1>8. GrantsBelowCurr'
  <2> SUFFICES ASSUME NEW r \in granted'
               PROVE  Live(r.ctx)' /\ r.from + r.size <= arena'[r.arena].curr
    BY DEF GrantsBelowCurr
  <2>1. CASE r = new
    BY <2>1, <1>1, <1>2, <1>3, <1>4, ArenaAssumption DEF Live, AllocHere
  <2>2. CASE r \in granted
    <3>1. Live(r.ctx)'
      BY <2>2, <1>2 DEF Live, GrantsBelowCurr
    <3>2. /\ r.from \in Nat /\ r.size \in Nat /\ r.arena \in Arenas
          /\ r.from + r.size <= arena[r.arena].curr
          /\ arena[r.arena].curr \in Nat
      BY <2>2, <1>7, ArenaAssumption DEF RegionType, TypeOK, ArenaType
    <3>3. arena[r.arena].curr <= arena'[r.arena].curr
      BY <3>2, <1>1, <1>4
    <3>4. arena'[r.arena].curr \in Nat
      BY <3>2, <1>1, <1>4
    <3>5. QED
      BY <3>1, <3>2, <3>3, <3>4
  <2>3. QED
    BY <2>1, <2>2, <1>2
<1>9. WalkAtNewest'
  BY <1>1, <1>2 DEF WalkAtNewest
<1>10. GrantsDisjoint'
  <2>1. ASSUME NEW r \in granted PROVE Disjoint(r, new) /\ Disjoint(new, r)
    BY <2>1, <1>1, <1>3, <1>7 DEF Disjoint, RegionType
  <2>2. new.from + new.size <= ArenaSize
    BY <1>1, <1>3, ArenaAssumption
  <2>3. QED
    BY <2>1, <2>2, <1>2 DEF GrantsDisjoint, Disjoint
<1>11. GrantsBacked'
  BY <1>1, <1>2, <1>3 DEF GrantsBacked
<1>12. QED
  BY <1>5, <1>6, <1>8, <1>9, <1>10, <1>11

LEMMA AllocInNewArenaIInv ==
  ASSUME IInv, NEW c \in Ctxs, NEW size \in Sizes, AllocInNewArena(c, size)
  PROVE  IInv'
<1>. PICK a \in Arenas :
       NewArena(c, a, size) /\ granted' = granted \cup {Region(c, a, 0, size)}
  BY DEF AllocInNewArena
<1>. DEFINE new == Region(c, a, 0, size)
<1>. USE DEF IInv
<1>1. size \in Nat /\ size <= ArenaSize
  BY ArenaAssumption DEF AllocInNewArena
<1>2. /\ arena' \in [Arenas -> ArenaType]
      /\ heap' \subseteq Arenas
      /\ owner' \in [Arenas -> Ctxs \cup {Null}]
      /\ ctx' \in [Ctxs -> Arenas \cup {Null}]
      /\ arena'[a] = [curr |-> size, next |-> Null, prev |-> ctx[c]]
      /\ \A x \in Arenas \ {a} : arena'[x].curr = arena[x].curr
      /\ \A x \in Arenas \ {a, ctx[c]} : arena'[x] = arena[x]
  BY <1>1, NewArenaType
<1>3. /\ a \notin heap
      /\ heap' = heap \cup {a}
      /\ owner' = [owner EXCEPT ![a] = c]
      /\ ctx' = [ctx EXCEPT ![c] = a]
      /\ granted' = granted \cup {new}
      /\ UNCHANGED <<destroying, curr_arena, exited>>
      /\ destroying = Null
  BY DEF NewArena, AllocInNewArena, Running
<1>4. /\ new \in RegionType
      /\ new.ctx = c /\ new.arena = a /\ new.from = 0 /\ new.size = size
  BY <1>1 DEF Region, RegionType
<1>5. TypeOK'
  BY <1>2, <1>3, <1>4 DEF TypeOK
<1>6. \A d \in Ctxs \ {c} : Live(d) => ctx[d] # ctx[c] /\ ctx[d] # a
  BY <1>3, ArenaAssumption DEF CurrOwned, Live, AllocInNewArena
<1>7. CurrOwned'
  BY <1>2, <1>3, <1>6, ArenaAssumption DEF CurrOwned, Live, TypeOK, ArenaType
<1>8. \A r \in granted : /\ r \in RegionType
                         /\ r.arena \in Arenas \ {a}
                         /\ r.from + r.size <= arena[r.arena].curr
                         /\ r.ctx \in Ctxs /\ Live(r.ctx)
  BY <1>3, ArenaAssumption DEF GrantsBacked, GrantsBelowCurr, TypeOK, RegionType
<1>9. GrantsBelowCurr'
  BY <1>1, <1>2, <1>3, <1>4, <1>8, ArenaAssumption DEF GrantsBelowCurr, Live, TypeOK
<1>10. WalkAtNewest'
  BY <1>3 DEF WalkAtNewest
<1>11. GrantsDisjoint'
  <2>1. ASSUME NEW r \in granted PROVE Disjoint(r, new) /\ Disjoint(new, r)
    BY <2>1, <1>4, <1>8 DEF Disjoint
  <2>2. new.from + new.size <= ArenaSize
    BY <1>1, <1>4
  <2>3. QED
    BY <2>1, <2>2, <1>3 DEF GrantsDisjoint, Disjoint
<1>12. GrantsBacked'
  BY <1>3, <1>4, <1>8 DEF GrantsBacked, TypeOK
<1>13. QED
  BY <1>5, <1>7, <1>9, <1>10, <1>11, <1>12

LEMMA DestroyBeginIInv ==
  ASSUME IInv, NEW c \in Ctxs, DestroyBegin(c)
  PROVE  IInv'
<1>. USE DEF IInv
<1>1. /\ destroying = Null
      /\ destroying' = c
      /\ curr_arena' = ctx[c]
      /\ Live(c)
      /\ c # Null
      /\ UNCHANGED <<heap, owner, arena, ctx, granted, exited>>
  BY ArenaAssumption DEF DestroyBegin, Running
<1>2. TypeOK'
  BY <1>1 DEF TypeOK
<1>3. CurrOwned'
  BY <1>1, ArenaAssumption DEF CurrOwned, Live
<1>4. GrantsBelowCurr' /\ GrantsDisjoint'
  BY <1>1 DEF GrantsBelowCurr, GrantsDisjoint, Disjoint, Live
<1>5. WalkAtNewest'
  BY <1>1, ArenaAssumption DEF WalkAtNewest, CurrOwned, Live
<1>6. GrantsBacked'
  BY <1>1, ArenaAssumption DEF GrantsBacked, TypeOK, RegionType
<1>7. QED
  BY <1>2, <1>3, <1>4, <1>5, <1>6

\* What GrantsBacked, CurrOwned and WalkAtNewest say of the arena being freed.
LEMMA FreedArena ==
  ASSUME IInv, DestroyFree
  PROVE  /\ curr_arena = ctx[destroying]
         /\ curr_arena \in heap
         /\ owner[curr_arena] = destroying
         /\ arena[curr_arena].next = Null
         /\ destroying \in Ctxs
  BY DEF IInv, DestroyFree, WalkAtNewest, CurrOwned, Live, TypeOK

LEMMA DestroyFreeIInv ==
  ASSUME IInv, DestroyFree
  PROVE  IInv'
<1>. USE DEF IInv
<1>1. /\ curr_arena = ctx[destroying]
      /\ owner[curr_arena] = destroying
      /\ heap' = heap \ {curr_arena}
      /\ curr_arena' = Null
      /\ destroying # Null
      /\ UNCHANGED <<owner, arena, ctx, granted, destroying, exited>>
  BY FreedArena DEF DestroyFree
<1>2. TypeOK'
  BY <1>1 DEF TypeOK
<1>3. CurrOwned'
  BY <1>1 DEF CurrOwned, Live
<1>4. GrantsBelowCurr' /\ GrantsDisjoint'
  BY <1>1 DEF GrantsBelowCurr, GrantsDisjoint, Disjoint, Live
<1>5. WalkAtNewest'
  BY <1>1 DEF WalkAtNewest, Live
<1>6. GrantsBacked'
  BY <1>1 DEF GrantsBacked
<1>7. QED
  BY <1>2, <1>3, <1>4, <1>5, <1>6

LEMMA DestroyEndIInv ==
  ASSUME IInv, DestroyEnd
  PROVE  IInv'
<1>. USE DEF IInv
<1>1. /\ destroying \in Ctxs
      /\ ctx' = [ctx EXCEPT ![destroying] = Null]
      /\ granted' = {r \in granted : r.ctx # destroying}
      /\ destroying' = Null
      /\ UNCHANGED <<heap, owner, arena, curr_arena, exited>>
  BY DEF DestroyEnd, TypeOK
<1>2. TypeOK'
  BY <1>1 DEF TypeOK
<1>3. \A c \in Ctxs : Live(c)' => c # destroying /\ Live(c) /\ ctx'[c] = ctx[c]
  BY <1>1 DEF Live, TypeOK
<1>4. CurrOwned'
  BY <1>1, <1>3 DEF CurrOwned
<1>5. \A r \in granted' : r \in granted /\ r.ctx # destroying /\ r.ctx \in Ctxs
  BY <1>1 DEF TypeOK, RegionType
<1>6. GrantsBelowCurr'
  BY <1>1, <1>5 DEF GrantsBelowCurr, Live, TypeOK
<1>7. WalkAtNewest' /\ GrantsDisjoint'
  BY <1>1 DEF WalkAtNewest, GrantsDisjoint, Disjoint
<1>8. GrantsBacked'
  BY <1>1, <1>5 DEF GrantsBacked
<1>9. QED
  BY <1>2, <1>4, <1>6, <1>7, <1>8

-----------------------------------------------------------------------------
LEMMA NextIInv == IInv /\ [Next]_vars => IInv'
<1>. SUFFICES ASSUME IInv, [Next]_vars PROVE IInv'
  OBVIOUS
<1>1. ASSUME NEW c \in Ctxs, CreateCtx(c) PROVE IInv'
  BY <1>1, CreateCtxIInv
<1>2. ASSUME NEW c \in Ctxs, NEW size \in Sizes, AllocHere(c, size) PROVE IInv'
  BY <1>2, AllocHereIInv
<1>3. ASSUME NEW c \in Ctxs, NEW size \in Sizes, AllocInNewArena(c, size)
      PROVE  IInv'
  BY <1>3, AllocInNewArenaIInv
<1>4. ASSUME NEW c \in Ctxs, NEW size \in Sizes, AllocTooLarge(c, size)
      PROVE  IInv'
  <2>1. /\ exited' = TRUE
        /\ UNCHANGED <<heap, owner, arena, ctx, granted, destroying, curr_arena>>
    BY <1>4 DEF AllocTooLarge
  <2>2. TypeOK'
    BY <2>1 DEF IInv, TypeOK
  <2>3. QED
    BY <2>1, <2>2
    DEF IInv, CurrOwned, GrantsBelowCurr, WalkAtNewest, GrantsDisjoint,
        GrantsBacked, Disjoint, Live
<1>5. ASSUME NEW c \in Ctxs, DestroyBegin(c) PROVE IInv'
  BY <1>5, DestroyBeginIInv
<1>6. CASE DestroyFree
  BY <1>6, DestroyFreeIInv
<1>7. CASE DestroyEnd
  BY <1>7, DestroyEndIInv
<1>8. CASE UNCHANGED vars
  BY <1>8
  DEF vars, IInv, TypeOK, CurrOwned, GrantsBelowCurr, WalkAtNewest,
      GrantsDisjoint, GrantsBacked, Disjoint, Live
<1>9. QED
  BY <1>1, <1>2, <1>3, <1>4, <1>5, <1>6, <1>7, <1>8 DEF Next

\* The inductive invariant holds of every state ojit_mem.c reaches.
THEOREM Inductive == Spec => []IInv
<1>1. QED
  BY InitIInv, NextIInv, PTL DEF Spec

\* curr_ptr never passes end_ptr, whatever sizes are asked for.
THEOREM TypeCorrect == Spec => []TypeOK
<1>1. IInv => TypeOK
  BY DEF IInv
<1>2. QED
  BY <1>1, Inductive, PTL

\* ojit_alloc never returns a byte that somebody may still be using.
THEOREM AllocationsDisjoint == Spec => []GrantsDisjoint
<1>1. IInv => GrantsDisjoint
  BY DEF IInv
<1>2. QED
  BY <1>1, Inductive, PTL

\* Destroying a context never frees memory that another context handed out.
THEOREM AllocationsBacked == Spec => []GrantsBacked
<1>1. IInv => GrantsBacked
  BY DEF IInv
<1>2. QED
  BY <1>1, Inductive, PTL

\* destroy_mem_ctx neither frees an arena twice nor frees another context's.
THEOREM DestroyIsSafe == Spec => []DestroyStaysInside
<1>1. IInv => DestroyStaysInside
  <2>1. SUFFICES ASSUME IInv, destroying # Null, curr_arena # Null
                 PROVE  curr_arena \in heap /\ owner[curr_arena] = destroying
    BY DEF DestroyStaysInside
  <2>2. QED
    BY <2>1 DEF IInv, TypeOK, WalkAtNewest, CurrOwned
<1>2. QED
  BY <1>1, Inductive, PTL
=============================================================================
