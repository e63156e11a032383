------------------------------ MODULE MemArena ------------------------------
(***************************************************************************)
(* The memory contexts of ojit_mem.c.  A context hands out zeroed memory   *)
(* from its newest arena by moving curr_ptr up, and takes a new arena from *)
(* malloc when the current one has no room.  Everything the compiler and   *)
(* the parser allocate comes from a context, and is given back only when   *)
(* the context is destroyed.                                               *)
(*                                                                         *)
(* destroy_mem_ctx is a loop, so it is modelled by one action per free:    *)
(* its local curr_arena and its parameter ctx are curr_arena, destroying.  *)
(***************************************************************************)
EXTENDS Integers, FiniteSets

CONSTANTS
  Ctxs,       \* the addresses malloc may return for a struct s_OJITMemCtx
  Arenas,     \* the addresses malloc may return for a MemArena
  ArenaSize,  \* OJIT_ARENA_SIZE
  Sizes,      \* the sizes callers ask for
  Null        \* the NULL pointer

ASSUME ArenaAssumption ==
  /\ ArenaSize \in Nat \ {0}
  /\ Sizes \subseteq Nat
  /\ Null \notin Arenas \cup Ctxs

VARIABLES
  heap,        \* the arenas malloc has handed out and free has not taken back
  owner,       \* history: the context an arena was last allocated for
  arena,       \* [Arenas -> [curr, next, prev]], meaningful for those in heap
  ctx,         \* [Ctxs -> curr_arena of a live context, Null for a dead one]
  granted,     \* history: the regions returned to callers of live contexts
  destroying,  \* the context destroy_mem_ctx is looping over, or Null
  curr_arena,  \* that loop's curr_arena
  exited       \* ojit_alloc refused a request and called exit(-1)

vars == <<heap, owner, arena, ctx, granted, destroying, curr_arena, exited>>

\* The program is single threaded: nothing runs while destroy_mem_ctx loops.
Running == destroying = Null /\ ~exited
Live(c) == ctx[c] # Null

Region(c, a, from, size) == [ctx |-> c, arena |-> a, from |-> from, size |-> size]

Linked(c, a) ==
  LET old == ctx[c]
      fresh == [curr |-> 0, next |-> Null, prev |-> old]
  IN  [x \in Arenas |->
         IF x = a THEN fresh
         ELSE IF x = old THEN [arena[x] EXCEPT !.next = a]
         ELSE arena[x]]

\* Mutant: the arena that is full goes back to malloc.
NewArenaRecycling(c, a, size) ==
  /\ a \in Arenas \ heap
  /\ heap' = (heap \ {ctx[c]}) \cup {a}
  /\ owner' = [owner EXCEPT ![a] = c]
  /\ arena' = [Linked(c, a) EXCEPT ![a].curr = size]
  /\ ctx' = [ctx EXCEPT ![c] = a]

\* mem_ctx_new_arena with malloc returning a, and curr_ptr moved up by size.
NewArena(c, a, size) ==
  /\ a \in Arenas \ heap
  /\ heap' = heap \cup {a}
  /\ owner' = [owner EXCEPT ![a] = c]
  /\ arena' = [Linked(c, a) EXCEPT ![a].curr = size]
  /\ ctx' = [ctx EXCEPT ![c] = a]

-----------------------------------------------------------------------------
Init ==
  /\ heap = {}
  /\ owner = [a \in Arenas |-> Null]
  /\ arena = [a \in Arenas |-> [curr |-> 0, next |-> Null, prev |-> Null]]
  /\ ctx = [c \in Ctxs |-> Null]
  /\ granted = {}
  /\ destroying = Null
  /\ curr_arena = Null
  /\ exited = FALSE

CreateCtx(c) ==
  /\ Running
  /\ ~Live(c)
  /\ \E a \in Arenas : NewArena(c, a, 0)
  /\ UNCHANGED <<granted, destroying, curr_arena, exited>>

\* Mutant: the test leaves out the size of the request.
FitsAnything(c, size) == arena[ctx[c]].curr < ArenaSize

\* The test is ">=": a request that would fill the arena exactly goes to a
\* fresh one, which it may then fill to end_ptr.
Fits(c, size) == arena[ctx[c]].curr + size < ArenaSize

\* Mutant: curr_ptr stays where it is.
AllocInPlace(c, size) ==
  /\ Running
  /\ Live(c)
  /\ size <= ArenaSize
  /\ Fits(c, size)
  /\ granted' = granted \cup {Region(c, ctx[c], arena[ctx[c]].curr, size)}
  /\ UNCHANGED <<heap, owner, arena, ctx, destroying, curr_arena, exited>>

AllocHere(c, size) ==
  /\ Running
  /\ Live(c)
  /\ size <= ArenaSize
  /\ Fits(c, size)
  /\ granted' = granted \cup {Region(c, ctx[c], arena[ctx[c]].curr, size)}
  /\ arena' = [arena EXCEPT ![ctx[c]].curr = @ + size]
  /\ UNCHANGED <<heap, owner, ctx, destroying, curr_arena, exited>>

AllocInNewArena(c, size) ==
  /\ Running
  /\ Live(c)
  /\ size <= ArenaSize
  /\ ~Fits(c, size)
  /\ \E a \in Arenas : /\ NewArena(c, a, size)
                       /\ granted' = granted \cup {Region(c, a, 0, size)}
  /\ UNCHANGED <<destroying, curr_arena, exited>>

AllocTooLarge(c, size) ==
  /\ Running
  /\ Live(c)
  /\ size > ArenaSize
  /\ exited' = TRUE
  /\ UNCHANGED <<heap, owner, arena, ctx, granted, destroying, curr_arena>>

DestroyBegin(c) ==
  /\ Running
  /\ Live(c)
  /\ destroying' = c
  /\ curr_arena' = ctx[c]
  /\ UNCHANGED <<heap, owner, arena, ctx, granted, exited>>

\* Mutant: the loop frees the arena it stands on and stays there.
DestroyFreeAgain ==
  /\ destroying # Null
  /\ curr_arena # Null
  /\ heap' = heap \ {curr_arena}
  /\ UNCHANGED <<owner, arena, ctx, granted, destroying, curr_arena, exited>>

DestroyFree ==
  /\ destroying # Null
  /\ curr_arena # Null
  /\ heap' = heap \ {curr_arena}
  /\ curr_arena' = arena[curr_arena].next
  /\ UNCHANGED <<owner, arena, ctx, granted, destroying, exited>>

DestroyEnd ==
  /\ destroying # Null
  /\ curr_arena = Null
  /\ ctx' = [ctx EXCEPT ![destroying] = Null]
  /\ granted' = {r \in granted : r.ctx # destroying}
  /\ destroying' = Null
  /\ UNCHANGED <<heap, owner, arena, curr_arena, exited>>

Next ==
  \/ \E c \in Ctxs :
       \/ CreateCtx(c)
       \/ \E size \in Sizes : \/ AllocHere(c, size)
                              \/ AllocInNewArena(c, size)
                              \/ AllocTooLarge(c, size)
       \/ DestroyBegin(c)
  \/ DestroyFree
  \/ DestroyEnd

Spec == Init /\ [][Next]_vars

-----------------------------------------------------------------------------
ArenaType ==
  [curr : 0 .. ArenaSize, next : Arenas \cup {Null}, prev : Arenas \cup {Null}]
RegionType == [ctx : Ctxs, arena : Arenas, from : Nat, size : Nat]

\* Type invariant: curr_ptr never passes end_ptr.
TypeOK ==
  /\ heap \subseteq Arenas
  /\ owner \in [Arenas -> Ctxs \cup {Null}]
  /\ arena \in [Arenas -> ArenaType]
  /\ ctx \in [Ctxs -> Arenas \cup {Null}]
  /\ granted \subseteq RegionType
  /\ destroying \in Ctxs \cup {Null}
  /\ curr_arena \in Arenas \cup {Null}
  /\ exited \in BOOLEAN

Disjoint(r, q) ==
  r.arena = q.arena => r.from + r.size <= q.from \/ q.from + q.size <= r.from

\* No byte belongs to two live allocations, of one context or of two, and none
\* is past the end of its arena: what ojit_alloc zeroes and returns was never
\* handed to anybody who may still use it.
GrantsDisjoint ==
  \A r \in granted :
    /\ r.from + r.size <= ArenaSize
    /\ \A q \in granted : r # q => Disjoint(r, q)

\* Memory stays allocated as long as the context it came from: destroying one
\* context (the parser's or a compilation's) never frees an arena of another
\* (the strings, the IR), although malloc reuses addresses.
GrantsBacked ==
  \A r \in granted :
    r.ctx # destroying => r.arena \in heap /\ owner[r.arena] = r.ctx

\* destroy_mem_ctx frees an arena once, reads next_arena of allocated memory
\* only, and never follows it into an arena of a live context.
DestroyStaysInside ==
  destroying # Null /\ curr_arena # Null =>
    curr_arena \in heap /\ owner[curr_arena] = destroying

=============================================================================
