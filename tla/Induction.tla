------------------------------- MODULE Induction -------------------------------
(***************************************************************************)
(* Induction over the natural numbers in the form the proofs need it: over *)
(* a set of numbers, not over a predicate.  It follows from the library's  *)
(* theorem that < is well-founded on Nat.                                  *)
(***************************************************************************)
EXTENDS Integers, TLAPS, WellFoundedInduction

LessThan == {pair \in Nat \X Nat : pair[1] < pair[2]}

\* Every set of numbers that is not empty has a least one.
LEMMA LeastNumber ==
  ASSUME NEW T \in SUBSET Nat, T # {}
  PROVE  \E n \in T : \A m \in T : n <= m
<1>1. IsWellFoundedOn(LessThan, Nat)
  BY NatLessThanWellFounded DEF OpToRel, LessThan
<1>2. PICK n \in T : \A m \in T : ~(<<m, n>> \in LessThan)
  BY <1>1, WFMin
<1>3. ASSUME NEW m \in T PROVE n <= m
  <2>1. m \in Nat /\ n \in Nat /\ <<m, n>> \in Nat \X Nat
    OBVIOUS
  <2>2. ~(m < n)
    BY <2>1, <1>2 DEF LessThan
  <2>3. QED
    BY <2>1, <2>2
<1>4. QED
  BY <1>3

\* A set that holds 0 and the successor of each of its numbers holds them all.
LEMMA NumbersByInduction ==
  ASSUME NEW T, 0 \in T, \A n \in Nat : n \in T => n + 1 \in T
  PROVE  Nat \subseteq T
<1>1. SUFFICES ASSUME Nat \ T # {} PROVE FALSE
  OBVIOUS
<1>2. PICK n \in Nat \ T : \A m \in Nat \ T : n <= m
  BY <1>1, LeastNumber
<1>3. n # 0 /\ n - 1 \in Nat /\ n - 1 \in T
  BY <1>2
<1>4. QED
  BY <1>2, <1>3

\* The same up to a bound.
LEMMA IntervalByInduction ==
  ASSUME NEW T, NEW len \in Nat, 1 \in T,
         \A n \in 1 .. len - 1 : n \in T => n + 1 \in T
  PROVE  1 .. len \subseteq T
<1>. DEFINE S == {n \in Nat : n \in 1 .. len => n \in T}
<1>1. 0 \in S
  OBVIOUS
<1>2. ASSUME NEW n \in Nat, n \in S PROVE n + 1 \in S
  <2>1. CASE n = 0
    BY <2>1
  <2>2. CASE n # 0 /\ n + 1 \in 1 .. len
    <3>1. n \in 1 .. len - 1 /\ n \in T
      BY <2>2, <1>2
    <3>2. QED
      BY <3>1
  <2>3. QED
    BY <2>1, <2>2
<1>3. Nat \subseteq S
  <2>. HIDE DEF S
  <2>1. QED
    BY <1>1, <1>2, NumbersByInduction
<1>4. QED
  BY <1>3

\* Strong induction: what holds of a member of S when it holds of those before
\* it, holds of all of them.
Inherited(S, T) == \A i \in S : (\A j \in S : j < i => j \in T) => i \in T

LEMMA StrongInduction ==
  ASSUME NEW S \in SUBSET Nat, NEW T, Inherited(S, T)
  PROVE  S \subseteq T
<1>1. SUFFICES ASSUME S \ T # {} PROVE FALSE
  OBVIOUS
<1>2. PICK n \in S \ T : \A m \in S \ T : n <= m
  BY <1>1, LeastNumber
<1>3. \A j \in S : j < n => j \in T
  BY <1>2
<1>4. QED
  BY <1>2, <1>3 DEF Inherited

-----------------------------------------------------------------------------
(***************************************************************************)
(* Recursive functions: what is defined in terms of what comes before has  *)
(* a solution.                                                             *)
(***************************************************************************)
\* next[f][i] depends on f before i only.
Causal(next, len, V) ==
  \A g, h \in [1 .. len -> V] : \A i \in 1 .. len :
    (\A j \in 1 .. i - 1 : g[j] = h[j]) => next[g][i] = next[h][i]

\* Such a definition of f has a solution.
Fixpoint(F, next) == \E f \in F : f = next[f]

LEMMA CausalFixpoint ==
  ASSUME NEW len \in Nat, NEW V, NEW v \in V, NEW F, F = [1 .. len -> V],
         NEW next \in [F -> F], Causal(next, len, V)
  PROVE  Fixpoint(F, next)
<1>. DEFINE Until(f, n) == \A i \in 1 .. len : i <= n => f[i] = next[f][i]
            T == {n \in Nat : \E f \in F : Until(f, n)}
<1>1. 0 \in T
  <2>1. [i \in 1 .. len |-> v] \in F
    OBVIOUS
  <2>2. Until([i \in 1 .. len |-> v], 0)
    OBVIOUS
  <2>3. QED
    BY <2>1, <2>2
<1>2. ASSUME NEW n \in Nat, n \in T PROVE n + 1 \in T
  <2>1. PICK f \in F : Until(f, n)
    BY <1>2
  <2>2. PICK g \in F : g = next[f]
    OBVIOUS
  <2>3. ASSUME NEW i \in 1 .. len, i <= n + 1 PROVE g[i] = next[g][i]
    <3>1. \A j \in 1 .. i - 1 : j \in 1 .. len /\ j <= n
      BY <2>3
    <3>2. \A j \in 1 .. i - 1 : g[j] = f[j]
      BY <3>1, <2>1, <2>2
    <3>3. QED
      BY <3>2, <2>2 DEF Causal
  <2>4. QED
    BY <2>3
<1>3. Nat \subseteq T
  <2>. HIDE DEF T
  <2>1. QED
    BY <1>1, <1>2, NumbersByInduction
<1>4. PICK f \in F : Until(f, len)
  BY <1>3
<1>5. next[f] \in F /\ \A i \in 1 .. len : f[i] = next[f][i]
  BY <1>4
<1>6. QED
  BY <1>4, <1>5 DEF Fixpoint

\* So has a definition by recursion from 0.
Iterated(n, V, a, step) ==
  \E f \in [0 .. n -> V] : f[0] = a /\ \A i \in 1 .. n : f[i] = step[i][f[i - 1]]

LEMMA Iterates ==
  ASSUME NEW n \in Nat, NEW V, NEW a \in V, NEW step \in [1 .. n -> [V -> V]]
  PROVE  Iterated(n, V, a, step)
<1>. DEFINE Until(f, m) == f[0] = a /\ \A i \in 1 .. m : f[i] = step[i][f[i - 1]]
            T == {m \in Nat : m <= n => \E f \in [0 .. n -> V] : Until(f, m)}
<1>1. 0 \in T
  <2>1. PICK f : f = [i \in 0 .. n |-> a]
    OBVIOUS
  <2>2. f \in [0 .. n -> V] /\ Until(f, 0)
    BY <2>1
  <2>3. QED
    BY <2>2
<1>2. ASSUME NEW m \in Nat, m \in T PROVE m + 1 \in T
  <2>1. SUFFICES ASSUME m + 1 <= n PROVE \E f \in [0 .. n -> V] : Until(f, m + 1)
    OBVIOUS
  <2>2. PICK f \in [0 .. n -> V] : Until(f, m)
    BY <1>2, <2>1
  <2>3. f[m] \in V /\ m + 1 \in 1 .. n
    BY <2>1
  <2>4. PICK x \in V : x = step[m + 1][f[m]]
    BY <2>3
  <2>5. PICK g : g = [f EXCEPT ![m + 1] = x]
    OBVIOUS
  <2>6. /\ g \in [0 .. n -> V] /\ g[m + 1] = x
        /\ \A i \in 0 .. n : i # m + 1 => g[i] = f[i]
    BY <2>5, <2>3
  <2>7. g[0] = a
    BY <2>2, <2>6
  <2>8. ASSUME NEW i \in 1 .. m + 1 PROVE g[i] = step[i][g[i - 1]]
    <3>1. i - 1 \in 0 .. n /\ i - 1 # m + 1
      BY <2>1
    <3>2. g[i - 1] = f[i - 1]
      BY <2>6, <3>1
    <3>3. CASE i = m + 1
      BY <2>4, <2>6, <3>2, <3>3
    <3>4. CASE i # m + 1
      <4>1. i \in 1 .. m /\ i \in 0 .. n
        BY <2>1, <3>4
      <4>2. QED
        BY <2>2, <2>6, <3>2, <3>4, <4>1
    <3>5. QED
      BY <3>3, <3>4
  <2>9. QED
    BY <2>6, <2>7, <2>8
<1>3. Nat \subseteq T
  <2>. HIDE DEF T
  <2>1. QED
    BY <1>1, <1>2, NumbersByInduction
<1>4. PICK f \in [0 .. n -> V] : Until(f, n)
  BY <1>3
<1>5. QED
  BY <1>4 DEF Iterated

================================================================================
