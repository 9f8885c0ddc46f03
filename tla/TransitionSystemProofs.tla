------------------------ MODULE TransitionSystemProofs ------------------------
(***************************************************************************)
(* Lemmas about the operators of TransitionSystem that the proofs about    *)
(* the engines rest on: what kernel::transition answers, what is           *)
(* reachable, and what is reachable within a number of steps.              *)
(***************************************************************************)
EXTENDS TransitionSystem, FiniteSetTheorems, WellFoundedInduction, TLAPS

(* Every non-empty set of natural numbers has a least element.             *)
LEMMA LeastNumber ==
  ASSUME NEW T \in SUBSET Nat, T # {}
  PROVE  \E n \in T : \A k \in T : n <= k
<1> DEFINE B == {0..n : n \in T}
<1>1. B \subseteq FiniteSubsetsOf(Nat) /\ B # {}
  <2>1. \A n \in T : IsFiniteSet(0..n) /\ 0..n \subseteq Nat
    BY FS_Interval
  <2> QED BY <2>1 DEF FiniteSubsetsOf
<1>2. PICK b \in B : \A c \in B : <<c, b>> \notin StrictSubsetOrdering(Nat)
  BY <1>1, FS_StrictSubsetOrderingWellFounded, WFMin
<1>3. PICK n \in T : b = 0..n
  BY <1>2
<1>4. ASSUME NEW k \in T, k < n PROVE FALSE
  <2>1. 0..k \in B /\ 0..k \subseteq 0..n /\ n \in 0..n /\ n \notin 0..k
    BY <1>4
  <2>2. <<0..k, 0..n>> \in StrictSubsetOrdering(Nat)
    BY <2>1 DEF StrictSubsetOrdering
  <2> QED BY <1>2, <1>3, <2>1, <2>2
<1>5. \A k \in T : n <= k
  BY <1>4
<1> QED BY <1>5

(* Induction: a set with 0 and the successor of each member is Nat.        *)
LEMMA InductionInSetForm ==
  ASSUME NEW T \in SUBSET Nat, 0 \in T, \A n \in T : n + 1 \in T
  PROVE  T = Nat
<1> SUFFICES ASSUME T # Nat PROVE FALSE
  OBVIOUS
<1>1. Nat \ T # {} /\ Nat \ T \in SUBSET Nat
  OBVIOUS
<1>2. PICK n \in Nat \ T : \A k \in Nat \ T : n <= k
  BY <1>1, LeastNumber
<1>3. n # 0 /\ n - 1 \in Nat /\ ~(n <= n - 1) /\ (n - 1) + 1 = n
  BY <1>2
<1>4. n - 1 \in T
  BY <1>2, <1>3
<1> QED BY <1>2, <1>3, <1>4

(* f runs through k steps of g, each within S.                             *)
Iterates(k, S, base, g, f) ==
  f \in [0..k -> S] /\ f[0] = base /\ \A n \in 1..k : f[n] = g[n][f[n - 1]]

(* A step function can be iterated any number of times.                    *)
LEMMA IterationExists ==
  ASSUME NEW k \in Nat, NEW S, NEW base \in S,
         NEW g, \A n \in 1..k : \A s \in S : g[n][s] \in S
  PROVE  \E f : Iterates(k, S, base, g, f)
<1> DEFINE T == {n \in Nat : n <= k => \E f : Iterates(n, S, base, g, f)}
<1> USE DEF Iterates
<1>1. 0 \in T
  <2> DEFINE f == [n \in 0..0 |-> base]
  <2>1. Iterates(0, S, base, g, f)
    OBVIOUS
  <2> QED BY <2>1
<1>2. ASSUME NEW n \in T PROVE n + 1 \in T
  <2> SUFFICES ASSUME n + 1 <= k PROVE \E f : Iterates(n + 1, S, base, g, f)
    OBVIOUS
  <2> PICK f : Iterates(n, S, base, g, f)
    OBVIOUS
  <2> DEFINE next == g[n + 1][f[n]]
             h == [i \in 0..(n + 1) |-> IF i = n + 1 THEN next ELSE f[i]]
  <2>1. n + 1 \in 1..k /\ f[n] \in S /\ next \in S
    OBVIOUS
  <2>2. h \in [0..(n + 1) -> S] /\ h[0] = base
    BY <2>1
  <2>3. ASSUME NEW i \in 1..(n + 1) PROVE h[i] = g[i][h[i - 1]]
    <3>1. CASE i = n + 1
      <4>1. h[i] = next /\ i - 1 = n /\ h[i - 1] = f[n]
        BY <3>1
      <4> QED BY <3>1, <4>1
    <3>2. CASE i # n + 1
      <4>1. i \in 1..n /\ h[i] = f[i] /\ h[i - 1] = f[i - 1]
        BY <3>2
      <4> HIDE DEF h
      <4> QED BY <4>1
    <3> QED BY <3>1, <3>2
  <2> HIDE DEF h
  <2> QED BY <2>2, <2>3
<1>3. T = Nat
  <2> HIDE DEF T
  <2>1. T \in SUBSET Nat
    BY DEF T
  <2> QED BY <1>1, <1>2, <2>1, InductionInSetForm
<1> QED BY <1>3

(* What Within builds, ring by ring.                                       *)
IsRings(m, k, f) ==
  f = [n \in 0..k |->
         IF n = 0 THEN {m.init}
         ELSE f[n - 1] \cup UNION {Successors(m, s) : s \in f[n - 1]}]

(* There are such rings, as many as are asked for.                         *)
LEMMA RingsExist ==
  ASSUME NEW m, NEW k \in Nat
  PROVE  \E f : IsRings(m, k, f)
<1> DEFINE T == {n \in Nat : \E f : IsRings(m, n, f)}
<1>1. 0 \in T
  <2> DEFINE f == [n \in 0..0 |-> {m.init}]
  <2>1. \A n \in 0..0 : n = 0
    OBVIOUS
  <2>2. IsRings(m, 0, f)
    BY <2>1 DEF IsRings
  <2> QED BY <2>2
<1>2. ASSUME NEW n \in T PROVE n + 1 \in T
  <2> PICK f : IsRings(m, n, f)
    OBVIOUS
  <2> DEFINE next == f[n] \cup UNION {Successors(m, s) : s \in f[n]}
             g == [j \in 0..(n + 1) |-> IF j = n + 1 THEN next ELSE f[j]]
  <2>1. \A j \in 0..n :
          f[j] = IF j = 0 THEN {m.init}
                 ELSE f[j - 1] \cup UNION {Successors(m, s) : s \in f[j - 1]}
    BY DEF IsRings
  <2>2. ASSUME NEW j \in 0..(n + 1)
        PROVE  g[j] = IF j = 0 THEN {m.init}
                      ELSE g[j - 1] \cup UNION {Successors(m, s) : s \in g[j - 1]}
    <3>1. CASE j = n + 1
      <4>1. g[j] = next /\ j # 0 /\ j - 1 = n /\ g[j - 1] = f[n]
        BY <3>1
      <4> QED BY <4>1
    <3>2. CASE j \in 0..n
      <4>1. g[j] = f[j] /\ (j # 0 => g[j - 1] = f[j - 1])
        BY <3>2
      <4> HIDE DEF g
      <4> QED BY <2>1, <3>2, <4>1
    <3> QED BY <3>1, <3>2
  <2>3. IsRings(m, n + 1, g)
    BY <2>2 DEF IsRings
  <2> QED BY <2>3
<1>3. T = Nat
  <2> HIDE DEF T
  <2>1. T \in SUBSET Nat
    BY DEF T
  <2> QED BY <1>1, <1>2, <2>1, InductionInSetForm
<1> QED BY <1>3

(* ... and where two of them overlap, they agree.                          *)
LEMMA RingsUnique ==
  ASSUME NEW m, NEW k \in Nat, NEW j \in Nat, NEW f, NEW g,
         IsRings(m, k, f), IsRings(m, j, g), NEW n \in 0..k, n <= j
  PROVE  f[n] = g[n]
<1> DEFINE T == {i \in Nat : i <= k /\ i <= j => f[i] = g[i]}
<1>1. 0 \in T
  BY DEF IsRings
<1>2. ASSUME NEW i \in T PROVE i + 1 \in T
  <2> SUFFICES ASSUME i + 1 <= k, i + 1 <= j PROVE f[i + 1] = g[i + 1]
    OBVIOUS
  <2>1. f[i] = g[i] /\ i + 1 # 0 /\ (i + 1) - 1 = i /\ i + 1 \in 0..k /\ i + 1 \in 0..j
    OBVIOUS
  <2>2. f[i + 1] = f[i] \cup UNION {Successors(m, s) : s \in f[i]}
    BY <2>1 DEF IsRings
  <2>3. g[i + 1] = g[i] \cup UNION {Successors(m, s) : s \in g[i]}
    BY <2>1 DEF IsRings
  <2> QED BY <2>1, <2>2, <2>3
<1>3. T = Nat
  <2> HIDE DEF T
  <2>1. T \in SUBSET Nat
    BY DEF T
  <2> QED BY <1>1, <1>2, <2>1, InductionInSetForm
<1> QED BY <1>3

(* Within is the last of its rings.                                        *)
LEMMA WithinIsRings ==
  ASSUME NEW m, NEW k \in Nat
  PROVE  \E f : IsRings(m, k, f) /\ Within(m, k) = f[k]
<1> DEFINE ring == CHOOSE f : IsRings(m, k, f)
<1>1. IsRings(m, k, ring)
  BY RingsExist
<1>2. Within(m, k) = ring[k]
  BY DEF Within, IsRings
<1> QED BY <1>1, <1>2

(* The states within no step, and within one step more.                    *)
LEMMA WithinZero ==
  ASSUME NEW m
  PROVE  Within(m, 0) = {m.init}
<1> PICK f : IsRings(m, 0, f) /\ Within(m, 0) = f[0]
  BY WithinIsRings
<1> QED BY DEF IsRings

(* One step more adds the successors.                                      *)
LEMMA WithinNext ==
  ASSUME NEW m, NEW k \in Nat
  PROVE  Within(m, k + 1) = Within(m, k) \cup UNION {Successors(m, s) : s \in Within(m, k)}
<1> PICK f : IsRings(m, k, f) /\ Within(m, k) = f[k]
  BY WithinIsRings
<1> PICK g : IsRings(m, k + 1, g) /\ Within(m, k + 1) = g[k + 1]
  BY WithinIsRings
<1>1. g[k] = f[k]
  BY RingsUnique
<1>2. k + 1 \in 0..(k + 1) /\ k + 1 # 0 /\ (k + 1) - 1 = k
  OBVIOUS
<1>3. g[k + 1] = g[k] \cup UNION {Successors(m, s) : s \in g[k]}
  BY <1>2 DEF IsRings
<1> QED BY <1>1, <1>3

(* More steps reach no less.                                               *)
LEMMA WithinGrows ==
  ASSUME NEW m, NEW k \in Nat, NEW j \in 0..k
  PROVE  Within(m, j) \subseteq Within(m, k)
<1> DEFINE T == {n \in Nat : n >= j => Within(m, j) \subseteq Within(m, n)}
<1>1. 0 \in T
  OBVIOUS
<1>2. ASSUME NEW n \in T PROVE n + 1 \in T
  <2>1. Within(m, n) \subseteq Within(m, n + 1)
    BY WithinNext
  <2>2. n + 1 >= j => n + 1 = j \/ n >= j
    OBVIOUS
  <2> QED BY <2>1, <2>2
<1>3. T = Nat
  <2> HIDE DEF T
  <2>1. T \in SUBSET Nat
    BY DEF T
  <2> QED BY <1>1, <1>2, <2>1, InductionInSetForm
<1> QED BY <1>3

(* A search that has followed every step from the rings below bound knows  *)
(* the states within bound.                                                *)
LEMMA WithinCovered ==
  ASSUME NEW m, NEW bound \in Nat, NEW V, m.init \in V,
         \A j \in Nat : j < bound => \A s \in Within(m, j) : Successors(m, s) \subseteq V
  PROVE  \A j \in 0..bound : Within(m, j) \subseteq V
<1> DEFINE T == {n \in Nat : n <= bound => Within(m, n) \subseteq V}
<1>1. 0 \in T
  BY WithinZero
<1>2. ASSUME NEW n \in T PROVE n + 1 \in T
  <2> SUFFICES ASSUME n + 1 <= bound PROVE Within(m, n + 1) \subseteq V
    OBVIOUS
  <2>1. n < bound /\ Within(m, n) \subseteq V
    OBVIOUS
  <2>2. Within(m, n + 1) = Within(m, n) \cup UNION {Successors(m, s) : s \in Within(m, n)}
    BY WithinNext
  <2> QED BY <2>1, <2>2
<1>3. T = Nat
  <2> HIDE DEF T
  <2>1. T \in SUBSET Nat
    BY DEF T
  <2> QED BY <1>1, <1>2, <2>1, InductionInSetForm
<1> QED BY <1>3

-------------------------------------------------------------------------------
(* What kernel::transition answers for a state of the model.               *)
LEMMA ApplyType ==
  ASSUME NEW m \in ModelType, NEW s \in States, NEW x \in Actions
  PROVE  ApplyAction(m, s, x) \in States \cup {Disabled, Fault}
BY DEF ApplyAction, ModelType

(* A model starts in a state it can reach.                                 *)
LEMMA InitialNode ==
  ASSUME NEW m \in ModelType
  PROVE  m.init \in States /\ m.init \in Reachable(m)
BY DEF ModelType, Reachable, Closed

(* Reachable is closed under the steps of the model.                       *)
LEMMA ReachableStep ==
  ASSUME NEW m \in ModelType, NEW s \in Reachable(m), NEW x \in Actions,
         ApplyAction(m, s, x) \in States
  PROVE  ApplyAction(m, s, x) \in Reachable(m)
<1>1. ApplyAction(m, s, x) \in Successors(m, s)
  BY DEF Successors
<1>2. ASSUME NEW C \in SUBSET States, Closed(m, C)
      PROVE  ApplyAction(m, s, x) \in C
  BY <1>1, <1>2 DEF Reachable, Closed
<1> QED BY <1>2 DEF Reachable

(* Every set closed under the steps of the model holds what is reachable.  *)
LEMMA ClosedCoversReachable ==
  ASSUME NEW m \in ModelType, NEW C \in SUBSET States, Closed(m, C)
  PROVE  Reachable(m) \subseteq C
BY DEF Reachable

(* The rings hold the reachable states, and nothing else.                  *)
LEMMA WithinReachable ==
  ASSUME NEW m \in ModelType, NEW k \in Nat
  PROVE  Within(m, k) \subseteq Reachable(m)
<1> DEFINE T == {n \in Nat : Within(m, n) \subseteq Reachable(m)}
<1>1. 0 \in T
  BY WithinZero, InitialNode
<1>2. ASSUME NEW n \in T PROVE n + 1 \in T
  <2>1. \A s \in Within(m, n) : Successors(m, s) \subseteq Reachable(m)
    BY ReachableStep DEF Successors
  <2> QED BY <2>1, WithinNext
<1>3. T = Nat
  <2> HIDE DEF T
  <2>1. T \in SUBSET Nat
    BY DEF T
  <2> QED BY <1>1, <1>2, <2>1, InductionInSetForm
<1> QED BY <1>3

(* What is reachable is reachable in some number of steps.                 *)
LEMMA ReachableWithin ==
  ASSUME NEW m \in ModelType, NEW s \in Reachable(m)
  PROVE  \E k \in Nat : s \in Within(m, k)
<1> DEFINE C == UNION {Within(m, k) : k \in Nat}
<1>1. C \in SUBSET States
  BY WithinReachable DEF Reachable
<1>2. m.init \in C
  <2>1. m.init \in Within(m, 0)
    BY WithinZero
  <2> QED BY <2>1
<1>3. ASSUME NEW c \in C PROVE Successors(m, c) \subseteq C
  <2> PICK k \in Nat : c \in Within(m, k)
    OBVIOUS
  <2>1. Successors(m, c) \subseteq Within(m, k + 1) /\ k + 1 \in Nat
    BY WithinNext
  <2> HIDE DEF C
  <2>2. Within(m, k + 1) \subseteq C
    BY <2>1 DEF C
  <2> QED BY <2>1, <2>2
<1>4. Closed(m, C)
  BY <1>2, <1>3 DEF Closed
<1>5. Reachable(m) \subseteq C
  <2> HIDE DEF C
  <2> QED BY <1>1, <1>4, ClosedCoversReachable
<1> QED BY <1>5
===============================================================================
