----------------------------- MODULE Induction ------------------------------
(***************************************************************************)
(* Induction and recursion over a range of numbers, in terms of sets and   *)
(* functions: the provers cannot instantiate theorems about a predicate    *)
(* P(_), but they can instantiate a theorem about the set of the numbers   *)
(* that have a property.                                                   *)
(***************************************************************************)
EXTENDS Integers, FiniteSetTheorems, WellFoundedInduction, TLAPS

\* A set of numbers has a least element.  The numbers are compared through
\* the intervals below them, whose strict inclusion is well-founded.
LEMMA LeastNumber ==
  ASSUME NEW T \in SUBSET Nat, T # {}
  PROVE  \E m \in T : \A k \in T : m <= k
  <1> DEFINE B == {1 .. k : k \in T}
  <1>1. B \subseteq FiniteSubsetsOf(Nat)
    <2>1. \A k \in T : IsFiniteSet(1 .. k)
      BY FS_Interval
    <2> QED
      BY <2>1 DEF FiniteSubsetsOf
  <1>2. PICK b \in B : \A c \in B : <<c, b>> \notin StrictSubsetOrdering(Nat)
    <2>1. B # {}
      OBVIOUS
    <2> QED
      BY <1>1, <2>1, FS_StrictSubsetOrderingWellFounded, WFMin
  <1>3. PICK m \in T : b = 1 .. m
    BY <1>2
  <1>4. ASSUME NEW k \in T, k < m PROVE FALSE
    <2>1. 1 .. k \subseteq 1 .. m /\ m \in 1 .. m /\ m \notin 1 .. k
      BY <1>4
    <2>2. <<1 .. k, 1 .. m>> \in StrictSubsetOrdering(Nat)
      BY <2>1 DEF StrictSubsetOrdering
    <2> QED
      BY <1>2, <1>3, <2>2
  <1> QED
    BY <1>4

\* What holds of 0, and of each number with its predecessor, holds of all.
LEMMA Induction ==
  ASSUME NEW N \in Nat, NEW S \in SUBSET (0 .. N),
         0 \in S, \A i \in 1 .. N : i - 1 \in S => i \in S
  PROVE  S = 0 .. N
  <1> SUFFICES ASSUME S # 0 .. N PROVE FALSE
    OBVIOUS
  <1> DEFINE T == (0 .. N) \ S
  <1>1. PICK m \in T : \A k \in T : m <= k
    <2>1. T \in SUBSET Nat /\ T # {}
      <3>1. S \subseteq 0 .. N /\ 0 .. N \subseteq Nat
        OBVIOUS
      <3> QED
        BY <3>1
    <2> QED
      BY <2>1, LeastNumber
  <1>2. m \in 1 .. N /\ m - 1 \notin T
    BY <1>1
  <1>3. m - 1 \in S
    BY <1>2
  <1> QED
    BY <1>2, <1>3

\* There is a function with the value v for 0 and the steps of G.
HasRecursion(N, V, v, G) ==
    \E F \in [0 .. N -> V] : F[0] = v /\ \A i \in 1 .. N : F[i] = G[i][F[i - 1]]

\* A function of the numbers up to N may be defined by its value for 0 and
\* by steps from each number to the next, which G[i] takes from i - 1 to i.
LEMMA Recursion ==
  ASSUME NEW N \in Nat, NEW V, NEW v \in V, NEW G \in [1 .. N -> [V -> V]]
  PROVE  HasRecursion(N, V, v, G)
  <1> DEFINE Upto(n, F) == F[0] = v /\ \A i \in 1 .. n : F[i] = G[i][F[i - 1]]
             S == {n \in 0 .. N : \E F \in [0 .. n -> V] : Upto(n, F)}
  <1>1. 0 \in S
    <2> DEFINE H == [i \in 0 .. 0 |-> v]
    <2>1. H \in [0 .. 0 -> V] /\ Upto(0, H)
      OBVIOUS
    <2>2. \E F \in [0 .. 0 -> V] : Upto(0, F)
      <3> HIDE DEF H, Upto
      <3> QED
        BY <2>1
    <2> QED
      BY <2>2
  <1>2. ASSUME NEW n \in 1 .. N, n - 1 \in S PROVE n \in S
    <2>1. PICK F \in [0 .. n - 1 -> V] : Upto(n - 1, F)
      BY <1>2
    <2> DEFINE H == [i \in 0 .. n |-> IF i = n THEN G[n][F[n - 1]] ELSE F[i]]
    <2>2. H \in [0 .. n -> V]
      <3>1. G[n][F[n - 1]] \in V /\ \A i \in 0 .. n - 1 : F[i] \in V
        OBVIOUS
      <3>2. \A i \in 0 .. n : i = n \/ i \in 0 .. n - 1
        OBVIOUS
      <3> QED
        BY <3>1, <3>2
    <2>3. \A i \in 0 .. n - 1 : H[i] = F[i]
      OBVIOUS
    <2>4. H[n] = G[n][H[n - 1]]
      OBVIOUS
    <2>5. Upto(n, H)
      BY <2>1, <2>3, <2>4
    <2>6. \E E \in [0 .. n -> V] : Upto(n, E)
      <3> HIDE DEF H, Upto
      <3> QED
        BY <2>2, <2>5
    <2> QED
      BY <2>6
  <1>3. S = 0 .. N
    <2> HIDE DEF S
    <2>1. S \in SUBSET (0 .. N)
      BY DEF S
    <2> QED
      BY <1>1, <1>2, <2>1, Induction
  <1>4. \E F \in [0 .. N -> V] : Upto(N, F)
    <2>1. N \in S
      <3> HIDE DEF S
      <3> QED
        BY <1>3
    <2> HIDE DEF Upto
    <2> QED
      BY <2>1
  <1> QED
    BY <1>4 DEF HasRecursion

\* A function that takes such steps as long as its values are in V has all of
\* them in V.
LEMMA RecursionType ==
  ASSUME NEW N \in Nat, NEW V, NEW g, g = [i \in 0 .. N |-> g[i]],
         g[0] \in V, \A i \in 1 .. N : g[i - 1] \in V => g[i] \in V
  PROVE  g \in [0 .. N -> V]
  <1> DEFINE S == {i \in 0 .. N : g[i] \in V}
  <1>1. S = 0 .. N
    <2>1. S \in SUBSET (0 .. N) /\ 0 \in S
      OBVIOUS
    <2>2. \A i \in 1 .. N : i - 1 \in S => i \in S
      OBVIOUS
    <2> HIDE DEF S
    <2> QED
      BY <2>1, <2>2, Induction
  <1> QED
    BY <1>1

=============================================================================
