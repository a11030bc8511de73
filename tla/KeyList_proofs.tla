--------------------------- MODULE KeyList_proofs ---------------------------
(***************************************************************************)
(* What the operations on the list of keys do, for every list, every       *)
(* configuration and whichever allocations fail.                           *)
(***************************************************************************)
EXTENDS KeyList, Induction, SequenceTheorems

\* The list never believes in more room than its block has, unless the block
\* was freed behind its back.
Fits(list) ==
    list.sound =>
        /\ Len(list.keys) <= list.block /\ Len(list.keys) <= list.capacity
        /\ list.capacity <= list.block \/ list.block = 0

\* The list is sound, and has the room that it believes in.
Safe(list) ==
    list.sound /\ Len(list.keys) <= list.capacity /\ list.capacity <= list.block

\* The keys of ks stay where they are; those that follow come from new.
Grown(ks, ms, new) ==
    /\ Len(ks) <= Len(ms)
    /\ \A i \in 1 .. Len(ks) : ms[i] = ks[i]
    /\ \A i \in Len(ks) + 1 .. Len(ms) : \E j \in 1 .. Len(new) : ms[i] = new[j]

\* The first n keys of new follow those of ks, all of them and in order.
Extended(ks, ms, new, n) ==
    /\ Len(ms) = Len(ks) + n
    /\ \A j \in 1 .. n : ms[Len(ks) + j] = new[j]

\* The positions of the valid keys.
Valid(ks) == {i \in 1 .. Len(ks) : ks[i].status = "VALID"}

LEMMA Elements == ASSUME NEW ks \in Seq(Keys) PROVE ToSet(ks) = {ks[i] : i \in 1 .. Len(ks)}
  BY DEF ToSet

LEMMA Positions ==
  ASSUME NEW ks \in Seq(Keys)
  PROVE  /\ IsFiniteSet(Valid(ks)) /\ Cardinality(Valid(ks)) \in Nat
         /\ \A list : list.keys = ks => ValidKeys(list) = Valid(ks)
  <1>1. IsFiniteSet(1 .. Len(ks)) /\ Valid(ks) \in SUBSET (1 .. Len(ks))
    BY FS_Interval, LenProperties DEF Valid
  <1>2. IsFiniteSet(Valid(ks)) /\ Cardinality(Valid(ks)) \in Nat
    BY <1>1, FS_Subset, FS_CardinalityType
  <1> QED
    BY <1>2 DEF Valid, ValidKeys

LEMMA Appended ==
  ASSUME NEW ks \in Seq(Keys), NEW k \in Keys
  PROVE  /\ Append(ks, k) \in Seq(Keys) /\ Len(Append(ks, k)) = Len(ks) + 1
         /\ Append(ks, k)[Len(ks) + 1] = k
         /\ \A i \in 1 .. Len(ks) : Append(ks, k)[i] = ks[i]
  BY AppendProperties

-----------------------------------------------------------------------------
(* Adding keys. *)

LEMMA Adding ==
  ASSUME NEW l \in KeyInfoList, NEW k \in Keys, NEW m \in KeyInfoList_Add(l, k)
  PROVE  /\ m \in KeyInfoList
         /\ m.keys = Append(l.keys, k) \/ (m = l /\ AllocCanFail)
         /\ Fits(l) => Fits(m)
  <1>0. /\ l.keys \in Seq(Keys) /\ l.capacity \in Nat /\ l.block \in Nat /\ l.sound \in BOOLEAN
        /\ Len(l.keys) \in Nat
        /\ l = [keys |-> l.keys, capacity |-> l.capacity, block |-> l.block, sound |-> l.sound]
    BY DEF KeyInfoList
  <1> DEFINE new_cap == IF l.capacity = 0 THEN 4 ELSE 2 * l.capacity
  <1>1. CASE m = Stored(l, k) /\ Len(l.keys) < l.capacity
    <2>1. /\ m.keys = Append(l.keys, k) /\ m.capacity = l.capacity /\ m.block = l.block
          /\ m.sound = (l.sound /\ Len(l.keys) < l.block) /\ m \in KeyInfoList
      BY <1>0, <1>1, Appended DEF Stored, KeyInfoList
    <2>2. /\ Len(m.keys) = Len(l.keys) + 1
          /\ m.sound => l.sound /\ Len(l.keys) < l.block
      <3>1. Len(m.keys) = Len(l.keys) + 1
        BY <1>0, <2>1, Appended
      <3>2. m.sound => l.sound /\ Len(l.keys) < l.block
        BY <2>1, Zenon
      <3> QED
        BY <3>1, <3>2
    <2>3. Fits(l) => Fits(m)
      <3> SUFFICES ASSUME Fits(l), m.sound
                   PROVE  /\ Len(m.keys) <= m.block /\ Len(m.keys) <= m.capacity
                          /\ m.capacity <= m.block
        BY DEF Fits
      <3>1. l.sound /\ Len(l.keys) < l.block /\ Len(m.keys) = Len(l.keys) + 1
        BY <2>2
      <3>2. l.capacity <= l.block
        BY <1>0, <3>1 DEF Fits
      <3> QED
        BY <1>0, <1>1, <2>1, <3>1, <3>2
    <2> QED
      BY <2>1, <2>3
  <1>2. CASE m = Stored(Resized(l, new_cap), k)
    <2>1. new_cap \in Nat
      BY <1>0
    <2>2. /\ m.keys = Append(l.keys, k) /\ m.capacity = new_cap /\ m.block = new_cap
          /\ m.sound = (l.sound /\ Len(l.keys) < new_cap) /\ m \in KeyInfoList
      BY <1>0, <1>2, <2>1, Appended DEF Stored, Resized, KeyInfoList
    <2>3. /\ Len(m.keys) = Len(l.keys) + 1
          /\ m.sound => Len(l.keys) < new_cap
      <3>1. Len(m.keys) = Len(l.keys) + 1
        BY <1>0, <2>2, Appended
      <3>2. m.sound => Len(l.keys) < new_cap
        BY <2>2, Zenon
      <3> QED
        BY <3>1, <3>2
    <2> HIDE DEF new_cap
    <2>4. Fits(m)
      BY <1>0, <2>1, <2>2, <2>3 DEF Fits
    <2> QED
      BY <2>2, <2>4
  <1>3. CASE m = l /\ AllocCanFail
    BY <1>3
  <1> QED
    BY <1>1, <1>2, <1>3 DEF KeyInfoList_Add

LEMMA AddingSafely ==
  ASSUME NEW l \in KeyInfoList, NEW k \in Keys, NEW m \in KeyInfoList_Add(l, k), Safe(l)
  PROVE  Safe(m)
  <1>1. /\ l.keys \in Seq(Keys) /\ l.capacity \in Nat /\ l.block \in Nat /\ l.sound \in BOOLEAN
        /\ Len(l.keys) \in Nat /\ l.sound
        /\ Len(l.keys) <= l.capacity /\ l.capacity <= l.block
        /\ l = [keys |-> l.keys, capacity |-> l.capacity, block |-> l.block, sound |-> l.sound]
    BY DEF KeyInfoList, Safe
  <1> DEFINE new_cap == IF l.capacity = 0 THEN 4 ELSE 2 * l.capacity
  <1>2. CASE m = Stored(l, k) /\ Len(l.keys) < l.capacity
    <2>1. /\ m.keys = Append(l.keys, k) /\ m.capacity = l.capacity /\ m.block = l.block
          /\ m.sound = (l.sound /\ Len(l.keys) < l.block)
      BY <1>1, <1>2 DEF Stored
    <2>2. Len(l.keys) < l.block /\ Len(m.keys) = Len(l.keys) + 1
      BY <1>1, <1>2, <2>1, Appended
    <2>3. m.sound
      BY <1>1, <2>1, <2>2, Zenon
    <2> QED
      BY <1>1, <1>2, <2>1, <2>2, <2>3 DEF Safe
  <1>3. CASE m = Stored(Resized(l, new_cap), k)
    <2>1. new_cap \in Nat /\ Len(l.keys) < new_cap
      BY <1>1
    <2>2. /\ m.keys = Append(l.keys, k) /\ m.capacity = new_cap /\ m.block = new_cap
          /\ m.sound = (l.sound /\ Len(l.keys) < new_cap)
      BY <1>1, <1>3, <2>1 DEF Stored, Resized
    <2> HIDE DEF new_cap
    <2>3. m.sound
      BY <1>1, <2>1, <2>2, Zenon
    <2> QED
      BY <1>1, <2>1, <2>2, <2>3, Appended DEF Safe
  <1> QED
    BY <1>2, <1>3 DEF KeyInfoList_Add, Safe

\* A list that fits its block and is not empty is safe.
LEMMA NonEmptySafe ==
  ASSUME NEW list \in KeyInfoList, Fits(list), list.sound, list.keys # <<>>
  PROVE  Safe(list) /\ ~Dangling(list)
  <1>1. list.keys \in Seq(Keys) /\ Len(list.keys) \in Nat /\ list.block \in Nat
    BY LenProperties DEF KeyInfoList
  <1>2. Len(list.keys) # 0
    BY <1>1, EmptySeq
  <1> QED
    BY <1>1, <1>2 DEF Fits, Safe, Dangling

\* The outcomes of the first i additions.
LEMMA AddingSteps ==
  ASSUME NEW list \in KeyInfoList, NEW new \in Seq(Keys)
  PROVE  \E F \in [0 .. Len(new) -> SUBSET KeyInfoList] :
            /\ F[0] = {list} /\ AddEach(list, new) = F[Len(new)]
            /\ \A i \in 1 .. Len(new) :
                  F[i] = UNION {KeyInfoList_Add(l, new[i]) : l \in F[i - 1]}
  <1> DEFINE N == Len(new)
             V == SUBSET KeyInfoList
             Then(i, L) == UNION {KeyInfoList_Add(l, new[i]) : l \in L}
             G == [i \in 1 .. N |-> [L \in V |-> Then(i, L)]]
             R(f) == f = [i \in 0 .. N |-> IF i = 0 THEN {list} ELSE Then(i, f[i - 1])]
             g == CHOOSE f : R(f)
  <1>1. N \in Nat /\ {list} \in V
    BY LenProperties
  <1>2. \A i \in 1 .. N : \A L \in V : Then(i, L) \in V
    <2> SUFFICES ASSUME NEW i \in 1 .. N, NEW L \in V, NEW m \in Then(i, L)
                 PROVE  m \in KeyInfoList
      OBVIOUS
    <2>1. new[i] \in Keys
      BY ElementOfSeq
    <2> QED
      BY <2>1, Adding
  <1>3. AddEach(list, new) = g[N]
    BY DEF AddEach
  <1> HIDE DEF Then, V
  <1>4. G \in [1 .. N -> [V -> V]]
    BY <1>2
  <1> HIDE DEF N
  <1>5. \E f : R(f)
    <2>1. PICK F \in [0 .. N -> V] :
             F[0] = {list} /\ \A i \in 1 .. N : F[i] = G[i][F[i - 1]]
      <3> HIDE DEF G
      <3>1. HasRecursion(N, V, {list}, G)
        BY <1>1, <1>4, Recursion
      <3> QED
        BY <3>1 DEF HasRecursion
    <2>2. \A i \in 1 .. N : F[i] = Then(i, F[i - 1])
      BY <1>1, <2>1
    <2>3. R(F)
      BY <1>1, <2>1, <2>2
    <2> HIDE DEF R
    <2> QED
      BY <2>3
  <1>6. R(g)
    <2> HIDE DEF R
    <2> QED
      BY <1>5
  <1> HIDE DEF g
  <1>7. g[0] = {list} /\ \A i \in 1 .. N : g[i] = Then(i, g[i - 1])
    <2>1. 0 \in 0 .. N /\ \A i \in 1 .. N : i \in 0 .. N /\ i # 0
      BY <1>1
    <2> QED
      BY <1>6, <2>1
  <1>8. g = [i \in 0 .. N |-> g[i]]
    BY <1>6
  <1>9. g \in [0 .. N -> V]
    BY <1>1, <1>2, <1>7, <1>8, RecursionType
  <1> QED
    BY <1>3, <1>7, <1>9 DEF N, V, Then

\* One more key of new is appended.
LEMMA GrowingStep ==
  ASSUME NEW ks \in Seq(Keys), NEW ms \in Seq(Keys), NEW new \in Seq(Keys),
         NEW i \in 1 .. Len(new), Grown(ks, ms, new)
  PROVE  /\ Grown(ks, Append(ms, new[i]), new)
         /\ Extended(ks, ms, new, i - 1) => Extended(ks, Append(ms, new[i]), new, i)
  <1> DEFINE ns == Append(ms, new[i])
  <1>1. /\ Len(ns) = Len(ms) + 1 /\ ns[Len(ms) + 1] = new[i]
        /\ \A j \in 1 .. Len(ms) : ns[j] = ms[j]
    BY Appended, ElementOfSeq
  <1>2. Len(ks) \in Nat /\ Len(ms) \in Nat /\ Len(new) \in Nat
    BY LenProperties
  <1> HIDE DEF ns
  <1>3. Grown(ks, ns, new)
    <2>1. \A j \in 1 .. Len(ks) : j \in 1 .. Len(ms)
      BY <1>2 DEF Grown
    <2>2. \A j \in 1 .. Len(ks) : ns[j] = ks[j]
      BY <1>1, <2>1 DEF Grown
    <2>3. ASSUME NEW j \in Len(ks) + 1 .. Len(ns)
          PROVE  \E h \in 1 .. Len(new) : ns[j] = new[h]
      <3>1. j = Len(ms) + 1 \/ (j \in Len(ks) + 1 .. Len(ms) /\ j \in 1 .. Len(ms))
        BY <1>1, <1>2
      <3>2. j \in Len(ks) + 1 .. Len(ms) => \E h \in 1 .. Len(new) : ms[j] = new[h]
        BY DEF Grown
      <3> QED
        BY <1>1, <3>1, <3>2
    <2>4. Len(ks) <= Len(ns)
      BY <1>1, <1>2 DEF Grown
    <2> QED
      BY <2>2, <2>3, <2>4 DEF Grown
  <1>4. ASSUME Extended(ks, ms, new, i - 1) PROVE Extended(ks, ns, new, i)
    <2>1. Len(ms) = Len(ks) + (i - 1) /\ Len(ns) = Len(ks) + i
      BY <1>1, <1>2, <1>4 DEF Extended
    <2>2. ASSUME NEW j \in 1 .. i PROVE ns[Len(ks) + j] = new[j]
      <3>1. (j = i /\ Len(ks) + j = Len(ms) + 1)
            \/ (j \in 1 .. i - 1 /\ Len(ks) + j \in 1 .. Len(ms))
        BY <1>2, <2>1
      <3>2. j \in 1 .. i - 1 => ms[Len(ks) + j] = new[j]
        BY <1>4 DEF Extended
      <3> QED
        BY <1>1, <3>1, <3>2
    <2> QED
      BY <2>1, <2>2 DEF Extended
  <1> QED
    BY <1>3, <1>4 DEF ns

LEMMA Added ==
  ASSUME NEW list \in KeyInfoList, NEW new \in Seq(Keys), NEW m \in AddEach(list, new)
  PROVE  /\ m \in KeyInfoList
         /\ Grown(list.keys, m.keys, new)
         /\ (Fits(list) => Fits(m)) /\ (Safe(list) => Safe(m))
         /\ ~AllocCanFail => Extended(list.keys, m.keys, new, Len(new))
  <1> DEFINE N == Len(new)
             Good(i, l) == /\ Grown(list.keys, l.keys, new)
                           /\ (Fits(list) => Fits(l)) /\ (Safe(list) => Safe(l))
                           /\ ~AllocCanFail => Extended(list.keys, l.keys, new, i)
  <1>1. N \in Nat /\ list.keys \in Seq(Keys)
    BY LenProperties DEF KeyInfoList
  <1>2. PICK F \in [0 .. N -> SUBSET KeyInfoList] :
           /\ F[0] = {list} /\ AddEach(list, new) = F[N]
           /\ \A i \in 1 .. N : F[i] = UNION {KeyInfoList_Add(l, new[i]) : l \in F[i - 1]}
    BY AddingSteps
  <1> DEFINE S == {i \in 0 .. N : \A l \in F[i] : Good(i, l)}
  <1>3. 0 \in S
    <2>1. Good(0, list)
      BY <1>1, LenProperties DEF Grown, Extended
    <2> HIDE DEF Good
    <2> QED
      BY <1>1, <1>2, <2>1
  <1>4. ASSUME NEW i \in 1 .. N, i - 1 \in S PROVE i \in S
    <2> SUFFICES ASSUME NEW l \in F[i] PROVE Good(i, l)
      BY <1>1
    <2>1. PICK p \in F[i - 1] : l \in KeyInfoList_Add(p, new[i])
      BY <1>2
    <2>2. i - 1 \in 0 .. N /\ p \in KeyInfoList /\ new[i] \in Keys /\ p.keys \in Seq(Keys)
      <3>1. i - 1 \in 0 .. N
        BY <1>1
      <3>2. F[i - 1] \in SUBSET KeyInfoList
        BY <3>1
      <3> QED
        BY <3>1, <3>2, <2>1, ElementOfSeq DEF KeyInfoList
    <2>3. Good(i - 1, p)
      BY <1>4, <2>1
    <2>4. /\ l.keys = Append(p.keys, new[i]) \/ (l = p /\ AllocCanFail)
          /\ (Fits(p) => Fits(l)) /\ (Safe(p) => Safe(l))
      BY <2>1, <2>2, Adding, AddingSafely
    <2>5. Grown(list.keys, l.keys, new)
      BY <1>1, <2>2, <2>3, <2>4, GrowingStep
    <2>6. ~AllocCanFail => Extended(list.keys, l.keys, new, i)
      BY <1>1, <2>2, <2>3, <2>4, GrowingStep
    <2> QED
      BY <2>3, <2>4, <2>5, <2>6
  <1>5. S = 0 .. N
    <2>1. S \in SUBSET (0 .. N)
      OBVIOUS
    <2> HIDE DEF S
    <2> QED
      BY <1>1, <1>3, <1>4, <2>1, Induction
  <1>6. N \in 0 .. N
    BY <1>1
  <1>7. m \in F[N] /\ F[N] \in SUBSET KeyInfoList
    BY <1>2, <1>6
  <1> QED
    BY <1>5, <1>6, <1>7

-----------------------------------------------------------------------------
(* Removing deleted keys. *)

LEMMA KeptSteps ==
  ASSUME NEW ks \in Seq(Keys)
  PROVE  \E F \in [0 .. Len(ks) -> Seq(Keys)] :
            /\ F[0] = <<>> /\ Kept(ks) = F[Len(ks)]
            /\ \A i \in 1 .. Len(ks) :
                  F[i] = IF ks[i].status = "DELETED" THEN F[i - 1] ELSE Append(F[i - 1], ks[i])
  <1> DEFINE N == Len(ks)
             V == Seq(Keys)
             Then(i, s) == IF ks[i].status = "DELETED" THEN s ELSE Append(s, ks[i])
             G == [i \in 1 .. N |-> [s \in V |-> Then(i, s)]]
             R(f) == f = [i \in 0 .. N |-> IF i = 0 THEN <<>> ELSE Then(i, f[i - 1])]
             g == CHOOSE f : R(f)
  <1>1. N \in Nat /\ <<>> \in V
    BY LenProperties, EmptySeq
  <1>2. \A i \in 1 .. N : \A s \in V : Then(i, s) \in V
    BY ElementOfSeq, Appended
  <1>3. Kept(ks) = g[N]
    BY DEF Kept
  <1> HIDE DEF V
  <1>4. G \in [1 .. N -> [V -> V]]
    <2> HIDE DEF Then
    <2> QED
      BY <1>2
  <1>5. \E f : R(f)
    <2>1. PICK F \in [0 .. N -> V] :
             F[0] = <<>> /\ \A i \in 1 .. N : F[i] = G[i][F[i - 1]]
      <3> HIDE DEF G, N
      <3>1. HasRecursion(N, V, <<>>, G)
        BY <1>1, <1>4, Recursion
      <3> QED
        BY <3>1 DEF HasRecursion
    <2>2. \A i \in 1 .. N : F[i] = Then(i, F[i - 1])
      <3>1. \A i \in 1 .. N : F[i - 1] \in V
        BY <1>1
      <3> HIDE DEF Then
      <3> QED
        BY <2>1, <3>1
    <2>3. R(F)
      <3> HIDE DEF Then
      <3> QED
        BY <1>1, <2>1, <2>2
    <2> HIDE DEF R
    <2> QED
      BY <2>3
  <1>6. R(g)
    <2> HIDE DEF R
    <2> QED
      BY <1>5
  <1> HIDE DEF g
  <1>7. g[0] = <<>> /\ \A i \in 1 .. N : g[i] = Then(i, g[i - 1])
    <2>1. 0 \in 0 .. N /\ \A i \in 1 .. N : i \in 0 .. N /\ i # 0
      BY <1>1
    <2> QED
      BY <1>6, <2>1
  <1>8. g = [i \in 0 .. N |-> g[i]]
    BY <1>6
  <1>9. g \in [0 .. N -> V]
    <2>1. \A i \in 1 .. N : g[i - 1] \in V => g[i] \in V
      <3> HIDE DEF Then
      <3> QED
        BY <1>2, <1>7
    <2> HIDE DEF N
    <2> QED
      BY <1>1, <1>7, <1>8, <2>1, RecursionType
  <1> QED
    BY <1>3, <1>7, <1>9 DEF V

\* A key that is appended adds its position to the valid ones, if it is valid.
LEMMA ValidAppended ==
  ASSUME NEW ks \in Seq(Keys), NEW k \in Keys
  PROVE  Cardinality(Valid(Append(ks, k)))
            = Cardinality(Valid(ks)) + (IF k.status = "VALID" THEN 1 ELSE 0)
  <1>1. Len(ks) \in Nat
    BY LenProperties
  <1>2. CASE k.status = "VALID"
    <2>1. Valid(Append(ks, k)) = Valid(ks) \union {Len(ks) + 1}
      BY <1>1, <1>2, Appended DEF Valid
    <2>2. Len(ks) + 1 \notin Valid(ks)
      BY <1>1 DEF Valid
    <2>3. Cardinality(Valid(ks) \union {Len(ks) + 1}) = Cardinality(Valid(ks)) + 1
      BY <2>2, Positions, FS_AddElement
    <2> QED
      BY <1>2, <2>1, <2>3
  <1>3. CASE k.status # "VALID"
    <2>1. Valid(Append(ks, k)) = Valid(ks)
      BY <1>1, <1>3, Appended DEF Valid
    <2> QED
      BY <1>3, <2>1, Positions
  <1> QED
    BY <1>2, <1>3

\* What is kept of the first n keys of ks.
KeptOf(ks, ms, n) ==
    /\ Len(ms) <= n
    /\ \A j \in 1 .. Len(ms) : \E h \in 1 .. n : ms[j] = ks[h]
    /\ \A h \in 1 .. n : ks[h].status # "DELETED" => \E j \in 1 .. Len(ms) : ms[j] = ks[h]

LEMMA KeepingStep ==
  ASSUME NEW ks \in Seq(Keys), NEW ms \in Seq(Keys), NEW i \in 1 .. Len(ks),
         KeptOf(ks, ms, i - 1)
  PROVE  /\ ks[i].status = "DELETED" => KeptOf(ks, ms, i)
         /\ KeptOf(ks, Append(ms, ks[i]), i)
  <1> DEFINE ns == Append(ms, ks[i])
  <1>1. /\ Len(ns) = Len(ms) + 1 /\ ns[Len(ms) + 1] = ks[i]
        /\ \A j \in 1 .. Len(ms) : ns[j] = ms[j]
    BY Appended, ElementOfSeq
  <1>2. Len(ms) \in Nat /\ Len(ks) \in Nat
    BY LenProperties
  <1>3. \A h \in 1 .. i - 1 : h \in 1 .. i /\ h # i
    BY <1>2
  <1>4. \A h \in 1 .. i : h \in 1 .. i - 1 \/ h = i
    BY <1>2
  <1> HIDE DEF ns
  <1>5. ASSUME ks[i].status = "DELETED" PROVE KeptOf(ks, ms, i)
    BY <1>2, <1>3, <1>4, <1>5 DEF KeptOf
  <1>6. \A j \in 1 .. Len(ns) : j \in 1 .. Len(ms) \/ j = Len(ns)
    BY <1>1, <1>2
  <1>7. Len(ns) \in 1 .. Len(ns) /\ \A j \in 1 .. Len(ms) : j \in 1 .. Len(ns)
    BY <1>1, <1>2
  <1>8. Len(ns) <= i
    BY <1>1, <1>2 DEF KeptOf
  <1>9. \A j \in 1 .. Len(ns) : \E h \in 1 .. i : ns[j] = ks[h]
    BY <1>1, <1>3, <1>6 DEF KeptOf
  <1>10. \A h \in 1 .. i : ks[h].status # "DELETED" => \E j \in 1 .. Len(ns) : ns[j] = ks[h]
    BY <1>1, <1>4, <1>7 DEF KeptOf
  <1> QED
    BY <1>5, <1>8, <1>9, <1>10 DEF KeptOf, ns

\* The keys kept are those that are not deleted, in their order: no valid key
\* is among the others.
LEMMA KeptFacts ==
  ASSUME NEW ks \in Seq(Keys)
  PROVE  /\ Kept(ks) \in Seq(Keys) /\ KeptOf(ks, Kept(ks), Len(ks))
         /\ Cardinality(Valid(Kept(ks))) = Cardinality(Valid(ks))
  <1> DEFINE N == Len(ks)
             ValidTo(i) == {h \in 1 .. i : ks[h].status = "VALID"}
             Good(i, ms) == /\ KeptOf(ks, ms, i)
                            /\ Cardinality(Valid(ms)) = Cardinality(ValidTo(i))
  <1>1. N \in Nat
    BY LenProperties
  <1>2. PICK F \in [0 .. N -> Seq(Keys)] :
           /\ F[0] = <<>> /\ Kept(ks) = F[N]
           /\ \A i \in 1 .. N :
                 F[i] = IF ks[i].status = "DELETED" THEN F[i - 1] ELSE Append(F[i - 1], ks[i])
    BY KeptSteps
  <1> DEFINE S == {i \in 0 .. N : Good(i, F[i])}
  <1>3. 0 \in S
    <2>1. Valid(<<>>) = {} /\ ValidTo(0) = {} /\ KeptOf(ks, <<>>, 0)
      BY EmptySeq DEF Valid, KeptOf
    <2>2. Good(0, F[0])
      <3> HIDE DEF ValidTo
      <3> QED
        BY <1>2, <2>1
    <2> HIDE DEF Good
    <2> QED
      BY <1>1, <2>2
  <1>4. ASSUME NEW i \in 1 .. N, i - 1 \in S PROVE i \in S
    <2>1. F[i - 1] \in Seq(Keys) /\ ks[i] \in Keys /\ i \in 0 .. N
      BY <1>1, ElementOfSeq
    <2>2. Good(i - 1, F[i - 1])
      BY <1>4
    <2>3. /\ IsFiniteSet(ValidTo(i - 1)) /\ i \notin ValidTo(i - 1)
          /\ ValidTo(i) = ValidTo(i - 1) \union (IF ks[i].status = "VALID" THEN {i} ELSE {})
      <3>1. ValidTo(i - 1) \subseteq 1 .. i - 1
        OBVIOUS
      <3>2. IsFiniteSet(1 .. i - 1)
        BY <1>1, FS_Interval
      <3> QED
        BY <1>1, <3>1, <3>2, FS_Subset
    <2>4. Cardinality(ValidTo(i))
             = Cardinality(ValidTo(i - 1)) + (IF ks[i].status = "VALID" THEN 1 ELSE 0)
      <3> HIDE DEF ValidTo
      <3>1. CASE ks[i].status = "VALID"
        BY <2>3, <3>1, FS_AddElement
      <3>2. CASE ks[i].status # "VALID"
        <4>1. Cardinality(ValidTo(i - 1)) \in Nat /\ ValidTo(i) = ValidTo(i - 1)
          BY <2>3, <3>2, FS_CardinalityType
        <4> QED
          BY <3>2, <4>1
      <3> QED
        BY <3>1, <3>2
    <2>5. CASE ks[i].status = "DELETED"
      <3>1. F[i] = F[i - 1] /\ Cardinality(Valid(F[i - 1])) \in Nat
        BY <1>2, <2>1, <2>5, Positions
      <3>2. Cardinality(Valid(F[i])) = Cardinality(ValidTo(i))
        <4> HIDE DEF ValidTo
        <4> QED
          BY <2>2, <2>4, <2>5, <3>1
      <3>3. KeptOf(ks, F[i], i)
        BY <2>1, <2>2, <2>5, <3>1, KeepingStep
      <3> QED
        BY <2>1, <3>2, <3>3
    <2>6. CASE ks[i].status # "DELETED"
      <3>1. F[i] = Append(F[i - 1], ks[i])
        BY <1>2, <2>6
      <3>2. Cardinality(Valid(F[i])) = Cardinality(ValidTo(i))
        <4> HIDE DEF ValidTo
        <4> QED
          BY <2>1, <2>2, <2>4, <3>1, ValidAppended
      <3>3. KeptOf(ks, F[i], i)
        BY <2>1, <2>2, <3>1, KeepingStep
      <3> QED
        BY <2>1, <3>2, <3>3
    <2> QED
      BY <2>5, <2>6
  <1>5. S = 0 .. N
    <2>1. S \in SUBSET (0 .. N)
      OBVIOUS
    <2> HIDE DEF S
    <2> QED
      BY <1>1, <1>3, <1>4, <2>1, Induction
  <1>6. N \in S /\ Kept(ks) \in Seq(Keys)
    <2>1. N \in 0 .. N
      BY <1>1
    <2> HIDE DEF S
    <2> QED
      BY <1>2, <1>5, <2>1
  <1>7. ValidTo(N) = Valid(ks)
    BY DEF Valid
  <1> QED
    BY <1>2, <1>6, <1>7

-----------------------------------------------------------------------------
(* The statuses. *)

\* The status is the one that the clock gives.
Current(k, t) ==
    /\ k.status = "VALID" <=> t < KeyInfo_GetExpireTime(k)
    /\ k.status = "DELETED" <=> KeyInfo_GetDeleteTime(k) <= t

LEMMA Updated ==
  ASSUME NEW k \in Keys, NEW t \in Nat
  PROVE  LET l == UpdateKeyStatus(k, t)
         IN  /\ l \in Keys /\ IdOf(l) = IdOf(k) /\ l.ts = k.ts /\ Current(l, t)
             /\ KeyInfo_GetExpireTime(l) = KeyInfo_GetExpireTime(k)
             /\ KeyInfo_GetDeleteTime(l) = KeyInfo_GetDeleteTime(k)
  BY ConfigAssumption
     DEF Keys, KeyStatus, UpdateKeyStatus, IdOf, Current, KeyInfo_GetExpireTime,
         KeyInfo_GetDeleteTime

\* A new key is valid now.
LEMMA NewKey ==
  ASSUME NEW kind \in {"key", "ext"}, NEW t \in Nat, NEW n \in Nat
  PROVE  LET k == KeyInfo_Init(kind, t, n)
         IN  /\ k \in Keys /\ k.ts = t /\ k.status = "VALID" /\ Current(k, t)
             /\ IdOf(k) = <<kind, t, n>> /\ UpdateKeyStatus(k, t) = k
  BY ConfigAssumption
     DEF Keys, KeyStatus, UpdateKeyStatus, IdOf, Current, KeyInfo_Init, KeyInfo_GetExpireTime,
         KeyInfo_GetDeleteTime

\* The list is the same but for statuses.
SameButStatus(list, m) ==
    /\ m \in KeyInfoList /\ Len(m.keys) = Len(list.keys)
    /\ m.capacity = list.capacity /\ m.block = list.block
    /\ \A i \in 1 .. Len(list.keys) :
          /\ IdOf(m.keys[i]) = IdOf(list.keys[i]) /\ m.keys[i].ts = list.keys[i].ts

LEMMA SameFits ==
  ASSUME NEW list \in KeyInfoList, NEW m, SameButStatus(list, m), m.sound => list.sound
  PROVE  /\ Fits(list) => Fits(m)
         /\ m.sound /\ Safe(list) => Safe(m)
  BY DEF SameButStatus, Fits, Safe

LEMMA AllUpdated ==
  ASSUME NEW list \in KeyInfoList, NEW now, \A i \in 1 .. Len(list.keys) : now[i] \in Nat
  PROVE  LET m == UpdateAll(list, now)
         IN  /\ SameButStatus(list, m) /\ m.sound = list.sound
             /\ \A i \in 1 .. Len(list.keys) :
                   m.keys[i] = UpdateKeyStatus(list.keys[i], now[i]) /\ list.keys[i] \in Keys
  <1> DEFINE ks == list.keys
             ms == [i \in DOMAIN ks |-> UpdateKeyStatus(ks[i], now[i])]
             m  == UpdateAll(list, now)
  <1>1. ks \in Seq(Keys) /\ DOMAIN ks = 1 .. Len(ks) /\ Len(ks) \in Nat
    BY LenProperties DEF KeyInfoList
  <1>2. \A i \in 1 .. Len(ks) : ks[i] \in Keys
    BY <1>1, ElementOfSeq
  <1>3. ms \in Seq(Keys) /\ Len(ms) = Len(ks)
    <2>1. ms \in [1 .. Len(ks) -> Keys]
      BY <1>1, <1>2, Updated
    <2> QED
      BY <1>1, <2>1, SeqDef, LenProperties
  <1>4. /\ m.keys = ms /\ m.capacity = list.capacity /\ m.block = list.block
        /\ m.sound = list.sound /\ m \in KeyInfoList
    BY <1>3 DEF UpdateAll, KeyInfoList
  <1>5. \A i \in 1 .. Len(ks) : m.keys[i] = UpdateKeyStatus(ks[i], now[i])
    BY <1>1, <1>4
  <1>6. \A i \in 1 .. Len(ks) : LET l == UpdateKeyStatus(ks[i], now[i])
                               IN  IdOf(l) = IdOf(ks[i]) /\ l.ts = ks[i].ts
    BY <1>2, Updated
  <1> HIDE DEF ms, m
  <1> QED
    BY <1>2, <1>3, <1>4, <1>5, <1>6 DEF m, SameButStatus

LEMMA Simulated ==
  ASSUME NEW list \in KeyInfoList, NEW n \in Nat
  PROVE  LET m == SimulateExpiry(list, n)
         IN  SameButStatus(list, m) /\ m.sound = list.sound
  <1> DEFINE ks == list.keys
             first == {i \in ValidKeys(list) :
                         Cardinality({j \in ValidKeys(list) : j < i}) < n}
             ms == [i \in DOMAIN ks |->
                      IF i \in first THEN [ks[i] EXCEPT !.status = "DELETED"] ELSE ks[i]]
             m  == SimulateExpiry(list, n)
  <1>1. ks \in Seq(Keys) /\ DOMAIN ks = 1 .. Len(ks) /\ Len(ks) \in Nat
    BY LenProperties DEF KeyInfoList
  <1>2. \A i \in 1 .. Len(ks) : ks[i] \in Keys
    BY <1>1, ElementOfSeq
  <1>3. /\ m.keys = ms /\ m.capacity = list.capacity /\ m.block = list.block
        /\ m.sound = list.sound /\ m = [list EXCEPT !.keys = ms]
    BY DEF SimulateExpiry, KeyInfoList
  <1> HIDE DEF first
  <1>4. \A i \in 1 .. Len(ks) :
           ms[i] \in Keys /\ IdOf(ms[i]) = IdOf(ks[i]) /\ ms[i].ts = ks[i].ts
    BY <1>1, <1>2 DEF Keys, KeyStatus, IdOf
  <1>5. ms \in Seq(Keys) /\ Len(ms) = Len(ks)
    <2>1. ms \in [1 .. Len(ks) -> Keys]
      BY <1>1, <1>4
    <2> QED
      BY <1>1, <2>1, SeqDef, LenProperties
  <1>6. m \in KeyInfoList
    BY <1>3, <1>5 DEF KeyInfoList
  <1> QED
    BY <1>3, <1>4, <1>5, <1>6 DEF SameButStatus

-----------------------------------------------------------------------------
(* The operations of KeyManager.c. *)

\* Whichever branch realloc takes, what is left is what is not deleted.
LEMMA Deleted ==
  ASSUME NEW list \in KeyInfoList, NEW m \in DeleteExpiredKeys(list)
  PROVE  /\ m \in KeyInfoList /\ KeptOf(list.keys, m.keys, Len(list.keys))
         /\ Fits(list) => Fits(m)
         /\ Safe(list) /\ m.keys # <<>> => Safe(m)
         /\ Cardinality(Valid(m.keys)) = Cardinality(Valid(list.keys))
  <1> DEFINE kept == Kept(list.keys)
             same == [list EXCEPT !.keys = kept]
  <1>1. /\ list.keys \in Seq(Keys) /\ Len(list.keys) \in Nat
        /\ list.capacity \in Nat /\ list.block \in Nat /\ list.sound \in BOOLEAN
    BY LenProperties DEF KeyInfoList
  <1>2. /\ kept \in Seq(Keys) /\ KeptOf(list.keys, kept, Len(list.keys))
        /\ Cardinality(Valid(kept)) = Cardinality(Valid(list.keys)) /\ Len(kept) \in Nat
    BY <1>1, KeptFacts, LenProperties
  <1> HIDE DEF kept
  <1>3. CASE m = list
    BY <1>1, <1>3 DEF KeptOf
  <1>4. CASE m \in Shrunk(list, kept)
    <2>1. m = [same EXCEPT !.block = 0] \/ m = Resized(same, Len(kept)) \/ m = same
      BY <1>4 DEF Shrunk
    <2>2. /\ m \in KeyInfoList /\ m.keys = kept /\ m.sound = list.sound
          /\ \/ m.block = 0 /\ m.capacity = list.capacity /\ kept = <<>>
             \/ m.block = Len(kept) /\ m.capacity = Len(kept)
             \/ m.block = list.block /\ m.capacity = list.capacity
      BY <1>1, <1>2, <1>4 DEF Shrunk, Resized, KeyInfoList
    <2>3. Len(kept) <= Len(list.keys) /\ (kept = <<>> => Len(kept) = 0)
      BY <1>2 DEF KeptOf
    <2>4. Fits(list) => Fits(m)
      BY <1>1, <1>2, <2>2, <2>3 DEF Fits
    <2>5. Safe(list) /\ kept # <<>> => Safe(m)
      BY <1>1, <1>2, <2>2, <2>3 DEF Safe
    <2> QED
      BY <1>2, <2>2, <2>4, <2>5
  <1> QED
    BY <1>3, <1>4 DEF DeleteExpiredKeys, kept

\* A valid key for every one that was missing.
LEMMA ValidExtended ==
  ASSUME NEW ks \in Seq(Keys), NEW ms \in Seq(Keys), NEW new \in Seq(Keys), NEW n \in Nat,
         Grown(ks, ms, new), Extended(ks, ms, new, n),
         \A j \in 1 .. n : new[j].status = "VALID"
  PROVE  Cardinality(Valid(ms)) = Cardinality(Valid(ks)) + n
  <1> DEFINE New == Len(ks) + 1 .. Len(ks) + n
  <1>1. Len(ks) \in Nat /\ Len(ms) = Len(ks) + n
    BY LenProperties DEF Extended
  <1>2. IsFiniteSet(New) /\ Cardinality(New) = n
    BY <1>1, FS_Interval
  <1>3. Valid(ks) \cap New = {}
    BY <1>1 DEF Valid
  <1>4. ASSUME NEW i \in New PROVE i \in 1 .. Len(ms) /\ ms[i].status = "VALID"
    <2>1. i - Len(ks) \in 1 .. n /\ Len(ks) + (i - Len(ks)) = i /\ i \in 1 .. Len(ms)
      BY <1>1
    <2> QED
      BY <2>1 DEF Extended
  <1>5. \A i \in 1 .. Len(ms) : i \in 1 .. Len(ks) \/ i \in New
    BY <1>1
  <1>6. \A i \in 1 .. Len(ks) : i \in 1 .. Len(ms) /\ ms[i] = ks[i]
    BY <1>1 DEF Grown
  <1> HIDE DEF New
  <1>7. Valid(ms) = Valid(ks) \union New
    BY <1>4, <1>5, <1>6 DEF Valid
  <1>8. /\ Cardinality(Valid(ms)) = Cardinality(Valid(ks)) + Cardinality(New) - Cardinality({})
        /\ Cardinality(Valid(ks)) \in Nat
    BY <1>2, <1>3, <1>7, Positions, FS_Union
  <1> QED
    BY <1>2, <1>8, FS_EmptySet

\* The keys of one request, each made at some time from t to u.
IsRequest(new, t, u) ==
    /\ new \in Seq(Keys)
    /\ \A j \in 1 .. Len(new) : \E r \in t .. u : new[j] = KeyInfo_Init("key", r, j)

LEMMA RequestFacts ==
  ASSUME NEW need \in Nat, NEW t \in Nat, NEW u \in Nat,
         NEW now, \A i \in 1 .. need : now[i] \in t .. u,
         NEW new \in RequestNewKeys(need, now)
  PROVE  IsRequest(new, t, u) /\ (~AllocCanFail => Len(new) = need)
  <1>1. CASE new = [i \in 1 .. need |-> KeyInfo_Init("key", now[i], i)]
    <2>1. ASSUME NEW i \in 1 .. need
          PROVE  now[i] \in Nat /\ KeyInfo_Init("key", now[i], i) \in Keys
      <3>1. now[i] \in Nat /\ i \in Nat /\ "key" \in {"key", "ext"}
        OBVIOUS
      <3> QED
        BY <3>1, NewKey
    <2>2. new \in [1 .. need -> Keys] /\ \A i \in 1 .. need : new[i] = KeyInfo_Init("key", now[i], i)
      BY <1>1, <2>1
    <2>3. new \in Seq(Keys) /\ Len(new) = need
      BY <2>2, SeqDef, LenProperties
    <2> QED
      BY <2>2, <2>3 DEF IsRequest
  <1>2. CASE new = <<>> /\ AllocCanFail
    BY <1>2, EmptySeq DEF IsRequest
  <1> QED
    BY <1>1, <1>2 DEF RequestNewKeys

\* What a request does to the list: the keys in it stay, the new ones are
\* made at some time from t to u.
Refilled(ks, ms, t, u) ==
    /\ Len(ks) <= Len(ms)
    /\ \A i \in 1 .. Len(ks) : ms[i] = ks[i]
    /\ \A i \in 1 .. Len(ms) :
          i \in 1 .. Len(ks) \/ \E r \in t .. u, n \in Nat : ms[i] = KeyInfo_Init("key", r, n)

LEMMA Requested ==
  ASSUME NEW list \in KeyInfoList, NEW t \in Nat, NEW u \in Nat,
         NEW now, \A i \in 1 .. Threshold : now[i] \in t .. u,
         NEW m \in CheckAndRequestKeys(list, now)
  PROVE  /\ m \in KeyInfoList /\ Refilled(list.keys, m.keys, t, u)
         /\ (Fits(list) => Fits(m)) /\ (Safe(list) => Safe(m))
         /\ ~AllocCanFail => Cardinality(Valid(m.keys)) >= Threshold
  <1> DEFINE need == Threshold - Cardinality(Valid(list.keys))
  <1>1. list.keys \in Seq(Keys) /\ Len(list.keys) \in Nat
    BY LenProperties DEF KeyInfoList
  <1>2. /\ Cardinality(Valid(list.keys)) \in Nat /\ Threshold \in Nat
        /\ ValidKeys(list) = Valid(list.keys)
    BY <1>1, Positions, ConfigAssumption
  <1>3. CASE need <= 0
    <2>1. m = list
      BY <1>2, <1>3 DEF CheckAndRequestKeys
    <2>2. Cardinality(Valid(list.keys)) >= Threshold
      BY <1>2, <1>3
    <2> QED
      BY <1>1, <2>1, <2>2 DEF Refilled
  <1>4. CASE ~(need <= 0)
    <2>1. need \in Nat /\ need > 0 /\ \A i \in 1 .. need : now[i] \in t .. u
      BY <1>2, <1>4
    <2>2. PICK new \in RequestNewKeys(need, now) : m \in AddEach(list, new)
      BY <1>2, <1>4 DEF CheckAndRequestKeys
    <2>3. IsRequest(new, t, u) /\ new \in Seq(Keys) /\ (~AllocCanFail => Len(new) = need)
      <3> HIDE DEF need
      <3>1. IsRequest(new, t, u) /\ (~AllocCanFail => Len(new) = need)
        BY <2>1, <2>2, RequestFacts
      <3> QED
        BY <3>1 DEF IsRequest
    <2>4. /\ m \in KeyInfoList /\ m.keys \in Seq(Keys) /\ Grown(list.keys, m.keys, new)
          /\ (Fits(list) => Fits(m)) /\ (Safe(list) => Safe(m))
          /\ ~AllocCanFail => Extended(list.keys, m.keys, new, Len(new))
      BY <2>2, <2>3, Added DEF KeyInfoList
    <2>5. \A j \in 1 .. Len(new) :
             j \in Nat /\ \E r \in t .. u : new[j] = KeyInfo_Init("key", r, j)
      BY <2>3, LenProperties DEF IsRequest
    <2>6. Refilled(list.keys, m.keys, t, u)
      <3>1. \A i \in 1 .. Len(m.keys) :
               i \in 1 .. Len(list.keys) \/ i \in Len(list.keys) + 1 .. Len(m.keys)
        BY <1>1, <2>4
      <3>2. ASSUME NEW i \in Len(list.keys) + 1 .. Len(m.keys)
            PROVE  \E r \in t .. u, n \in Nat : m.keys[i] = KeyInfo_Init("key", r, n)
        <4>1. PICK j \in 1 .. Len(new) : m.keys[i] = new[j]
          BY <2>4 DEF Grown
        <4> QED
          BY <2>5, <4>1
      <3> QED
        BY <2>4, <3>1, <3>2 DEF Grown, Refilled
    <2>7. ASSUME ~AllocCanFail
          PROVE  Cardinality(Valid(m.keys)) = Cardinality(Valid(list.keys)) + need
      <3> HIDE DEF need
      <3>1. ASSUME NEW j \in 1 .. need PROVE new[j].status = "VALID"
        <4>1. PICK r \in t .. u : new[j] = KeyInfo_Init("key", r, j)
          BY <2>3, <2>5, <2>7
        <4> QED
          BY <4>1 DEF KeyInfo_Init
      <3> QED
        BY <1>1, <2>1, <2>3, <2>4, <2>7, <3>1, ValidExtended
    <2>8. ~AllocCanFail => Cardinality(Valid(m.keys)) >= Threshold
      BY <1>2, <2>7
    <2> QED
      BY <2>4, <2>6, <2>8
  <1> QED
    BY <1>3, <1>4

\* The critical section of KeyManager_CheckAllKeys, whose readings of the
\* clock lie between t and u.  Where a key comes from, which keys stay, and
\* how many are valid.
LEMMA Maintained ==
  ASSUME NEW list \in KeyInfoList, NEW t \in Nat, NEW u \in Nat,
         NEW now \in [1 .. Len(list.keys) + Threshold -> t .. u],
         NEW m \in Maintain(list, now)
  PROVE  /\ m \in KeyInfoList
         /\ Fits(list) => Fits(m)
         /\ \A j \in 1 .. Len(list.keys) :
               Safe(list) /\ u < KeyInfo_GetDeleteTime(list.keys[j]) => Safe(m)
         /\ \A i \in 1 .. Len(m.keys) :
               \/ \E j \in 1 .. Len(list.keys), r \in t .. u :
                     m.keys[i] = UpdateKeyStatus(list.keys[j], r)
               \/ \E r \in t .. u, n \in Nat : m.keys[i] = KeyInfo_Init("key", r, n)
         /\ \A j \in 1 .. Len(list.keys) : u < KeyInfo_GetDeleteTime(list.keys[j]) =>
               \E i \in 1 .. Len(m.keys), r \in t .. u :
                  m.keys[i] = UpdateKeyStatus(list.keys[j], r)
         /\ ~AllocCanFail => Cardinality(Valid(m.keys)) >= Threshold
  <1> DEFINE N == Len(list.keys)
             v == UpdateAll(list, now)
             later == Following(now, N)
  <1>0. N \in Nat /\ Threshold \in Nat
    BY LenProperties, ConfigAssumption DEF KeyInfoList
  <1>1. PICK l \in DeleteExpiredKeys(v) : m \in CheckAndRequestKeys(l, later)
    BY DEF Maintain
  <1>2. \A i \in 1 .. N : now[i] \in t .. u /\ now[i] \in Nat
    BY <1>0
  <1>3. /\ SameButStatus(list, v) /\ v.sound = list.sound
        /\ \A i \in 1 .. N :
              v.keys[i] = UpdateKeyStatus(list.keys[i], now[i]) /\ list.keys[i] \in Keys
    BY <1>2, AllUpdated
  <1>4. \A i \in 1 .. Threshold : later[i] \in t .. u
    BY <1>0 DEF Following
  <1> HIDE DEF v, later
  <1>5. /\ v \in KeyInfoList /\ Len(v.keys) = N
        /\ (Fits(list) => Fits(v)) /\ (Safe(list) => Safe(v))
    <2>1. Safe(list) => v.sound
      BY <1>3 DEF Safe
    <2> QED
      BY <1>3, <2>1, SameFits DEF SameButStatus
  <1>6. /\ l \in KeyInfoList /\ KeptOf(v.keys, l.keys, Len(v.keys))
        /\ Fits(v) => Fits(l)
        /\ Safe(v) /\ l.keys # <<>> => Safe(l)
    BY <1>1, <1>5, Deleted
  <1>7. /\ m \in KeyInfoList /\ Refilled(l.keys, m.keys, t, u)
        /\ (Fits(l) => Fits(m)) /\ (Safe(l) => Safe(m))
        /\ ~AllocCanFail => Cardinality(Valid(m.keys)) >= Threshold
    BY <1>1, <1>4, <1>6, Requested
  <1>8. \A i \in 1 .. Len(l.keys) : \E j \in 1 .. N, r \in t .. u :
           l.keys[i] = UpdateKeyStatus(list.keys[j], r)
    BY <1>2, <1>3, <1>5, <1>6 DEF KeptOf
  <1>9. ASSUME NEW i \in 1 .. Len(m.keys)
        PROVE  \/ \E j \in 1 .. N, r \in t .. u : m.keys[i] = UpdateKeyStatus(list.keys[j], r)
               \/ \E r \in t .. u, n \in Nat : m.keys[i] = KeyInfo_Init("key", r, n)
    BY <1>7, <1>8 DEF Refilled
  <1>10. ASSUME NEW j \in 1 .. N, u < KeyInfo_GetDeleteTime(list.keys[j])
         PROVE  /\ \E i \in 1 .. Len(m.keys), r \in t .. u :
                      m.keys[i] = UpdateKeyStatus(list.keys[j], r)
                /\ Safe(list) => Safe(m)
    <2>1. v.keys[j].status # "DELETED" /\ j \in 1 .. Len(v.keys)
      <3>1. KeyInfo_GetDeleteTime(list.keys[j]) \in Nat
        BY <1>3, ConfigAssumption DEF Keys, KeyInfo_GetDeleteTime, KeyInfo_GetExpireTime
      <3>2. ~(KeyInfo_GetDeleteTime(list.keys[j]) <= now[j])
        BY <1>2, <1>10, <3>1
      <3>3. /\ Current(v.keys[j], now[j])
            /\ KeyInfo_GetDeleteTime(v.keys[j]) = KeyInfo_GetDeleteTime(list.keys[j])
        BY <1>2, <1>3, Updated
      <3>4. v.keys[j].status # "DELETED"
        BY <3>2, <3>3, Zenon DEF Current
      <3> QED
        BY <1>5, <3>4
    <2>2. PICK i \in 1 .. Len(l.keys) : l.keys[i] = v.keys[j]
      BY <1>6, <2>1 DEF KeptOf
    <2>3. i \in 1 .. Len(m.keys) /\ m.keys[i] = l.keys[i]
      <3>1. Len(l.keys) \in Nat /\ Len(m.keys) \in Nat
        BY <1>6, <1>7, LenProperties DEF KeyInfoList
      <3> QED
        BY <1>7, <2>2, <3>1 DEF Refilled
    <2>4. l.keys # <<>>
      BY <2>2, EmptySeq
    <2> QED
      BY <1>2, <1>3, <1>5, <1>6, <1>7, <2>2, <2>3, <2>4
  <1> QED
    BY <1>5, <1>6, <1>7, <1>9, <1>10

\* The critical section of KeyManager_AddExternalKey, which reads the clock
\* twice.
LEMMA AddedExternal ==
  ASSUME NEW list \in KeyInfoList, NEW n \in Nat, NEW now \in [1 .. 2 -> Nat], NEW m \in AddExternal(list, now, n)
  PROVE  /\ m \in KeyInfoList
         /\ Fits(list) => Fits(m)
         /\ Safe(list) /\ list.keys # <<>> => m.sound
         /\ Len(list.keys) <= Len(m.keys)
         /\ \A i \in 1 .. Len(list.keys) :
               m.keys[i] \in {list.keys[i], UpdateKeyStatus(list.keys[i], now[2])}
         /\ \A i \in 1 .. Len(m.keys) :
               \/ i \in 1 .. Len(list.keys)
               \/ m.keys[i] = UpdateKeyStatus(KeyInfo_Init("ext", now[1], n), now[2])
  <1> DEFINE k  == KeyInfo_Init("ext", now[1], n)
             ks == list.keys
  <1>1. k \in Keys /\ now[2] \in Nat
    <2>1. "ext" \in {"key", "ext"} /\ now[1] \in Nat /\ now[2] \in Nat
      OBVIOUS
    <2> QED
      BY <2>1, NewKey
  <1>2. PICK l \in KeyInfoList_Add(list, k) : m = UpdateLast(l, now[2])
    BY DEF AddExternal
  <1> HIDE DEF k
  <1>3. /\ l \in KeyInfoList
        /\ (Fits(list) => Fits(l)) /\ (Safe(list) => Safe(l))
        /\ l.keys = Append(ks, k) \/ (l = list /\ AllocCanFail)
    BY <1>1, <1>2, Adding, AddingSafely
  <1>4. /\ ks \in Seq(Keys) /\ Len(ks) \in Nat /\ l.keys \in Seq(Keys)
        /\ l.sound \in BOOLEAN /\ l.block \in Nat /\ l.capacity \in Nat /\ Len(l.keys) \in Nat
    <2>1. /\ ks \in Seq(Keys) /\ l.keys \in Seq(Keys)
          /\ l.sound \in BOOLEAN /\ l.block \in Nat /\ l.capacity \in Nat
      BY <1>3 DEF KeyInfoList
    <2> QED
      BY <2>1, LenProperties
  <1>5. CASE l.keys = <<>>
    <2>0. m = [l EXCEPT !.sound = FALSE]
      BY <1>2, <1>5 DEF UpdateLast
    <2>1. m.keys = l.keys /\ ~m.sound /\ m \in KeyInfoList
      BY <1>3, <1>4, <2>0 DEF KeyInfoList
    <2>2. l = list
      <3>1. Len(Append(ks, k)) # 0
        BY <1>1, <1>4, Appended
      <3> QED
        BY <1>3, <1>5, <3>1, EmptySeq
    <2> QED
      BY <1>4, <1>5, <2>1, <2>2 DEF Fits
  <1>6. CASE l.keys # <<>>
    <2> DEFINE last == Len(l.keys)
               ms == [l.keys EXCEPT ![last] = UpdateKeyStatus(l.keys[last], now[2])]
    <2>1. last \in 1 .. Len(l.keys) /\ l.keys[last] \in Keys
      <3>1. last # 0
        BY <1>4, <1>6, EmptySeq
      <3> QED
        BY <1>4, <3>1, ElementOfSeq
    <2>2. ms \in Seq(Keys) /\ Len(ms) = Len(l.keys)
      <3>1. UpdateKeyStatus(l.keys[last], now[2]) \in Keys
        BY <1>1, <2>1, Updated
      <3> HIDE DEF last
      <3> QED
        BY <1>4, <2>1, <3>1, ExceptSeq
    <2>3. m.keys = ms /\ m.sound = l.sound /\ m.block = l.block /\ m.capacity = l.capacity
          /\ m \in KeyInfoList
      <3>1. m = [l EXCEPT !.keys = ms]
        BY <1>2, <1>3, <1>6 DEF UpdateLast, KeyInfoList
      <3> HIDE DEF ms
      <3> QED
        BY <1>3, <1>4, <2>2, <3>1 DEF KeyInfoList
    <2>4. (Fits(list) => Fits(m)) /\ (Safe(list) => m.sound)
      <3> HIDE DEF ms
      <3> QED
        BY <1>3, <2>2, <2>3 DEF Fits, Safe
    <2>5. \A i \in 1 .. Len(l.keys) :
             ms[i] = IF i = last THEN UpdateKeyStatus(l.keys[i], now[2]) ELSE l.keys[i]
      BY <1>4, <2>1
    <2> HIDE DEF ms
    <2>6. CASE l = list
      BY <1>4, <2>2, <2>3, <2>4, <2>5, <2>6
    <2>7. CASE l.keys = Append(ks, k)
      <3>1. /\ last = Len(ks) + 1 /\ l.keys[last] = k
            /\ \A i \in 1 .. Len(ks) : l.keys[i] = ks[i] /\ i # last /\ i \in 1 .. Len(l.keys)
        BY <1>1, <1>4, <2>7, Appended
      <3>2. \A i \in 1 .. Len(m.keys) : i \in 1 .. Len(ks) \/ i = last
        BY <1>4, <2>2, <2>3, <3>1
      <3>3. ms[last] = UpdateKeyStatus(k, now[2])
        BY <2>1, <2>5, <3>1
      <3>4. \A i \in 1 .. Len(ks) : ms[i] = ks[i]
        BY <2>5, <3>1
      <3>5. Len(ks) <= Len(m.keys)
        BY <1>4, <2>2, <2>3, <3>1
      <3> QED
        BY <2>3, <2>4, <3>2, <3>3, <3>4, <3>5 DEF k
    <2> QED
      BY <1>3, <2>6, <2>7
  <1> QED
    BY <1>5, <1>6

\* An empty list.
LEMMA Emptied ==
  ASSUME NEW list \in KeyInfoList
  PROVE  /\ KeyInfoList_Init \in KeyInfoList /\ KeyInfoList_Init.keys = <<>>
         /\ Fits(KeyInfoList_Init)
         /\ KeyInfoList_Free(list) \in KeyInfoList /\ KeyInfoList_Free(list).keys = <<>>
         /\ Fits(KeyInfoList_Free(list))
  <1>1. list.sound \in BOOLEAN /\ <<>> \in Seq(Keys) /\ Len(<<>>) = 0
    BY EmptySeq DEF KeyInfoList
  <1>2. KeyInfoList_Init \in KeyInfoList /\ KeyInfoList_Init.keys = <<>>
    BY <1>1 DEF KeyInfoList_Init, KeyInfoList
  <1>3. Fits(KeyInfoList_Init)
    BY <1>1 DEF KeyInfoList_Init, Fits
  <1>4. KeyInfoList_Free(list) =
           [keys |-> <<>>, capacity |-> 0, block |-> 0, sound |-> list.sound /\ ~Dangling(list)]
    BY DEF KeyInfoList_Init, KeyInfoList_Free
  <1>5. (list.sound /\ ~Dangling(list)) \in BOOLEAN
    OBVIOUS
  <1>6. KeyInfoList_Free(list) \in KeyInfoList /\ KeyInfoList_Free(list).keys = <<>>
    BY <1>1, <1>4, <1>5 DEF KeyInfoList
  <1>7. Fits(KeyInfoList_Free(list))
    BY <1>1, <1>4 DEF Fits
  <1> QED
    BY <1>2, <1>3, <1>6, <1>7

=============================================================================
