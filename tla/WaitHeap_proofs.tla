-------------------------- MODULE WaitHeap_proofs ---------------------------
(***************************************************************************)
(* The wait heap keeps its promise, for every set of events, every first   *)
(* capacity and whether or not memory can run out.                         *)
(***************************************************************************)
EXTENDS WaitHeap, Induction, FiniteSetTheorems, SequenceTheorems, TLAPS

LEMMA Parents ==
  \A i \in Nat : i >= 2 =>
    parent(i) \in 1 .. i - 1 /\ (i = 2 * parent(i) \/ i = 2 * parent(i) + 1)
  BY DEF parent

LEMMA Children ==
  \A i \in Nat \ {0} : parent(2 * i) = i /\ parent(2 * i + 1) = i
  BY DEF parent

\* Before is a strict order, total up to the events' numbers.
LEMMA Order ==
  ASSUME NEW a \in Offered, NEW b \in Offered, NEW c \in Offered
  PROVE  /\ ~Before(a, a)
         /\ Before(a, b) => ~Before(b, a)
         /\ ~Before(a, b) /\ ~Before(b, c) => ~Before(a, c)
  <1>1. a.seq \in Nat /\ b.seq \in Nat /\ c.seq \in Nat
    BY HeapAssumption
  <1> QED
    BY <1>1 DEF Before, Priority, priority_of

-----------------------------------------------------------------------------
(* What the operations do to the array. *)

Distinct(h) == \A i, j \in 1 .. Len(h) : h[i] = h[j] => i = j

LEMMA SameElements ==
  ASSUME NEW s, NEW t,
         \A k \in DOMAIN s : \E l \in DOMAIN t : s[k] = t[l],
         \A k \in DOMAIN t : \E l \in DOMAIN s : t[k] = s[l]
  PROVE  ToSet(s) = ToSet(t)
  BY DEF ToSet

LEMMA Swap ==
  ASSUME NEW h \in Seq(Offered), NEW i \in 1 .. Len(h), NEW j \in 1 .. Len(h)
  PROVE  /\ heap_swap(h, i, j) \in Seq(Offered)
         /\ Len(heap_swap(h, i, j)) = Len(h)
         /\ \A k \in 1 .. Len(h) : heap_swap(h, i, j)[k] =
              IF k = j THEN h[i] ELSE IF k = i THEN h[j] ELSE h[k]
         /\ Distinct(h) => Distinct(heap_swap(h, i, j))
         /\ ToSet(heap_swap(h, i, j)) = ToSet(h)
  <1> DEFINE s == heap_swap(h, i, j)
  <1>1. h \in [1 .. Len(h) -> Offered] /\ Len(h) \in Nat
    BY LenProperties
  <1>2. s \in [1 .. Len(h) -> Offered]
    BY <1>1 DEF heap_swap
  <1>3. s \in Seq(Offered) /\ Len(s) = Len(h)
    BY <1>1, <1>2, IsASeq, LenProperties
  <1>4. \A k \in 1 .. Len(h) : s[k] = IF k = j THEN h[i] ELSE IF k = i THEN h[j] ELSE h[k]
    BY <1>1 DEF heap_swap
  <1>5. Distinct(h) => Distinct(s)
    BY <1>3, <1>4 DEF Distinct
  <1>6. DOMAIN s = 1 .. Len(h) /\ DOMAIN h = 1 .. Len(h)
    BY <1>1, <1>2
  <1>7. \A k \in 1 .. Len(h) : \E l \in 1 .. Len(h) : s[k] = h[l]
    BY <1>4
  <1>8. \A k \in 1 .. Len(h) : \E l \in 1 .. Len(h) : h[k] = s[l]
    BY <1>4
  <1>9. ToSet(s) = ToSet(h)
    BY <1>6, <1>7, <1>8, SameElements
  <1> HIDE DEF s
  <1> QED
    BY <1>3, <1>4, <1>5, <1>9 DEF s

LEMMA SmallestIs ==
  ASSUME NEW h \in Seq(Offered), NEW i \in 1 .. Len(h)
  PROVE  LET m == Smallest(h, i)
         IN  /\ m \in 1 .. Len(h)
             /\ m = i \/ (parent(m) = i /\ m > i /\ Before(h[m], h[i]))
             /\ \A k \in 1 .. Len(h) : k \in {2 * i, 2 * i + 1} => ~Before(h[k], h[m])
  <1> DEFINE l == 2 * i
             c == IF l <= Len(h) /\ Before(h[l], h[i]) THEN l ELSE i
             m == Smallest(h, i)
  <1>1. Len(h) \in Nat /\ \A k \in 1 .. Len(h) : h[k] \in Offered
    BY LenProperties, ElementOfSeq
  <1>2. parent(l) = i /\ parent(l + 1) = i /\ l > i
    BY Children
  <1>3. m = IF l + 1 <= Len(h) /\ Before(h[l + 1], h[c]) THEN l + 1 ELSE c
    BY DEF Smallest
  <1>4. c \in 1 .. Len(h) /\ (c = i \/ (c = l /\ Before(h[l], h[i])))
    BY <1>1
  <1>5. m \in 1 .. Len(h) /\ (m = c \/ (m = l + 1 /\ Before(h[l + 1], h[c])))
    BY <1>1, <1>3, <1>4
  <1>6. l <= Len(h) => ~Before(h[l], h[c])
    BY <1>1, Order
  <1>7. l <= Len(h) => ~Before(h[l], h[m])
    BY <1>1, <1>3, <1>4, <1>6, Order
  <1>8. l + 1 <= Len(h) => ~Before(h[l + 1], h[m])
    BY <1>1, <1>3, Order
  <1>9. m = l + 1 => Before(h[m], h[i])
    BY <1>1, <1>2, <1>4, <1>5, Order
  <1> QED
    BY <1>2, <1>4, <1>5, <1>7, <1>8, <1>9

-----------------------------------------------------------------------------
(* The array stays in order. *)

HeapInv == HeapTypeOK /\ HeapOrder

\* What the invariant says of the elements of the array.
LEMMA Elements ==
  ASSUME HeapTypeOK
  PROVE  /\ Len(heap) \in Nat /\ DOMAIN heap = 1 .. Len(heap)
         /\ \A k \in 1 .. Len(heap) : heap[k] \in Offered /\ heap[k] \in ToSet(heap)
  <1>1. heap \in Seq(Offered)
    BY DEF HeapTypeOK
  <1>2. Len(heap) \in Nat /\ DOMAIN heap = 1 .. Len(heap)
        /\ \A k \in 1 .. Len(heap) : heap[k] \in Offered
    BY <1>1, LenProperties, ElementOfSeq
  <1> QED
    BY <1>2 DEF ToSet

LEMMA InvInit == Init => HeapInv
  <1> SUFFICES ASSUME Init PROVE HeapInv
    OBVIOUS
  <1>1. heap \in Seq(Offered) /\ Len(heap) = 0
    BY EmptySeq DEF Init
  <1> QED
    BY <1>1 DEF Init, HeapInv, HeapTypeOK, HeapOrder

\* A new event comes in as a leaf, and is the one that is out of order.
LEMMA InvPush == ASSUME HeapInv, NEW e \in Offered, heap_push(e) PROVE HeapInv'
  <1> USE DEF HeapInv, HeapTypeOK
  <1>1. heap' \in Seq(Offered) /\ Len(heap') = Len(heap) + 1 /\ Len(heap) \in Nat
        /\ heap'[Len(heap) + 1] = e
        /\ \A k \in 1 .. Len(heap) : heap'[k] = heap[k]
    BY AppendProperties, LenProperties DEF heap_push
  <1>2. \A k \in 1 .. Len(heap) : heap[k] \in ToSet(heap)
    BY Elements
  <1>3. \A k \in 1 .. Len(heap) : heap[k] # e
    BY <1>2 DEF heap_push
  <1>4. \A j, k \in 1 .. Len(heap') : heap'[j] = heap'[k] => j = k
    BY <1>1, <1>3
  <1>5. wait_cap' \in Nat /\ Len(heap') <= wait_cap'
    BY <1>1, HeapAssumption DEF heap_push, Grown
  <1>6. HeapTypeOK'
    BY <1>1, <1>4, <1>5 DEF heap_push
  <1>7. ASSUME NEW k \in 2 .. Len(heap')
        PROVE  (k # idx' => Ordered(k)') /\ parent(k) # idx'
    <2>0. k \in Nat /\ k >= 2 /\ k <= Len(heap) + 1
      BY <1>1
    <2>1. parent(k) \in 1 .. k - 1
      BY <2>0, Parents
    <2>2. k # idx' => k \in 2 .. Len(heap) /\ parent(k) \in 1 .. Len(heap)
      BY <1>1, <2>0, <2>1 DEF heap_push
    <2>3. parent(k) # idx'
      BY <1>1, <2>0, <2>1 DEF heap_push
    <2> QED
      BY <1>1, <2>2, <2>3 DEF heap_push, HeapOrder, Ordered
  <1> QED
    BY <1>6, <1>7 DEF heap_push, HeapOrder

\* Going up, the event passes its parent, which the children it leaves
\* behind are in order with.
LEMMA InvUp == ASSUME HeapInv, heap_up PROVE HeapInv'
  <1> USE DEF HeapInv
  <1>0. heap \in Seq(Offered) /\ idx \in 1 .. Len(heap) /\ op = "up" /\ Len(heap) \in Nat
        /\ \A k \in 1 .. Len(heap) : heap[k] \in Offered
    BY Elements DEF HeapTypeOK, heap_up
  <1>1. CASE op' = "idle"
    <2>1. idx = 1 \/ Ordered(idx)
      BY <1>0, <1>1 DEF heap_up, Ordered
    <2>2. \A k \in 2 .. Len(heap) : Ordered(k)
      BY <1>0, <2>1 DEF HeapOrder
    <2> QED
      BY <1>0, <1>1, <2>2 DEF heap_up, HeapTypeOK, HeapOrder, Ordered
  <1>2. CASE op' = "up"
    <2> DEFINE p == parent(idx)
    <2>1. idx > 1 /\ Before(heap[idx], heap[p]) /\ heap' = heap_swap(heap, idx, p)
          /\ idx' = p
      BY <1>0, <1>2 DEF heap_up
    <2>2. p \in 1 .. idx - 1
      BY <1>0, <2>1, Parents
    <2>3. /\ heap' \in Seq(Offered) /\ Len(heap') = Len(heap)
          /\ \A k \in 1 .. Len(heap) : heap'[k] =
               IF k = p THEN heap[idx] ELSE IF k = idx THEN heap[p] ELSE heap[k]
          /\ Distinct(heap')
      <3>1. p \in 1 .. Len(heap) /\ Distinct(heap)
        BY <1>0, <2>2 DEF Distinct, HeapTypeOK
      <3> DEFINE s == heap_swap(heap, idx, p)
      <3>2. s \in Seq(Offered) /\ Len(s) = Len(heap) /\ Distinct(s)
        BY <1>0, <3>1, Swap
      <3>3. \A k \in 1 .. Len(heap) : s[k] =
              IF k = p THEN heap[idx] ELSE IF k = idx THEN heap[p] ELSE heap[k]
        <4>1. heap \in Seq(Offered) /\ idx \in 1 .. Len(heap)
          BY <1>0
        <4> HIDE DEF p
        <4> QED
          BY <3>1, <4>1, Swap
      <3> QED
        BY <2>1, <3>2, <3>3
    <2>4. HeapTypeOK'
      BY <1>0, <1>2, <2>1, <2>2, <2>3 DEF heap_up, HeapTypeOK, Distinct
    <2>5. ASSUME NEW k \in 2 .. Len(heap), k # p
          PROVE  ~Before(heap'[k], heap'[parent(k)])
      <3> DEFINE pk == parent(k)
      <3>0. pk \in 1 .. k - 1 /\ heap[k] \in Offered /\ heap[pk] \in Offered
            /\ heap[p] \in Offered /\ heap[idx] \in Offered
        BY <1>0, <2>2, Parents
      <3>1. CASE k = idx
        BY <1>0, <2>1, <2>2, <2>3, <3>0, <3>1, Order
      <3>2. CASE k # idx /\ pk = idx
        BY <1>0, <2>1, <2>2, <2>3, <3>0, <3>2 DEF HeapOrder, Sifted
      <3>3. CASE k # idx /\ pk = p
        <4>1. ~Before(heap[k], heap[p])
          BY <1>0, <3>3 DEF HeapOrder, Ordered
        <4>2. ~Before(heap[k], heap[idx])
          <5>1. ~Before(heap[p], heap[idx])
            BY <2>1, <3>0, Order
          <5> QED
            BY <3>0, <4>1, <5>1, Order
        <4> QED
          BY <1>0, <2>1, <2>2, <2>3, <2>5, <3>0, <3>3, <4>2
      <3>4. CASE k # idx /\ pk # idx /\ pk # p
        BY <1>0, <2>1, <2>2, <2>3, <2>5, <3>0, <3>4 DEF HeapOrder, Ordered
      <3> QED
        BY <3>1, <3>2, <3>3, <3>4
    <2>6. ASSUME NEW k \in 2 .. Len(heap), parent(k) = p, p > 1
          PROVE  ~Before(heap'[k], heap'[parent(p)])
      <3> DEFINE g == parent(p)
      <3>0. g \in 1 .. p - 1 /\ k > p /\ heap[k] \in Offered /\ heap[g] \in Offered
            /\ heap[p] \in Offered
        <4>1. g \in 1 .. p - 1 /\ k > p
          BY <1>0, <2>2, <2>6, Parents
        <4>2. k \in 1 .. Len(heap) /\ g \in 1 .. Len(heap) /\ p \in 1 .. Len(heap)
          BY <1>0, <2>2, <4>1
        <4> QED
          BY <1>0, <4>1, <4>2
      <3>1. ~Before(heap[p], heap[g])
        BY <1>0, <2>2, <2>6 DEF HeapOrder, Ordered
      <3>2. k # idx => ~Before(heap[k], heap[g])
        <4>1. k # idx => ~Before(heap[k], heap[p])
          BY <1>0, <2>6 DEF HeapOrder, Ordered
        <4> QED
          BY <3>0, <3>1, <4>1, Order
      <3>3. heap'[g] = heap[g] /\ heap'[k] = IF k = idx THEN heap[p] ELSE heap[k]
        <4>1. g \in 1 .. Len(heap) /\ g # p /\ g # idx /\ k \in 1 .. Len(heap) /\ k # p
          BY <1>0, <2>2, <3>0
        <4> QED
          BY <2>3, <4>1
      <3> QED
        BY <3>1, <3>2, <3>3
    <2>7. HeapOrder'
      BY <1>2, <2>1, <2>3, <2>5, <2>6 DEF HeapOrder, Ordered, Sifted
    <2> QED
      BY <2>4, <2>7
  <1> QED
    BY <1>0, <1>1, <1>2 DEF heap_up

\* Going down, the event changes places with the first of its children,
\* which is in order with the event's former parent and with its sibling.
LEMMA InvDown == ASSUME HeapInv, heap_down PROVE HeapInv'
  <1> USE DEF HeapInv
  <1>0. heap \in Seq(Offered) /\ idx \in 1 .. Len(heap) /\ op = "down" /\ Len(heap) \in Nat
        /\ \A k \in 1 .. Len(heap) : heap[k] \in Offered
    BY Elements DEF HeapTypeOK, heap_down
  <1> DEFINE m == Smallest(heap, idx)
  <1>1. /\ m \in 1 .. Len(heap)
        /\ m = idx \/ (parent(m) = idx /\ m > idx /\ Before(heap[m], heap[idx]))
        /\ \A k \in 1 .. Len(heap) : k \in {2 * idx, 2 * idx + 1} => ~Before(heap[k], heap[m])
    BY <1>0, SmallestIs
  <1>2. \A k \in 2 .. Len(heap) : parent(k) = idx => ~Before(heap[k], heap[m])
    <2>1. ASSUME NEW k \in 2 .. Len(heap), parent(k) = idx
          PROVE  k \in 1 .. Len(heap) /\ k \in {2 * idx, 2 * idx + 1}
      <3>1. k \in Nat /\ k >= 2 /\ k \in 1 .. Len(heap)
        BY <1>0
      <3> QED
        BY <2>1, <3>1, Parents
    <2> QED
      BY <1>1, <2>1
  <1>3. CASE op' = "idle"
    <2>1. m = idx /\ UNCHANGED <<heap, idx>>
      BY <1>0, <1>3 DEF heap_down
    <2>2. \A k \in 2 .. Len(heap) : Ordered(k)
      BY <1>0, <1>2, <2>1 DEF HeapOrder, Ordered
    <2> QED
      BY <1>0, <1>3, <2>1, <2>2 DEF heap_down, HeapTypeOK, HeapOrder, Ordered
  <1>4. CASE op' = "down"
    <2>1. m # idx /\ heap' = heap_swap(heap, idx, m) /\ idx' = m
      BY <1>0, <1>4 DEF heap_down
    <2>2. parent(m) = idx /\ m > idx /\ Before(heap[m], heap[idx])
      BY <1>1, <2>1
    <2>3. /\ heap' \in Seq(Offered) /\ Len(heap') = Len(heap)
          /\ \A k \in 1 .. Len(heap) : heap'[k] =
               IF k = m THEN heap[idx] ELSE IF k = idx THEN heap[m] ELSE heap[k]
          /\ Distinct(heap')
      <3> DEFINE s == heap_swap(heap, idx, m)
      <3>1. m \in 1 .. Len(heap) /\ Distinct(heap)
        BY <1>0, <1>1 DEF Distinct, HeapTypeOK
      <3> HIDE DEF m
      <3>2. s \in Seq(Offered) /\ Len(s) = Len(heap) /\ Distinct(s)
        BY <1>0, <3>1, Swap
      <3>3. \A k \in 1 .. Len(heap) : s[k] =
              IF k = m THEN heap[idx] ELSE IF k = idx THEN heap[m] ELSE heap[k]
        BY <1>0, <3>1, Swap
      <3> QED
        BY <2>1, <3>2, <3>3
    <2> HIDE DEF m
    <2>4. HeapTypeOK'
      BY <1>0, <1>1, <1>4, <2>1, <2>3 DEF heap_down, HeapTypeOK, Distinct
    <2>5. ASSUME NEW k \in 2 .. Len(heap), parent(k) # m
          PROVE  ~Before(heap'[k], heap'[parent(k)])
      <3> DEFINE pk == parent(k)
      <3>0. pk \in 1 .. k - 1 /\ heap[k] \in Offered /\ heap[pk] \in Offered
            /\ heap[m] \in Offered /\ heap[idx] \in Offered
        BY <1>0, <1>1, Parents
      <3>1. CASE k = m
        <4>1. heap'[k] = heap[idx] /\ heap'[pk] = heap[m]
          BY <1>0, <1>1, <2>1, <2>2, <2>3, <3>1
        <4> QED
          BY <2>2, <3>0, <4>1, Order
      <3>2. CASE k # m /\ pk = idx
        <4>1. heap'[k] = heap[k] /\ heap'[pk] = heap[m]
          BY <1>0, <2>1, <2>3, <3>0, <3>2
        <4> QED
          BY <1>2, <3>2, <4>1
      <3>3. CASE k = idx
        <4>1. heap'[k] = heap[m] /\ heap'[pk] = heap[pk]
          BY <1>0, <2>1, <2>3, <2>5, <3>0, <3>3
        <4>2. Sifted(m) /\ parent(m) = idx
          BY <1>0, <1>1, <2>2, <3>3 DEF HeapOrder
        <4> QED
          BY <3>3, <4>1, <4>2 DEF Sifted
      <3>4. CASE k # m /\ k # idx /\ pk # idx
        BY <1>0, <2>1, <2>3, <2>5, <3>0, <3>4 DEF HeapOrder, Ordered
      <3> QED
        BY <3>1, <3>2, <3>3, <3>4
    <2>6. ASSUME NEW k \in 2 .. Len(heap), parent(k) = m
          PROVE  ~Before(heap'[k], heap'[parent(m)])
      <3>1. k # m /\ k # idx
        BY <1>0, <1>1, <2>2, <2>6, Parents
      <3>2. heap'[k] = heap[k] /\ heap'[parent(m)] = heap[m]
        BY <1>0, <2>1, <2>2, <2>3, <3>1
      <3>3. Ordered(k)
        BY <1>0, <2>1, <2>6 DEF HeapOrder
      <3> QED
        BY <2>6, <3>2, <3>3 DEF Ordered
    <2>7. HeapOrder'
      BY <1>4, <2>1, <2>3, <2>5, <2>6 DEF HeapOrder, Ordered, Sifted
    <2> QED
      BY <2>4, <2>7
  <1> QED
    BY <1>0, <1>3, <1>4 DEF heap_down

\* The shortened array, with the last event in the place of the first.
LEMMA Pop ==
  ASSUME HeapTypeOK, heap_pop
  PROVE  /\ Len(heap) \in Nat /\ Len(heap) >= 1
         /\ heap' \in Seq(Offered) /\ Len(heap') = Len(heap) - 1
         /\ \A k \in 1 .. Len(heap) - 1 :
              heap'[k] = IF k = 1 THEN heap[Len(heap)] ELSE heap[k]
  <1>1. Len(heap) \in Nat /\ Len(heap) >= 1
        /\ \A k \in 1 .. Len(heap) : heap[k] \in Offered
    BY Elements, EmptySeq DEF heap_pop, HeapTypeOK
  <1>2. CASE Len(heap) = 1
    BY <1>1, <1>2, EmptySeq DEF heap_pop
  <1>3. CASE Len(heap) > 1
    <2> DEFINE n == Len(heap) - 1
    <2>1. heap' = [k \in 1 .. n |-> IF k = 1 THEN heap[Len(heap)] ELSE heap[k]]
      BY <1>1, <1>3 DEF heap_pop
    <2>2. n \in Nat /\ heap' \in [1 .. n -> Offered]
      BY <1>1, <2>1
    <2>3. heap' \in Seq(Offered) /\ Len(heap') = n
      BY <2>2, IsASeq, LenProperties
    <2> QED
      BY <1>1, <2>1, <2>3
  <1>4. Len(heap) = 1 \/ Len(heap) > 1
    <2>1. \A n \in Nat : n >= 1 => n = 1 \/ n > 1
      OBVIOUS
    <2> QED
      BY <1>1, <2>1
  <1> QED
    BY <1>2, <1>3, <1>4

LEMMA InvPop == ASSUME HeapInv, heap_pop PROVE HeapInv'
  <1> USE DEF HeapInv
  <1>1. /\ heap' \in Seq(Offered) /\ Len(heap') = Len(heap) - 1
        /\ \A k \in 1 .. Len(heap) - 1 :
              heap'[k] = IF k = 1 THEN heap[Len(heap)] ELSE heap[k]
    BY Pop
  <1>2. Len(heap) \in Nat /\ Len(heap) >= 1
    BY Pop
  <1>3. HeapTypeOK'
    <2>1. \/ op' = "idle" /\ Len(heap) = 1 /\ idx' = idx
          \/ op' = "down" /\ idx' = 1 /\ Len(heap) > 1
      BY DEF heap_pop
    <2>2. idx' \in Nat \ {0} /\ wait_cap' = wait_cap /\ lost' = lost
      BY <2>1, Pop DEF heap_pop, HeapTypeOK
    <2>3. \A i, j \in 1 .. Len(heap') : heap'[i] = heap'[j] => i = j
      BY <1>1, <1>2 DEF HeapTypeOK
    <2> QED
      BY <1>1, <1>2, <2>1, <2>2, <2>3 DEF HeapTypeOK
  <1>4. ASSUME NEW k \in 2 .. Len(heap'), parent(k) # 1
        PROVE  Ordered(k)'
    <2>1. k \in Nat /\ k >= 2 /\ k \in 2 .. Len(heap) /\ k <= Len(heap) - 1
      BY <1>1, <1>2
    <2>2. parent(k) \in 1 .. k - 1
      BY <2>1, Parents
    <2>3. Ordered(k)
      BY <2>1 DEF HeapOrder, heap_pop
    <2> QED
      BY <1>1, <1>2, <1>4, <2>1, <2>2, <2>3 DEF Ordered
  <1>5. HeapOrder'
    <2>1. CASE op' = "down"
      BY <1>4, <2>1 DEF HeapOrder, heap_pop
    <2>2. CASE op' # "down"
      BY <1>1, <1>2, <2>2 DEF HeapOrder, heap_pop
    <2> QED
      BY <2>1, <2>2
  <1> QED
    BY <1>3, <1>5

LEMMA InvStep == HeapInv /\ [Next]_vars => HeapInv'
  <1> SUFFICES ASSUME HeapInv, [Next]_vars PROVE HeapInv'
    OBVIOUS
  <1>1. ASSUME NEW e \in Offered \ lost, heap_push_fails(e) PROVE HeapInv'
    BY <1>1 DEF heap_push_fails, HeapInv, HeapTypeOK, HeapOrder, Ordered, Sifted
  <1>2. CASE UNCHANGED vars
    BY <1>2 DEF vars, HeapInv, HeapTypeOK, HeapOrder, Ordered, Sifted
  <1> QED
    BY <1>1, <1>2, InvPush, InvUp, InvPop, InvDown DEF Next

LEMMA InvAlways == Spec => []HeapInv
  BY InvInit, InvStep, PTL DEF Spec

\* No event is written past the end of the block or stored twice.
THEOREM ArrayTypeCorrect == Spec => []HeapTypeOK
  BY InvAlways, PTL DEF HeapInv

\* The array is a heap between operations, and during them it is one but for
\* the event on its way.
THEOREM ArrayIsAHeap == Spec => []HeapOrder
  BY InvAlways, PTL DEF HeapInv

-----------------------------------------------------------------------------
(* The refinement. *)

\* Every event comes after the root or level with it: the least index whose
\* event did not would have a parent that did, and would be before it.
LEMMA RootFirst ==
  ASSUME HeapInv, op = "idle", heap # <<>>
  PROVE  IsTop(ToSet(heap), heap[1])
  <1> USE DEF HeapInv
  <1>1. Len(heap) \in Nat /\ Len(heap) >= 1 /\ DOMAIN heap = 1 .. Len(heap)
        /\ \A k \in 1 .. Len(heap) : heap[k] \in Offered /\ heap[k] \in ToSet(heap)
    <2>1. heap \in Seq(Offered)
      BY DEF HeapTypeOK
    <2> QED
      BY <2>1, Elements, EmptySeq
  <1> DEFINE T == {k \in 1 .. Len(heap) : Before(heap[k], heap[1])}
  <1>2. T = {}
    <2>1. SUFFICES ASSUME T # {} PROVE FALSE
      OBVIOUS
    <2>2. PICK k \in T : \A j \in T : k <= j
      <3>1. T \in SUBSET Nat
        BY <1>1
      <3> HIDE DEF T
      <3> QED
        BY <2>1, <3>1, LeastNumber
    <2>3. k \in 1 .. Len(heap) /\ Before(heap[k], heap[1])
      BY <2>2
    <2>4. k # 1
      BY <1>1, <2>3, Order
    <2>5. k \in Nat /\ k >= 2 /\ k \in 2 .. Len(heap)
      BY <1>1, <2>3, <2>4
    <2> DEFINE p == parent(k)
    <2>6. p \in 1 .. k - 1 /\ p \in 1 .. Len(heap)
      BY <1>1, <2>5, Parents
    <2>7. ~Before(heap[p], heap[1])
      BY <2>2, <2>5, <2>6
    <2>8. ~Before(heap[k], heap[p])
      BY <2>5 DEF HeapOrder, Ordered
    <2> QED
      BY <1>1, <2>3, <2>6, <2>7, <2>8, Order
  <1>3. \A x \in ToSet(heap) : ~Before(x, heap[1])
    BY <1>1, <1>2 DEF ToSet
  <1> QED
    BY <1>1, <1>3 DEF IsTop

\* Each step of the array is a step of the set, or none.
LEMMA RefinesStep ==
  ASSUME HeapInv, HeapInv', [Next]_vars
  PROVE  [Promise!Next]_<<ToSet(heap), out, lost>>
  <1> USE DEF Promise!Next
  <1>0. heap \in Seq(Offered) /\ DOMAIN heap = 1 .. Len(heap) /\ Len(heap) \in Nat
        /\ \A k \in 1 .. Len(heap) : heap[k] \in Offered /\ heap[k] \in ToSet(heap)
    BY Elements DEF HeapInv, HeapTypeOK
  <1>1. ASSUME NEW e \in Offered, heap_push(e) PROVE Promise!Insert(e)
    <2>1. Len(heap') = Len(heap) + 1 /\ heap'[Len(heap) + 1] = e
          /\ DOMAIN heap' = 1 .. Len(heap')
          /\ \A k \in 1 .. Len(heap) : heap'[k] = heap[k]
      BY <1>0, <1>1, AppendProperties, LenProperties DEF heap_push
    <2>2. ToSet(heap') = ToSet(heap) \union {e}
      <3>1. ASSUME NEW x \in ToSet(heap') PROVE x \in ToSet(heap) \union {e}
        <4>1. PICK k \in 1 .. Len(heap) + 1 : x = heap'[k]
          BY <2>1 DEF ToSet
        <4>2. k \in 1 .. Len(heap) \/ k = Len(heap) + 1
          BY <1>0
        <4> QED
          BY <1>0, <2>1, <4>1, <4>2
      <3>2. ASSUME NEW x \in ToSet(heap) PROVE x \in ToSet(heap')
        <4>1. PICK k \in 1 .. Len(heap) : x = heap[k]
          BY <1>0 DEF ToSet
        <4>2. k \in DOMAIN heap' /\ x = heap'[k]
          BY <1>0, <2>1, <4>1
        <4> QED
          BY <4>2 DEF ToSet
      <3>3. e \in ToSet(heap')
        <4>1. Len(heap) + 1 \in DOMAIN heap'
          BY <1>0, <2>1
        <4> QED
          BY <2>1, <4>1 DEF ToSet
      <3> QED
        BY <3>1, <3>2, <3>3
    <2> QED
      BY <1>1, <2>2 DEF heap_push, Promise!Insert
  <1>2. ASSUME NEW e \in Offered, heap_push_fails(e) PROVE Promise!Refuse(e)
    BY <1>2 DEF heap_push_fails, Promise!Refuse
  <1>3. CASE heap_up
    <2>1. ToSet(heap') = ToSet(heap)
      <3>1. CASE heap' = heap
        BY <3>1
      <3>2. CASE idx > 1 /\ heap' = heap_swap(heap, idx, parent(idx))
        <4>1. idx \in 1 .. Len(heap) /\ idx \in Nat /\ idx >= 2
          BY <1>0, <1>3, <3>2 DEF heap_up, HeapInv, HeapTypeOK
        <4>2. parent(idx) \in 1 .. Len(heap)
          BY <1>0, <4>1, Parents
        <4> QED
          BY <1>0, <3>2, <4>1, <4>2, Swap
      <3> QED
        BY <1>3, <3>1, <3>2 DEF heap_up
    <2> QED
      BY <1>3, <2>1 DEF heap_up
  <1>4. CASE heap_down
    <2>1. ToSet(heap') = ToSet(heap)
      <3>1. idx \in 1 .. Len(heap)
        BY <1>4 DEF heap_down, HeapInv, HeapTypeOK
      <3>2. Smallest(heap, idx) \in 1 .. Len(heap)
        BY <1>0, <3>1, SmallestIs
      <3> QED
        BY <1>0, <1>4, <3>1, <3>2, Swap DEF heap_down
    <2> QED
      BY <1>4, <2>1 DEF heap_down
  <1>5. ASSUME heap_pop PROVE heap[1] \in Offered /\ Promise!Extract(heap[1])
    <2>1. /\ Len(heap) >= 1
          /\ heap' \in Seq(Offered) /\ Len(heap') = Len(heap) - 1
          /\ \A k \in 1 .. Len(heap) - 1 :
               heap'[k] = IF k = 1 THEN heap[Len(heap)] ELSE heap[k]
      BY <1>5, Pop DEF HeapInv
    <2>2. DOMAIN heap' = 1 .. Len(heap) - 1
      BY <2>1, LenProperties
    <2>3. \A j, k \in 1 .. Len(heap) : heap[j] = heap[k] => j = k
      BY DEF HeapInv, HeapTypeOK
    <2>4. ASSUME NEW x \in ToSet(heap') PROVE x \in ToSet(heap) /\ x # heap[1]
      <3>1. PICK k \in 1 .. Len(heap) - 1 : x = heap'[k]
        BY <2>2 DEF ToSet
      <3>2. PICK l \in 2 .. Len(heap) : x = heap[l]
        BY <1>0, <2>1, <3>1
      <3> QED
        BY <1>0, <2>3, <3>2
    <2>5. ASSUME NEW x \in ToSet(heap), x # heap[1] PROVE x \in ToSet(heap')
      <3>1. PICK k \in 2 .. Len(heap) : x = heap[k]
        BY <1>0, <2>5 DEF ToSet
      <3>2. \E l \in 1 .. Len(heap) - 1 : x = heap'[l]
        <4>1. CASE k = Len(heap)
          BY <1>0, <2>1, <3>1, <4>1
        <4>2. CASE k # Len(heap)
          <5>1. k \in 1 .. Len(heap) - 1 /\ k # 1
            <6>1. \A n \in Nat : \A i \in 2 .. n : i # n => i \in 1 .. n - 1 /\ i # 1
              OBVIOUS
            <6> QED
              BY <1>0, <4>2, <6>1
          <5> QED
            BY <2>1, <3>1, <5>1
        <4> QED
          BY <4>1, <4>2
      <3> QED
        BY <2>2, <3>2 DEF ToSet
    <2>6. ToSet(heap') = ToSet(heap) \ {heap[1]}
      BY <2>4, <2>5
    <2>7. IsTop(ToSet(heap), heap[1])
      BY <1>5, RootFirst DEF heap_pop
    <2>8. Promise!IsTop(ToSet(heap), heap[1])
      BY <2>7 DEF IsTop, Before, Priority, priority_of, Promise!IsTop, Promise!Before,
         Promise!Priority, Promise!priority_of
    <2> QED
      BY <1>0, <1>5, <2>1, <2>6, <2>8 DEF heap_pop, Promise!Extract
  <1>6. CASE UNCHANGED vars
    BY <1>6 DEF vars
  <1> QED
    BY <1>1, <1>2, <1>3, <1>4, <1>5, <1>6 DEF Next

\* The array and its loops implement the set that the scheduler relies on,
\* whatever is pushed and popped and whenever the array fails to grow.
THEOREM ArrayImplementsSet == Spec => ImplementsWaitSet
  <1>1. Init => Promise!Init
    BY DEF Init, Promise!Init, ToSet, Promise!NoEvent, NoEvent
  <1>2. HeapInv /\ HeapInv' /\ [Next]_vars => [Promise!Next]_<<ToSet(heap), out, lost>>
    BY RefinesStep
  <1> QED
    BY <1>1, <1>2, InvAlways, PTL DEF Spec, ImplementsWaitSet, Promise!Spec

=============================================================================
