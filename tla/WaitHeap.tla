------------------------------ MODULE WaitHeap ------------------------------
(***************************************************************************)
(* The wait heap of src/core/queue.c as it is stored: a binary heap in an  *)
(* array that grows by doubling.  QksQueue abstracts it by a set.          *)
(*                                                                         *)
(* The array is 1-based here, so the parent of i is i \div 2.  Each pass   *)
(* through the loop of heap_up or heap_down is one step.  All of it runs   *)
(* under q->mu: no operation begins before the previous one has ended.     *)
(***************************************************************************)
EXTENDS QksEvent, SequencesExt

CONSTANTS
    Offered,         \* the events that the scheduler may put in
    FirstCap,        \* the capacity of the first block, 16
    AllocCanFail     \* TRUE: realloc may fail

\* The scheduler's events have numbers of their own (SeqInv of QksInvariants).
ASSUME HeapAssumption ==
    /\ Offered \subseteq [id : Nat, seq : Nat, type : EventTypes, dir : Directions]
    /\ \A e1, e2 \in Offered : e1.seq = e2.seq => e1 = e2
    /\ FirstCap \in Nat \ {0} /\ AllocCanFail \in BOOLEAN

VARIABLES
    heap,            \* wait_heap[0 .. wait_size - 1]
    wait_cap,
    op,              \* "idle", or the loop that runs: "up" or "down"
    idx,             \* the loop's index
    out,             \* the event popped last
    lost             \* auxiliary: the events whose push has failed

vars == <<heap, wait_cap, op, idx, out, lost>>

Init ==
    /\ heap = <<>> /\ wait_cap = 0
    /\ op = "idle" /\ idx = 1
    /\ out = NoEvent /\ lost = {}

-----------------------------------------------------------------------------
parent(i) == i \div 2

heap_swap(h, i, j) == [h EXCEPT ![i] = h[j], ![j] = h[i]]

\* A bug: the right child is not looked at.
Smallest_LeftOnly(h, i) ==
    IF 2 * i <= Len(h) /\ Before(h[2 * i], h[i]) THEN 2 * i ELSE i

\* The index, among i and its children, of the event to be served first.
Smallest(h, i) ==
    LET l == 2 * i
        m == IF l <= Len(h) /\ Before(h[l], h[i]) THEN l ELSE i
    IN  IF l + 1 <= Len(h) /\ Before(h[l + 1], h[m]) THEN l + 1 ELSE m

\* A bug: the block grows one push too late.
Grown_Late == IF Len(heap) > wait_cap THEN 2 * wait_cap
              ELSE IF wait_cap = 0 THEN FirstCap ELSE wait_cap

\* The capacity with room for one more event.
Grown == IF Len(heap) + 1 <= wait_cap THEN wait_cap
         ELSE IF wait_cap = 0 THEN FirstCap ELSE 2 * wait_cap

-----------------------------------------------------------------------------
heap_push(e) ==
    /\ op = "idle" /\ e \notin ToSet(heap)
    /\ wait_cap' = Grown
    /\ heap' = Append(heap, e)
    /\ op' = "up" /\ idx' = Len(heap')
    /\ UNCHANGED <<out, lost>>

\* The array cannot grow.  qks_queue_push_wait ignores that and reports
\* success.
heap_push_fails(e) ==
    /\ AllocCanFail
    /\ op = "idle" /\ e \notin ToSet(heap) /\ Grown # wait_cap
    /\ lost' = lost \union {e}
    /\ UNCHANGED <<heap, wait_cap, op, idx, out>>

\* A bug: the event is compared with the root instead of its parent.
heap_up_Root ==
    /\ op = "up"
    /\ IF idx > 1 /\ Before(heap[idx], heap[1])
       THEN heap' = heap_swap(heap, idx, 1) /\ idx' = 1 /\ op' = op
       ELSE op' = "idle" /\ UNCHANGED <<heap, idx>>
    /\ UNCHANGED <<wait_cap, out, lost>>

heap_up ==
    /\ op = "up"
    /\ \/ /\ idx > 1 /\ Before(heap[idx], heap[parent(idx)])
          /\ heap' = heap_swap(heap, idx, parent(idx))
          /\ idx' = parent(idx) /\ UNCHANGED op
       \/ /\ ~(idx > 1 /\ Before(heap[idx], heap[parent(idx)]))
          /\ op' = "idle" /\ UNCHANGED <<heap, idx>>
    /\ UNCHANGED <<wait_cap, out, lost>>

\* The last event takes the place of the first.
heap_pop ==
    /\ op = "idle" /\ heap # <<>>
    /\ out' = heap[1]
    /\ \/ Len(heap) = 1 /\ heap' = <<>> /\ UNCHANGED <<op, idx>>
       \/ /\ Len(heap) > 1
          /\ heap' = [i \in 1 .. Len(heap) - 1 |-> IF i = 1 THEN heap[Len(heap)] ELSE heap[i]]
          /\ op' = "down" /\ idx' = 1
    /\ UNCHANGED <<wait_cap, lost>>

heap_down ==
    /\ op = "down"
    /\ \/ /\ Smallest(heap, idx) # idx
          /\ heap' = heap_swap(heap, idx, Smallest(heap, idx))
          /\ idx' = Smallest(heap, idx) /\ UNCHANGED op
       \/ /\ Smallest(heap, idx) = idx
          /\ op' = "idle" /\ UNCHANGED <<heap, idx>>
    /\ UNCHANGED <<wait_cap, out, lost>>

Next ==
    \/ \E e \in Offered \ lost : heap_push(e) \/ heap_push_fails(e)
    \/ heap_up \/ heap_pop \/ heap_down

Spec == Init /\ [][Next]_vars

-----------------------------------------------------------------------------
(* Properties. *)

\* Type invariant; no event is written past the end of the block, and none
\* is stored twice.
HeapTypeOK ==
    /\ heap \in Seq(Offered) /\ Len(heap) <= wait_cap
    /\ \A i, j \in 1 .. Len(heap) : heap[i] = heap[j] => i = j
    /\ op \in {"idle", "up", "down"} /\ idx \in Nat \ {0}
    /\ op # "idle" => idx \in 1 .. Len(heap)
    /\ wait_cap \in Nat /\ lost \subseteq Offered

Ordered(i) == ~Before(heap[i], heap[parent(i)])
Sifted(i)  == ~Before(heap[i], heap[parent(parent(i))])

\* No event is to be served before its parent, but for the event that is on
\* its way up or down, and that one has not torn a hole: its children are in
\* order with its parent.  Without that the next swap would leave a disorder
\* that no loop comes back to.
HeapOrder ==
    \A i \in 2 .. Len(heap) :
        /\ op = "idle" \/ (op = "up" /\ i # idx) \/ (op = "down" /\ parent(i) # idx)
              => Ordered(i)
        /\ op # "idle" /\ parent(i) = idx /\ idx > 1 => Sifted(i)

\* Whatever the array goes through, including a failed attempt to grow, the
\* scheduler sees a set from which the first event in the order is taken.
Promise == INSTANCE WaitSet WITH waiting <- ToSet(heap), taken <- out

ImplementsWaitSet == Promise!Spec

=============================================================================
