------------------------------ MODULE WaitSet -------------------------------
(***************************************************************************)
(* What the wait heap promises its only user, the scheduler: a set of      *)
(* events from which the one to be served first is taken.  An event can be *)
(* refused when it is put in; nothing that waits is ever harmed by that.   *)
(***************************************************************************)
EXTENDS QksEvent

CONSTANT Offered     \* the events that may be put in

VARIABLES
    waiting,         \* the events that wait
    taken,           \* the event taken out last, NoEvent at first
    lost             \* the events that were refused

Init == waiting = {} /\ taken = NoEvent /\ lost = {}

Insert(e) ==
    /\ e \notin waiting
    /\ waiting' = waiting \union {e}
    /\ UNCHANGED <<taken, lost>>

Refuse(e) ==
    /\ e \notin waiting
    /\ lost' = lost \union {e}
    /\ UNCHANGED <<waiting, taken>>

Extract(e) ==
    /\ IsTop(waiting, e)
    /\ waiting' = waiting \ {e} /\ taken' = e
    /\ UNCHANGED lost

Next == \E e \in Offered : Insert(e) \/ Refuse(e) \/ Extract(e)

Spec == Init /\ [][Next]_<<waiting, taken, lost>>

=============================================================================
