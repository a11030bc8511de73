------------------------------- MODULE MCHeap -------------------------------
(***************************************************************************)
(* An instance of WaitHeap for TLC.  Before orders any set of events with  *)
(* numbers of their own totally, and the events come in every order, so    *)
(* one set of seven events of both priorities, which fills three levels of *)
(* the heap, stands for all sets of up to seven.                           *)
(***************************************************************************)
EXTENDS WaitHeap

KindOf(i) == IF i % 3 = 0 THEN "KEY_REFILL" ELSE "DEVICE_AUTH"

Seven == {[id |-> i, seq |-> i, type |-> KindOf(i), dir |-> "MASTER"] : i \in 1 .. 7}

=============================================================================
