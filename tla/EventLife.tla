----------------------------- MODULE EventLife ------------------------------
(***************************************************************************)
(* What the scheduler promises about the life of an event: it waits, holds *)
(* the single execution slot, from which it may be sent back to wait until *)
(* it is started, is started once and only there, and leaves.  Queues,     *)
(* threads, signals, priorities and stages are not mentioned.              *)
(***************************************************************************)
EXTENDS Integers

CONSTANT Ids         \* the events, numbered in the order of their injection

VARIABLES
    known,           \* how many were injected
    waits,           \* those that wait: [id, dir]
    slot,            \* the one that holds the execution slot, or none
    runs,            \* how often each was started
    stopping         \* TRUE while the program is told to stop

Init ==
    /\ known = 0 /\ waits = {} /\ slot = {}
    /\ runs = [i \in Ids |-> 0] /\ stopping = FALSE

Inject(d) ==
    /\ known' = known + 1
    /\ waits' = waits \union {[id |-> known', dir |-> d]}
    /\ UNCHANGED <<slot, runs, stopping>>

Enter(e) ==
    /\ slot = {} /\ slot' = {e}
    /\ waits' = waits \ {e}
    /\ UNCHANGED <<known, runs, stopping>>

Start(e) ==
    /\ e \in slot /\ runs[e.id] = 0
    /\ runs' = [runs EXCEPT ![e.id] = 1]
    /\ UNCHANGED <<known, waits, slot, stopping>>

\* Only a stop takes the slot from an event that was not started.
Leave(e) ==
    /\ e \in slot /\ slot' = {}
    /\ runs[e.id] = 1 \/ stopping
    /\ UNCHANGED <<known, waits, runs, stopping>>

\* A more urgent event may send back one that was not started.
Yield(e) ==
    /\ e \in slot /\ runs[e.id] = 0
    /\ slot' = {} /\ waits' = waits \union {e}
    /\ UNCHANGED <<known, runs, stopping>>

\* A SLAVE event may find no room and is given up; a MASTER event never is.
Drop(e) ==
    /\ e.dir = "SLAVE" /\ waits' = waits \ {e}
    /\ UNCHANGED <<known, slot, runs, stopping>>

Stop ==
    /\ stopping' \in BOOLEAN
    /\ UNCHANGED <<known, waits, slot, runs>>

Next ==
    \/ \E d \in {"MASTER", "SLAVE"} : Inject(d)
    \/ \E e \in waits : Enter(e) \/ Drop(e)
    \/ \E e \in slot : Start(e) \/ Leave(e) \/ Yield(e)
    \/ Stop

Spec == Init /\ [][Next]_<<known, waits, slot, runs, stopping>>

=============================================================================
