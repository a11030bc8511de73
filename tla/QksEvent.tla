------------------------------ MODULE QksEvent ------------------------------
(***************************************************************************)
(* The event model shared by every thread of QKeySys: what an event is,    *)
(* its priority, and the order in which the wait heap serves events.       *)
(***************************************************************************)
EXTENDS Integers, Sequences, FiniteSets

EventTypes == {"DEVICE_AUTH", "CLOCK_SYNC", "KEY_REFILL"}
Directions == {"MASTER", "SLAVE"}
Stages     == {"PENDING", "INIT", "IWAIT", "EXEC"}

\* The zero-initialised event that the execution slot holds at start-up.
NoEvent == [id |-> 0, seq |-> 0, type |-> "NONE", dir |-> "NONE"]

\* A bug: clock synchronisation falls through to the default level.
priority_of_NoClock(t) ==
    CASE t = "KEY_REFILL" -> 4 [] t = "DEVICE_AUTH" -> 1 [] OTHER -> 10

\* Smaller is more urgent: authentication and clock sync 1, key refill 4.
priority_of(t) == IF t = "KEY_REFILL" THEN 4 ELSE 1

Priority(e) == priority_of(e.type)

\* A bug: ties between equal priorities are broken last-in first-out.
Before_Lifo(a, b) ==
    \/ Priority(a) < Priority(b)
    \/ Priority(a) = Priority(b) /\ a.seq > b.seq

\* cmp(a, b) < 0: by priority, then first-in first-out.
Before(a, b) ==
    \/ Priority(a) < Priority(b)
    \/ Priority(a) = Priority(b) /\ a.seq < b.seq

\* The event of S that is served first.
IsTop(S, e) == e \in S /\ \A x \in S : ~Before(x, e)

=============================================================================
