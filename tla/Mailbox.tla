------------------------------ MODULE Mailbox -------------------------------
(***************************************************************************)
(* What the wait loops of the program are for: one thread takes what the   *)
(* others put in, as long as it is not told to stop, and nobody has to     *)
(* remind it.  The scheduler (the intake), the dispatcher (the signal to   *)
(* execute, the completion) and each worker (its wake flag) wait like this.*)
(***************************************************************************)
EXTENDS Integers

VARIABLES
    items,           \* how much there is to take
    stop,            \* TRUE once the thread is to end
    gone             \* TRUE once it has ended

Init == items = 0 /\ stop = FALSE /\ gone = FALSE

Put  == items' = items + 1 /\ UNCHANGED <<stop, gone>>
Take == items > 0 /\ ~gone /\ items' = items - 1 /\ UNCHANGED <<stop, gone>>
Stop == stop' = TRUE /\ UNCHANGED <<items, gone>>
Quit == stop /\ ~gone /\ gone' = TRUE /\ UNCHANGED <<items, stop>>

Next == Put \/ Take \/ Stop \/ Quit

Safety == Init /\ [][Next]_<<items, stop, gone>>

\* What is there is taken, and a thread that is to end ends.
Spec ==
    /\ Safety
    /\ WF_<<items, stop, gone>>(Take \/ Quit)
    /\ WF_<<items, stop, gone>>(Quit)

=============================================================================
