------------------------------- MODULE CondVar ------------------------------
(***************************************************************************)
(* The mutex and the condition variable of src/core/os.c, instruction by   *)
(* instruction, under the only pattern in which the program uses them: one *)
(* thread waits in a loop for something to take or for stop, others put    *)
(* something in and signal under the mutex, and one sets stop without the  *)
(* mutex and then broadcasts under it.  QksExec and QksSched merge the     *)
(* steps of a wait that are separate here.                                 *)
(*                                                                         *)
(* On Windows the condition variable is an event object: it is set by a    *)
(* signal, stays set, and is reset by the waiter after its wait.  Leaving  *)
(* the mutex, waiting, resetting and entering it again are four steps.     *)
(* With POSIX, leaving the mutex and falling asleep are one step, and a    *)
(* signal that finds nobody asleep has no effect.                          *)
(***************************************************************************)
EXTENDS Integers

CONSTANTS
    Signallers,      \* the threads that put something in
    MaxPuts,         \* bound: how often they do, altogether
    None             \* no thread

ASSUME ThreadsAssumption ==
    /\ None \notin Signallers /\ "waiter" \notin Signallers
    /\ "stopper" \notin Signallers /\ None \notin {"waiter", "stopper"}
    /\ MaxPuts \in Nat

VARIABLES
    platform,        \* "windows" or "posix"
    mu,              \* the thread that holds the mutex
    ev,              \* the event object behind the condition variable
    items,           \* what the waiter waits for: its FIFO or its flag
    puts,            \* how much was put in so far
    stop,
    waiter,          \* where the waiting thread is
    signaller,       \* where each signalling thread is
    stopper          \* where the thread that stops the program is

vars == <<platform, mu, ev, items, puts, stop, waiter, signaller, stopper>>

WaiterPC == {"lock", "test", "unlock_wait", "wait", "reset", "relock",
             "asleep", "take", "exit"}
SignalPC == {"idle", "put", "signal", "unlock"}
StopPC   == {"run", "lock", "broadcast", "unlock", "done"}

Init ==
    /\ platform \in {"windows", "posix"}
    /\ mu = None /\ ev = FALSE
    /\ items = 0 /\ puts = 0 /\ stop = FALSE
    /\ waiter = "lock" /\ stopper = "run"
    /\ signaller = [s \in Signallers |-> "idle"]

-----------------------------------------------------------------------------
qks_mutex_lock(t)   == mu = None /\ mu' = t
qks_mutex_unlock(t) == mu = t /\ mu' = None

\* qks_cond_broadcast does the same: there is only one waiter.
qks_cond_signal ==
    /\ ev' = (ev \/ platform = "windows")
    /\ waiter' = IF waiter = "asleep" THEN "relock" ELSE waiter

-----------------------------------------------------------------------------
(* The waiting thread. *)

WaitStep(from, to) == waiter = from /\ waiter' = to

WaiterLock ==
    /\ WaitStep("lock", "test") /\ qks_mutex_lock("waiter")
    /\ UNCHANGED <<ev, items>>

\* The loop's condition.  When it does not hold, qks_cond_wait is called.
WaiterTest ==
    /\ waiter = "test"
    /\ \/ (items > 0 \/ stop) /\ waiter' = "take" /\ UNCHANGED mu
       \/ /\ items = 0 /\ ~stop
          /\ \/ platform = "windows" /\ waiter' = "unlock_wait" /\ UNCHANGED mu
             \/ platform = "posix" /\ waiter' = "asleep" /\ qks_mutex_unlock("waiter")
    /\ UNCHANGED <<ev, items>>

\* LeaveCriticalSection
WaiterUnlocks ==
    /\ WaitStep("unlock_wait", "wait") /\ qks_mutex_unlock("waiter")
    /\ UNCHANGED <<ev, items>>

\* WaitForSingleObject
WaiterWakes ==
    /\ WaitStep("wait", "reset") /\ ev
    /\ UNCHANGED <<mu, ev, items>>

\* ResetEvent
WaiterResets ==
    /\ WaitStep("reset", "relock") /\ ev' = FALSE
    /\ UNCHANGED <<mu, items>>

\* A bug: the loop's condition is not tested again after the wait.
WaiterRelocks_NoLoop ==
    /\ WaitStep("relock", "take") /\ qks_mutex_lock("waiter")
    /\ UNCHANGED <<ev, items>>

\* EnterCriticalSection, and back to the loop's condition.
WaiterRelocks ==
    /\ WaitStep("relock", "test") /\ qks_mutex_lock("waiter")
    /\ UNCHANGED <<ev, items>>

\* Past the loop: leave for good, or take one thing and come back later.
WaiterTakes ==
    /\ waiter = "take" /\ qks_mutex_unlock("waiter")
    /\ \/ stop /\ waiter' = "exit" /\ UNCHANGED items
       \/ ~stop /\ waiter' = "lock" /\ items' = items - 1
    /\ UNCHANGED ev

Waiter ==
    /\ \/ WaiterLock \/ WaiterTest \/ WaiterUnlocks \/ WaiterWakes
       \/ WaiterResets \/ WaiterRelocks \/ WaiterTakes
    /\ UNCHANGED <<platform, puts, stop, signaller, stopper>>

\* pthread_cond_wait may return although nobody has signalled.
SpuriousWakeup ==
    /\ WaitStep("asleep", "relock")
    /\ UNCHANGED <<platform, mu, ev, items, puts, stop, signaller, stopper>>

-----------------------------------------------------------------------------
(* The others. *)

SignalStep(s, from, to) ==
    /\ signaller[s] = from /\ signaller' = [signaller EXCEPT ![s] = to]
    /\ UNCHANGED <<platform, stop, stopper>>

SignallerLock(s) ==
    /\ SignalStep(s, "idle", "put") /\ puts < MaxPuts
    /\ qks_mutex_lock(s) /\ puts' = puts + 1
    /\ UNCHANGED <<ev, items, waiter>>

\* A bug: the signal is forgotten.
SignallerPut_NoSignal(s) ==
    /\ SignalStep(s, "put", "unlock") /\ items' = items + 1
    /\ UNCHANGED <<mu, ev, puts, waiter>>

SignallerPut(s) ==
    /\ SignalStep(s, "put", "signal") /\ items' = items + 1
    /\ UNCHANGED <<mu, ev, puts, waiter>>

SignallerSignal(s) ==
    /\ SignalStep(s, "signal", "unlock") /\ qks_cond_signal
    /\ UNCHANGED <<mu, items, puts>>

SignallerUnlock(s) ==
    /\ SignalStep(s, "unlock", "idle") /\ qks_mutex_unlock(s)
    /\ UNCHANGED <<ev, items, puts, waiter>>

Signaller(s) ==
    SignallerLock(s) \/ SignallerPut(s) \/ SignallerSignal(s) \/ SignallerUnlock(s)

StopStep(from, to) ==
    /\ stopper = from /\ stopper' = to
    /\ UNCHANGED <<platform, items, puts, signaller>>

\* The flag is set without the mutex.
StopperSets ==
    /\ StopStep("run", "lock") /\ stop' = TRUE
    /\ UNCHANGED <<mu, ev, waiter>>

\* A bug: the flag is set and nobody is woken.
StopperLock_NoBroadcast ==
    /\ StopStep("lock", "unlock") /\ qks_mutex_lock("stopper")
    /\ UNCHANGED <<ev, stop, waiter>>

StopperLock ==
    /\ StopStep("lock", "broadcast") /\ qks_mutex_lock("stopper")
    /\ UNCHANGED <<ev, stop, waiter>>

StopperBroadcast ==
    /\ StopStep("broadcast", "unlock") /\ qks_cond_signal
    /\ UNCHANGED <<mu, stop>>

StopperUnlock ==
    /\ StopStep("unlock", "done") /\ qks_mutex_unlock("stopper")
    /\ UNCHANGED <<ev, stop, waiter>>

Stopper == StopperSets \/ StopperLock \/ StopperBroadcast \/ StopperUnlock

Next == Waiter \/ SpuriousWakeup \/ (\E s \in Signallers : Signaller(s)) \/ Stopper

Spec == Init /\ [][Next]_vars

\* Every thread goes on, but nobody need put anything in or stop.
FairSpec ==
    /\ Spec
    /\ WF_vars(Waiter) /\ WF_vars(stopper # "run" /\ Stopper)
    /\ \A s \in Signallers : WF_vars(signaller[s] # "idle" /\ Signaller(s))

-----------------------------------------------------------------------------
(* Properties. *)

\* Type invariant.
CondTypeOK ==
    /\ platform \in {"windows", "posix"}
    /\ mu \in Signallers \union {"waiter", "stopper", None} /\ ev \in BOOLEAN
    /\ items \in Nat /\ puts \in Nat /\ stop \in BOOLEAN
    /\ waiter \in WaiterPC /\ signaller \in [Signallers -> SignalPC]
    /\ stopper \in StopPC

\* A thread that is asleep, or on its way there, although it has reason to
\* wake up has a wake-up coming to it: the event is set, or a thread is
\* about to signal.  A reset can wipe out a signal, but not the reason for
\* it, and the waiter has yet to look at that.
WakeupPending ==
    waiter \in {"unlock_wait", "wait", "asleep"} =>
        /\ items > 0 => ev \/ \E s \in Signallers : signaller[s] = "signal"
        /\ stop => ev \/ stopper \in {"lock", "broadcast"}

\* The thread takes only what is there, all of it unless it is stopped, and
\* ends if and only if it is stopped.
Box == INSTANCE Mailbox WITH gone <- (waiter = "exit")

ImplementsMailbox == Box!Spec

=============================================================================
