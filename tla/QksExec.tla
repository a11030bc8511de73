------------------------------ MODULE QksExec -------------------------------
(***************************************************************************)
(* The execution threads: qks_exec_signal, the dispatcher and the worker   *)
(* threads.  One worker exists per event type and role; the role of a      *)
(* process never changes, so only the three workers of its role are ever   *)
(* woken, and a worker is named here by its event type.                    *)
(*                                                                         *)
(* The two critical sections of the dispatcher's protocol are taken with   *)
(* exec_sig.mu free.  Like q->mu, that mutex records only whether the      *)
(* killable init thread holds it.  worker_sig[i].mu is never held by a     *)
(* killable thread and its sections never block: they are single steps.    *)
(***************************************************************************)
EXTENDS QksQueue

VARIABLES
    stop,          \* qks_sched_ctx_t.stop, read and written without a lock
    wake,          \* exec_sig.wake
    pending,       \* the event exec_sig.pending_type was taken from, NoEvent
                   \* once it has been taken: it is not read again
    worker_done,   \* exec_sig.worker_done
    exec_mu,       \* exec_sig.mu: "free", or "init" while the init thread holds it
    exec_cv,       \* the event object behind exec_sig.cv
    exec_cv_done,  \* the event object behind exec_sig.cv_done
    disp,          \* where the dispatcher thread is
    disp_ev,       \* the dispatcher's local copy of pending
    worker,        \* where each worker thread is
    worker_wake,   \* worker_sig[idx].wake
    worker_cv,     \* the event object behind worker_sig[idx].cv
    runs           \* auxiliary: how often each event was started by a worker

sigVars    == <<wake, pending, worker_done, exec_mu, exec_cv, exec_cv_done>>
dispVars   == <<disp, disp_ev>>
workerVars == <<worker, worker_wake, worker_cv, runs>>

Workers    == EventTypes
DispPC     == {"idle", "sleep", "dispatch", "await", "sleep_done",
               "clear", "notify", "exit"}
WorkerPC   == {"idle", "sleep", "run", "exit"}

ExecMuFree == exec_mu = "free"

\* qks_exec_threads_start.  No signal is pending.  The dispatcher is about to
\* test for one.  The workers have made that test and sleep: an event object
\* stays set until its waiter has seen it, so a signal that comes before a
\* worker's first test and one that comes after it have the same effect.
ExecInit ==
    /\ wake = 0
    /\ pending = NoEvent
    /\ worker_done = 0
    /\ exec_mu = "free"
    /\ exec_cv = 0
    /\ exec_cv_done = 0
    /\ disp = "idle"
    /\ disp_ev = NoEvent
    /\ worker = [w \in Workers |-> "sleep"]
    /\ worker_wake = [w \in Workers |-> 0]
    /\ worker_cv = [w \in Workers |-> 0]
    /\ runs = [i \in Ids |-> 0]

\* The critical section of qks_exec_signal: a one-place mailbox.
exec_signal(e) ==
    /\ pending' = e
    /\ wake' = 1
    /\ exec_cv' = 1

-----------------------------------------------------------------------------
(* dispatcher_thread.  A wait loop tests its condition when it is entered   *)
(* and again each time it finds its event object set, which it resets.     *)

DispTests ==
    \/ disp = "idle" /\ UNCHANGED exec_cv
    \/ disp = "sleep" /\ exec_cv = 1 /\ exec_cv' = 0

\* A bug: the dispatcher takes the signal and leaves it pending.
DispTake_KeepsWake ==
    /\ DispTests /\ ExecMuFree
    /\ stop = 0 /\ wake = 1
    /\ disp_ev' = pending
    /\ disp' = "dispatch"
    /\ UNCHANGED <<wake, pending, worker_done, exec_mu, exec_cv_done,
                   workerVars, slotVars, cv>>

DispTake ==
    /\ DispTests /\ ExecMuFree
    /\ stop = 0 /\ wake = 1
    /\ disp_ev' = pending
    /\ wake' = 0 /\ pending' = NoEvent
    /\ disp' = "dispatch"
    /\ UNCHANGED <<worker_done, exec_mu, exec_cv_done,
                   workerVars, slotVars, cv>>

DispSleep ==
    /\ DispTests /\ ExecMuFree
    /\ stop = 0 /\ wake = 0
    /\ disp' = "sleep"
    /\ UNCHANGED <<disp_ev, wake, pending, worker_done, exec_mu, exec_cv_done,
                   workerVars, slotVars, cv>>

DispExit ==
    /\ DispTests /\ ExecMuFree
    /\ stop = 1
    /\ disp' = "exit"
    /\ UNCHANGED <<disp_ev, wake, pending, worker_done, exec_mu, exec_cv_done,
                   workerVars, slotVars, cv>>

\* Hand the event to the worker of its type.
DispDispatch ==
    /\ disp = "dispatch"
    /\ worker_wake' = [worker_wake EXCEPT ![disp_ev.type] = 1]
    /\ worker_cv' = [worker_cv EXCEPT ![disp_ev.type] = 1]
    /\ disp' = "await"
    /\ UNCHANGED <<disp_ev, sigVars, worker, runs, slotVars, cv>>

DispTestsDone ==
    \/ disp = "await" /\ UNCHANGED exec_cv_done
    \/ disp = "sleep_done" /\ exec_cv_done = 1 /\ exec_cv_done' = 0

\* A bug: the completion flag is not reset before the next event.
DispCompleted_KeepsDone ==
    /\ DispTestsDone /\ ExecMuFree
    /\ worker_done = 1 \/ stop = 1
    /\ disp_ev' = NoEvent
    /\ disp' = "clear"
    /\ UNCHANGED <<wake, pending, worker_done, exec_mu, exec_cv,
                   workerVars, slotVars, cv>>

\* The worker is done, or the program is stopping.
DispCompleted ==
    /\ DispTestsDone /\ ExecMuFree
    /\ worker_done = 1 \/ stop = 1
    /\ worker_done' = 0
    /\ disp_ev' = NoEvent
    /\ disp' = "clear"
    /\ UNCHANGED <<wake, pending, exec_mu, exec_cv, workerVars, slotVars, cv>>

DispSleepDone ==
    /\ DispTestsDone /\ ExecMuFree
    /\ worker_done = 0 /\ stop = 0
    /\ disp' = "sleep_done"
    /\ UNCHANGED <<disp_ev, wake, pending, worker_done, exec_mu, exec_cv,
                   workerVars, slotVars, cv>>

\* qks_scheduler_notify_event_done, first half: free the execution slot.
DispClear ==
    /\ disp = "clear" /\ MuFree
    /\ clear_exec_slot
    /\ disp' = "notify"
    /\ UNCHANGED <<disp_ev, sigVars, workerVars, cv>>

\* qks_scheduler_notify_event_done, second half: qks_queue_wake.
DispNotify ==
    /\ disp = "notify" /\ MuFree
    /\ cv' = 1
    /\ disp' = "idle"
    /\ UNCHANGED <<disp_ev, sigVars, workerVars, slotVars>>

Dispatcher ==
    /\ \/ DispTake \/ DispSleep \/ DispExit \/ DispDispatch
       \/ DispCompleted \/ DispSleepDone \/ DispClear \/ DispNotify
    /\ UNCHANGED <<stop, queueVars, mu>>

-----------------------------------------------------------------------------
(* worker_thread *)

WorkerTests(w) ==
    \/ worker[w] = "idle" /\ UNCHANGED worker_cv
    \/ /\ worker[w] = "sleep" /\ worker_cv[w] = 1
       /\ worker_cv' = [worker_cv EXCEPT ![w] = 0]

WorkerTake(w) ==
    /\ WorkerTests(w)
    /\ stop = 0 /\ worker_wake[w] = 1
    /\ worker_wake' = [worker_wake EXCEPT ![w] = 0]
    /\ worker' = [worker EXCEPT ![w] = "run"]
    /\ runs' = [runs EXCEPT ![disp_ev.id] = @ + 1]
    /\ UNCHANGED sigVars

WorkerSleep(w) ==
    /\ WorkerTests(w)
    /\ stop = 0 /\ worker_wake[w] = 0
    /\ worker' = [worker EXCEPT ![w] = "sleep"]
    /\ UNCHANGED <<worker_wake, runs, sigVars>>

WorkerExit(w) ==
    /\ WorkerTests(w)
    /\ stop = 1
    /\ worker' = [worker EXCEPT ![w] = "exit"]
    /\ UNCHANGED <<worker_wake, runs, sigVars>>

\* The event's own work (radio, authentication and key-pool calls), which
\* touches nothing of the scheduler, and then the report that it is done.
WorkerReport(w) ==
    /\ worker[w] = "run" /\ ExecMuFree
    /\ worker_done' = 1
    /\ exec_cv_done' = 1
    /\ worker' = [worker EXCEPT ![w] = "idle"]
    /\ UNCHANGED <<worker_wake, worker_cv, runs, wake, pending, exec_mu, exec_cv>>

Worker(w) ==
    /\ \/ WorkerTake(w) \/ WorkerSleep(w) \/ WorkerExit(w) \/ WorkerReport(w)
    /\ UNCHANGED <<stop, dispVars, queueVars, slotVars, mu, cv>>

=============================================================================
