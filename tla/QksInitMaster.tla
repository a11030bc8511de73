--------------------------- MODULE QksInitMaster ----------------------------
(***************************************************************************)
(* The master init thread and its manager.  The scheduler spawns one such  *)
(* thread per MASTER event and, to preempt the event, kills it wherever it *)
(* happens to be.  That is why this thread alone takes a mutex in a step   *)
(* of its own: killed inside a critical section, it leaves mu or exec_mu   *)
(* with the value "init" for ever.                                         *)
(***************************************************************************)
EXTENDS QksExec

CONSTANT SpawnCanFail    \* TRUE: the system may be unable to create the thread

ASSUME SpawnAssumption == SpawnCanFail \in BOOLEAN

VARIABLES
    init,           \* where the master init thread is, "none" if there is none
    init_arg,       \* the event whose type it read for qks_exec_signal
    init_running,   \* s->init_master_running
    th_init         \* s->th_init_master: "null" or "held"

initVars == <<init, init_arg, init_running, th_init>>

InitPC == {"none", "wait_ack", "act", "stage_cs", "block", "block_cs",
           "signal", "signal_lock", "signal_cs", "finish"}

InitInit ==
    /\ init = "none" /\ init_arg = NoEvent
    /\ init_running = 0 /\ th_init = "null"

-----------------------------------------------------------------------------
(* The manager: both operators are called by another thread. *)

qks_init_master_kill_current ==
    /\ init' = IF th_init = "held" THEN "none" ELSE init
    /\ init_arg' = IF th_init = "held" THEN NoEvent ELSE init_arg
    /\ th_init' = "null"
    /\ init_running' = 0

\* A bug: a thread that is still on its way out is taken for the new one.
qks_init_master_spawn_SkipsIfRunning ==
    /\ init' = IF init_running = 1 THEN init ELSE "wait_ack"
    /\ init_arg' = IF init_running = 1 THEN init_arg ELSE NoEvent
    /\ init_running' = 1
    /\ th_init' = "held"

\* A thread that still runs is killed first; the handle of one that has
\* finished is overwritten.
qks_init_master_spawn ==
    /\ init' = "wait_ack"
    /\ init_arg' = NoEvent
    /\ init_running' = 1
    /\ th_init' = "held"

\* The new thread cannot be created.  It counts as running all the same, and
\* a handle that was not killed is kept.
qks_init_master_spawn_fails ==
    /\ init' = "none" /\ init_arg' = NoEvent
    /\ init_running' = 1
    /\ th_init' = IF init_running = 1 THEN "null" ELSE th_init

-----------------------------------------------------------------------------
(* The thread: INIT_REQ, wait for the ACK, ACT, stage EXEC, hard block,    *)
(* signal the dispatcher, finish.                                          *)

Step(from, to) == init = from /\ init' = to

InitAck ==
    /\ Step("wait_ack", "act") /\ stop = 0
    /\ UNCHANGED <<init_arg, init_running, slotVars, mu, sigVars>>

InitStopped ==
    /\ Step("wait_ack", "finish") /\ stop = 1
    /\ UNCHANGED <<init_arg, init_running, slotVars, mu, sigVars>>

\* The calls to qks_queue_update_stage and qks_queue_set_blocking lock q->mu.
InitLock ==
    /\ \/ Step("act", "stage_cs") \/ Step("block", "block_cs")
    /\ MuFree /\ mu' = "init"
    /\ UNCHANGED <<init_arg, init_running, slotVars, sigVars>>

InitStage ==
    /\ Step("stage_cs", "block")
    /\ update_stage("EXEC") /\ mu' = "free"
    /\ UNCHANGED <<init_arg, init_running, sigVars>>

InitBlock ==
    /\ Step("block_cs", "signal")
    /\ set_blocking(1) /\ mu' = "free"
    /\ UNCHANGED <<init_arg, init_running, sigVars>>

\* The slot is read without its lock to find the type to signal.
InitReadSlot ==
    /\ Step("signal", "signal_lock")
    /\ init_arg' = exec_event
    /\ UNCHANGED <<init_running, slotVars, mu, sigVars>>

InitLockExec ==
    /\ Step("signal_lock", "signal_cs")
    /\ ExecMuFree /\ exec_mu' = "init"
    /\ UNCHANGED <<init_arg, init_running, slotVars, mu, wake, pending,
                   worker_done, exec_cv, exec_cv_done>>

InitSignal ==
    /\ Step("signal_cs", "finish")
    /\ exec_signal(init_arg) /\ exec_mu' = "free"
    /\ init_arg' = NoEvent
    /\ UNCHANGED <<init_running, slotVars, mu, worker_done, exec_cv_done>>

InitFinish ==
    /\ Step("finish", "none")
    /\ init_running' = 0
    /\ UNCHANGED <<init_arg, slotVars, mu, sigVars>>

InitThread ==
    /\ \/ InitAck \/ InitStopped \/ InitLock \/ InitStage \/ InitBlock
       \/ InitReadSlot \/ InitLockExec \/ InitSignal \/ InitFinish
    /\ UNCHANGED <<th_init, stop, queueVars, cv, dispVars, workerVars>>

=============================================================================
