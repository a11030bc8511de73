------------------------------ MODULE QksSched ------------------------------
(***************************************************************************)
(* The scheduler thread.  A step is one critical section, or one read of a *)
(* variable that the code reads without its lock and another thread writes *)
(* (stop, has_exec, exec_event.stage); steps that only the scheduler's own *)
(* data decides are merged with the step before them.                      *)
(***************************************************************************)
EXTENDS QksInitMaster

VARIABLES
    sched,          \* where the scheduler thread is
    chosen,         \* its local: the event it is about to install
    guard_pri       \* its local: the guard it has read, 0 when out of scope

schedVars == <<sched, chosen, guard_pri>>

SchedPC == {"boot", "top", "wait_any", "sleep_any", "wait_fifo",
            "sleep_fifo", "guard", "branch", "choose", "arrive", "kill",
            "preempt", "install", "spawn", "accept", "on_act", "on_act_block",
            "on_act_signal", "exit"}

SchedInit == sched = "boot" /\ chosen = NoEvent /\ guard_pri = 0

-----------------------------------------------------------------------------
(* Waiting: from the top of the loop down to qks_queue_get_guard.          *)

SchedBoot ==
    /\ sched = "boot" /\ sched' = "top"
    /\ stop' = 0
    /\ UNCHANGED <<guard_pri, cv>>

\* Reads stop and has_exec without the lock.
SchedTop ==
    /\ sched = "top"
    /\ \/ stop = 1 /\ sched' = "exit"
       \/ stop = 0 /\ has_exec = 0 /\ sched' = "wait_any"
       \/ stop = 0 /\ has_exec = 1 /\ sched' = "wait_fifo"
    /\ UNCHANGED <<stop, guard_pri, cv>>

\* A wait tests its condition under the lock when it is entered and again
\* each time it finds the event object set, which it resets.
SchedTests(entered, asleep) ==
    /\ MuFree
    /\ \/ sched = entered /\ UNCHANGED cv
       \/ sched = asleep /\ cv = 1 /\ cv' = 0

\* A bug: the wait is for new arrivals only, as if the slot were occupied.
SchedWaitAny_FifoOnly ==
    /\ SchedTests("wait_any", "sleep_any")
    /\ sched' = IF stop = 1 \/ fifo # <<>> THEN "guard" ELSE "sleep_any"
    /\ UNCHANGED <<stop, guard_pri>>

\* A bug: the wait is an if, not a loop.
SchedWaitAny_NoRecheck ==
    /\ SchedTests("wait_any", "sleep_any")
    /\ sched' = IF sched = "sleep_any" \/ stop = 1 \/ fifo # <<>> \/ wait_heap # {}
                THEN "guard" ELSE "sleep_any"
    /\ UNCHANGED <<stop, guard_pri>>

\* qks_queue_wait_nonempty.
SchedWaitAny ==
    /\ SchedTests("wait_any", "sleep_any")
    /\ sched' = IF stop = 1 \/ fifo # <<>> \/ wait_heap # {}
                THEN "guard" ELSE "sleep_any"
    /\ UNCHANGED <<stop, guard_pri>>

\* The peek at the FIFO and qks_queue_wait_for_fifo, which make the same
\* test: neither the heap nor the slot is looked at.
SchedWaitFifo ==
    /\ SchedTests("wait_fifo", "sleep_fifo")
    /\ sched' = IF stop = 1 \/ fifo # <<>> THEN "guard" ELSE "sleep_fifo"
    /\ UNCHANGED <<stop, guard_pri>>

\* The second look at stop.
SchedStopped ==
    /\ sched = "guard" /\ stop = 1 /\ sched' = "exit"
    /\ UNCHANGED <<stop, guard_pri, cv>>

\* qks_queue_get_guard.  Under a hard block the loop starts over.
SchedGuard ==
    /\ sched = "guard" /\ stop = 0 /\ MuFree
    /\ \/ hard_blocking = 1 /\ sched' = "top" /\ UNCHANGED guard_pri
       \/ hard_blocking = 0 /\ sched' = "branch" /\ guard_pri' = guard_priority
    /\ UNCHANGED <<stop, cv>>

\* Reads has_exec without the lock, a second time.
SchedBranch ==
    /\ sched = "branch"
    /\ sched' = IF has_exec = 0 THEN "choose" ELSE "arrive"
    /\ UNCHANGED <<stop, guard_pri, cv>>

SchedWaiting ==
    /\ \/ SchedBoot \/ SchedTop \/ SchedWaitAny \/ SchedWaitFifo
       \/ SchedStopped \/ SchedGuard \/ SchedBranch
    /\ UNCHANGED <<chosen, queueVars, slotVars, mu, sigVars, initVars>>

-----------------------------------------------------------------------------
(* Deciding: which event enters the slot, waits, or is dropped.            *)

\* The event leaves the queues for the scheduler's hands.
Take(e) ==
    /\ chosen' = e /\ guard_pri' = 0
    /\ sched' = IF e.dir = "SLAVE" THEN "accept" ELSE "install"

PopFifo == fifo' = Tail(fifo)

\* The slot is empty: the better of the FIFO head and the heap top.
SchedChoose ==
    /\ sched = "choose" /\ MuFree
    /\ \/ /\ fifo # <<>>
          /\ \A h \in wait_heap : Before(Head(fifo), h)
          /\ PopFifo /\ Take(Head(fifo))
          /\ UNCHANGED wait_heap
       \/ \E h \in wait_heap :
             /\ IsHeapTop(h)
             /\ fifo # <<>> => ~Before(Head(fifo), h)
             /\ wait_heap' = wait_heap \ {h} /\ Take(h)
             /\ UNCHANGED fifo
    /\ UNCHANGED <<slotVars, sigVars, initVars>>

\* A bug: an event of the same priority may preempt.
can_preempt_Equal(e) == Priority(e) <= guard_pri

can_preempt(e) == Priority(e) < guard_pri

\* A bug: the stage is not looked at.
AllowPreempt_AnyStage == exec_event.dir = "MASTER" /\ can_preempt(Head(fifo))

\* stage and dir of the slot are read without the lock.
AllowPreempt == stage = "INIT" /\ exec_event.dir = "MASTER"
                /\ can_preempt(Head(fifo))

\* The slot is occupied: the FIFO head may preempt it.
SchedArrivePreempt ==
    /\ sched = "arrive" /\ MuFree /\ fifo # <<>>
    /\ AllowPreempt
    /\ sched' = "kill"
    /\ UNCHANGED <<chosen, guard_pri, fifo, wait_heap, slotVars, sigVars, initVars>>

\* A bug: the two directions are mixed up.
SchedArriveQueue_WrongDir ==
    /\ sched = "arrive" /\ MuFree /\ fifo # <<>>
    /\ ~AllowPreempt
    /\ PopFifo
    /\ wait_heap' = IF Head(fifo).dir = "SLAVE"
                    THEN wait_heap \union {Head(fifo)} ELSE wait_heap
    /\ sched' = "top" /\ guard_pri' = 0
    /\ UNCHANGED <<chosen, slotVars, sigVars, initVars>>

\* It may not: a MASTER event waits in the heap, a SLAVE event is dropped.
SchedArriveQueue ==
    /\ sched = "arrive" /\ MuFree /\ fifo # <<>>
    /\ ~AllowPreempt
    /\ PopFifo
    /\ wait_heap' = IF Head(fifo).dir = "MASTER"
                    THEN wait_heap \union {Head(fifo)} ELSE wait_heap
    /\ sched' = "top" /\ guard_pri' = 0
    /\ UNCHANGED <<chosen, slotVars, sigVars, initVars>>

SchedKill ==
    /\ sched = "kill" /\ sched' = "preempt"
    /\ qks_init_master_kill_current
    /\ UNCHANGED <<chosen, guard_pri, fifo, wait_heap, slotVars, sigVars>>

\* The slot's event goes back to the heap and the FIFO head replaces it.
SchedPreempt ==
    /\ sched = "preempt" /\ MuFree
    /\ wait_heap' = wait_heap \union {exec_event}
    /\ clear_exec_slot
    /\ PopFifo /\ Take(Head(fifo))
    /\ UNCHANGED <<sigVars, initVars>>

SchedDeciding ==
    /\ \/ SchedChoose \/ SchedArrivePreempt \/ SchedArriveQueue
       \/ SchedKill \/ SchedPreempt
    /\ UNCHANGED <<seq_counter, stop, mu, cv>>

-----------------------------------------------------------------------------
(* Installing: handle_event for a MASTER event, the slave init calls for a *)
(* SLAVE event.                                                            *)

SchedInstall ==
    /\ sched = "install" /\ sched' = "spawn" /\ MuFree
    /\ set_exec_slot(chosen, "INIT", 0)
    /\ chosen' = NoEvent
    /\ UNCHANGED <<sigVars, initVars>>

\* Nobody looks at what the spawn returns.
SchedSpawn ==
    /\ sched = "spawn" /\ sched' = "top"
    /\ \/ qks_init_master_spawn
       \/ SpawnCanFail /\ qks_init_master_spawn_fails
    /\ UNCHANGED <<chosen, slotVars, sigVars>>

\* qks_init_slave_accept_and_claim builds a fresh event: its seq is 0.
SchedAccept ==
    /\ sched = "accept" /\ sched' = "on_act" /\ MuFree
    /\ set_exec_slot([chosen EXCEPT !.seq = 0], "IWAIT", 1)
    /\ chosen' = NoEvent
    /\ UNCHANGED <<sigVars, initVars>>

\* qks_init_slave_on_act, in three critical sections.
SchedOnAct ==
    /\ sched = "on_act" /\ sched' = "on_act_block" /\ MuFree
    /\ update_stage("EXEC")
    /\ UNCHANGED <<chosen, sigVars, initVars>>

SchedOnActBlock ==
    /\ sched = "on_act_block" /\ sched' = "on_act_signal" /\ MuFree
    /\ set_blocking(1)
    /\ UNCHANGED <<chosen, sigVars, initVars>>

SchedOnActSignal ==
    /\ sched = "on_act_signal" /\ sched' = "top" /\ ExecMuFree
    /\ exec_signal(exec_event)
    /\ UNCHANGED <<chosen, slotVars, initVars, worker_done, exec_mu, exec_cv_done>>

SchedInstalling ==
    /\ \/ SchedInstall \/ SchedSpawn \/ SchedAccept
       \/ SchedOnAct \/ SchedOnActBlock \/ SchedOnActSignal
    /\ UNCHANGED <<guard_pri, queueVars, stop, mu, cv>>

Scheduler ==
    /\ SchedWaiting \/ SchedDeciding \/ SchedInstalling
    /\ UNCHANGED <<dispVars, workerVars>>

=============================================================================
