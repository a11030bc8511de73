-------------------------- MODULE QksSystem_proofs --------------------------
(***************************************************************************)
(* Theorems about the scheduler program as a whole, for every workload,    *)
(* preemption and its races included: the types of its variables, the      *)
(* execution threads, and the master init thread.                          *)
(***************************************************************************)
EXTENDS QksInvariants, SequenceTheorems, TLAPS

LEMMA Levels == \A e : Priority(e) \in {1, 4}
  BY DEF Priority, priority_of

\* Pushing at the tail leaves a non-empty intake's head alone, and popping
\* leaves a sequence of events.
LEMMA Intake ==
  ASSUME NEW S, NEW s \in Seq(S), NEW e \in S
  PROVE  /\ Append(s, e) \in Seq(S)
         /\ Append(s, e) # <<>>
         /\ s # <<>> => /\ Head(Append(s, e)) = Head(s)
                        /\ Head(s) \in S
                        /\ Tail(s) \in Seq(S)
  <1>1. Append(s, e) \in Seq(S) /\ Append(s, e) # <<>>
    BY AppendProperties
  <1>2. ASSUME s # <<>> PROVE Head(s) \in S /\ Tail(s) \in Seq(S)
    BY <1>2, HeadTailProperties
  <1>3. ASSUME s # <<>> PROVE Head(Append(s, e)) = Head(s)
    BY <1>3, HeadTailAppend
  <1> QED
    BY <1>1, <1>2, <1>3

\* What push_ready stamps is an event.
LEMMA Stamped ==
  ASSUME NEW w \in Workload, NEW n \in 0 .. MaxEvents, n < MaxEvents
  PROVE  [id |-> n + 1, seq |-> n + 1, type |-> w[1], dir |-> w[2]] \in Events
  BY WorkloadAssumption, MaxEventsAssumption DEF Events, Ids

\* Counting in a function of counters keeps it one, even at a key it lacks.
LEMMA Counting ==
  ASSUME NEW S, NEW f \in [S -> Nat], NEW k
  PROVE  [f EXCEPT ![k] = @ + 1] \in [S -> Nat]
  <1>1. CASE k \in S
    BY <1>1
  <1>2. CASE k \notin S
    <2>1. [f EXCEPT ![k] = @ + 1] = f
      BY <1>2
    <2> QED
      BY <2>1
  <1> QED
    BY <1>1, <1>2

-----------------------------------------------------------------------------
(* Type correctness.  It needs to know what the scheduler holds in its     *)
(* hands: the event it installs, and the slot and intake it preempts with. *)

SchedHolds ==
  /\ sched \in {"install", "accept"} => chosen \in Events
  /\ sched \in {"kill", "preempt"} =>
       fifo # <<>> /\ exec_event \in Events /\ exec_event.dir = "MASTER"

TypeInv == TypeOK /\ SchedHolds

LEMMA TypeInit == Init => TypeInv
  <1> SUFFICES ASSUME Init PROVE TypeInv
    OBVIOUS
  <1> USE DEF Init, qks_queue_init, ExecInit, InitInit, SchedInit
  <1>1. QueueTypeOK
    BY MaxEventsAssumption DEF QueueTypeOK, Stages
  <1>2. ExecTypeOK
    BY DEF ExecTypeOK, DispPC, WorkerPC
  <1>3. ThreadTypeOK
    BY DEF ThreadTypeOK, InitPC, SchedPC, MainPC
  <1>4. SchedHolds
    BY DEF SchedHolds
  <1> QED
    BY <1>1, <1>2, <1>3, <1>4 DEF TypeInv, TypeOK

\* The steps of each thread, one lemma per thread.
LEMMA TypeInject ==
  ASSUME TypeInv, Inject \/ CallersExit \/ TimerFires
  PROVE  TypeInv'
  <1> USE DEF TypeInv, TypeOK, SchedHolds
  <1>1. CASE Inject
    <2>1. PICK w \in Workload : qks_inject_event(w[1], w[2])
      BY <1>1 DEF Inject
    <2> DEFINE e == [id |-> seq_counter + 1, seq |-> seq_counter + 1,
                     type |-> w[1], dir |-> w[2]]
    <2>2. seq_counter' = seq_counter + 1 /\ fifo' = Append(fifo, e) /\ cv' = 1
          /\ seq_counter < MaxEvents
          /\ UNCHANGED <<wait_heap, slotVars, mu, stop, sigVars, dispVars, workerVars,
                         initVars, schedVars, mainVars>>
      BY <2>1 DEF qks_inject_event, push_ready
    <2>3. e \in Events
      BY <2>2, Stamped DEF QueueTypeOK
    <2>4. fifo' \in Seq(Events) /\ fifo' # <<>>
      BY <2>2, <2>3, Intake DEF QueueTypeOK
    <2>5. QueueTypeOK'
      BY <2>2, <2>4, MaxEventsAssumption DEF QueueTypeOK, slotVars
    <2>6. ExecTypeOK' /\ ThreadTypeOK' /\ SchedHolds'
      BY <2>2, <2>4 DEF ExecTypeOK, ThreadTypeOK, slotVars, sigVars, dispVars,
                        workerVars, initVars, schedVars, mainVars
    <2> QED
      BY <2>5, <2>6
  <1>2. CASE CallersExit \/ TimerFires
    <2>1. UNCHANGED <<queueVars, slotVars, mu, cv, sigVars, dispVars, workerVars,
                      initVars, schedVars, main>>
          /\ stop' \in {0, 1} /\ callers' \in {"run", "exit"}
          /\ timer' \in {"armed", "fired"}
      BY <1>2 DEF CallersExit, TimerFires, ExecTypeOK, ThreadTypeOK
    <2>2. QueueTypeOK' /\ SchedHolds'
      BY <2>1 DEF QueueTypeOK, queueVars, slotVars, schedVars
    <2>3. ExecTypeOK' /\ ThreadTypeOK'
      BY <2>1 DEF ExecTypeOK, ThreadTypeOK, sigVars, dispVars, workerVars,
                  initVars, schedVars
    <2> QED
      BY <2>2, <2>3
  <1> QED
    BY <1>1, <1>2

LEMMA TypeMain ==
  ASSUME TypeInv, Main
  PROVE  TypeInv'
  <1> USE DEF TypeInv, TypeOK, SchedHolds, Main, queueVars, slotVars, dispVars, schedVars
  <1>1. QueueTypeOK' /\ SchedHolds'
    BY DEF QueueTypeOK, MainSeesStop, MainStopAll, MainWake, MainJoinScheduler,
           MainJoinCallers, MainStopExec, MainStopWorkers, MainJoinExec, MainKillInit
  <1>2. ExecTypeOK'
    BY DEF ExecTypeOK, MainSeesStop, MainStopAll, MainWake, MainJoinScheduler,
           MainJoinCallers, MainStopExec, MainStopWorkers, MainJoinExec, MainKillInit,
           sigVars, workerVars
  <1>3. ThreadTypeOK'
    BY DEF ThreadTypeOK, MainSeesStop, MainStopAll, MainWake, MainJoinScheduler,
           MainJoinCallers, MainStopExec, MainStopWorkers, MainJoinExec, MainKillInit,
           initVars, At, MainPC, InitPC, qks_init_master_kill_current
  <1> QED
    BY <1>1, <1>2, <1>3

LEMMA TypeWorkers ==
  ASSUME TypeInv, NEW w \in Workers, WorkerStep(w)
  PROVE  TypeInv'
  <1> USE DEF TypeInv, TypeOK, SchedHolds, WorkerStep, Worker
  <1>1. QueueTypeOK' /\ ThreadTypeOK' /\ SchedHolds'
    BY DEF QueueTypeOK, ThreadTypeOK, queueVars, slotVars, initVars, schedVars, mainVars
  <1>2. worker_cv' \in [Workers -> {0, 1}]
    BY DEF ExecTypeOK, WorkerTake, WorkerSleep, WorkerExit, WorkerReport, WorkerTests
  <1>3. CASE WorkerTake(w)
    <2>1. runs' \in [Ids -> Nat]
      BY <1>3, Counting DEF ExecTypeOK, WorkerTake
    <2>2. worker' \in [Workers -> WorkerPC] /\ worker_wake' \in [Workers -> {0, 1}]
      BY <1>3 DEF ExecTypeOK, WorkerTake, WorkerPC
    <2> QED
      BY <1>1, <1>2, <1>3, <2>1, <2>2 DEF ExecTypeOK, WorkerTake, sigVars, dispVars
  <1>4. CASE WorkerSleep(w) \/ WorkerExit(w) \/ WorkerReport(w)
    <2>1. worker' \in [Workers -> WorkerPC]
      BY <1>4 DEF ExecTypeOK, WorkerSleep, WorkerExit, WorkerReport, WorkerPC
    <2> QED
      BY <1>1, <1>2, <1>4, <2>1 DEF ExecTypeOK, WorkerSleep, WorkerExit,
                                    WorkerReport, sigVars, dispVars
  <1> QED
    BY <1>3, <1>4

LEMMA TypeDispatcher ==
  ASSUME TypeInv, DispatcherStep
  PROVE  TypeInv'
  <1> USE DEF TypeInv, TypeOK, SchedHolds, DispatcherStep, Dispatcher
  <1>1. ThreadTypeOK'
    BY DEF ThreadTypeOK, initVars, schedVars, mainVars
  <1>2. QueueTypeOK' /\ SchedHolds'
    BY DEF QueueTypeOK, DispTake, DispSleep, DispExit, DispDispatch, DispCompleted,
           DispSleepDone, DispClear, DispNotify, clear_exec_slot, queueVars,
           slotVars, schedVars
  <1>3. ExecTypeOK'
    BY DEF ExecTypeOK, DispTake, DispSleep, DispExit, DispDispatch, DispCompleted,
           DispSleepDone, DispClear, DispNotify, DispTests, DispTestsDone, DispPC,
           sigVars, workerVars
  <1> QED
    BY <1>1, <1>2, <1>3

LEMMA TypeInitThread ==
  ASSUME TypeInv, InitStep
  PROVE  TypeInv'
  <1> USE DEF TypeInv, TypeOK, SchedHolds, InitStep, InitThread, InitAck, InitStopped,
              InitLock, InitStage, InitBlock, InitReadSlot, InitLockExec, InitSignal,
              InitFinish, schedVars, queueVars
  <1>1. QueueTypeOK' /\ SchedHolds'
    BY DEF QueueTypeOK, Stages, update_stage, set_blocking, slotVars
  <1>2. ExecTypeOK'
    BY DEF ExecTypeOK, sigVars, dispVars, workerVars, exec_signal, ThreadTypeOK
  <1>3. ThreadTypeOK'
    BY DEF ThreadTypeOK, QueueTypeOK, Step, InitPC, mainVars, slotVars
  <1> QED
    BY <1>1, <1>2, <1>3

LEMMA TypeScheduler ==
  ASSUME TypeInv, SchedulerStep
  PROVE  TypeInv'
  <1> USE DEF TypeInv, TypeOK
  <1>0. UNCHANGED <<dispVars, workerVars, mainVars>>
    BY DEF SchedulerStep, Scheduler
  <1>1. CASE SchedWaiting
    <2>1. UNCHANGED <<chosen, queueVars, slotVars, mu, sigVars, initVars>>
      BY <1>1 DEF SchedWaiting
    <2>2. stop' \in {0, 1} /\ cv' \in {0, 1} /\ guard_pri' \in {0, 1, 4}
          /\ sched' \in {"top", "wait_any", "sleep_any", "wait_fifo", "sleep_fifo",
                        "guard", "branch", "choose", "arrive", "exit"}
      BY <1>1 DEF SchedWaiting, SchedBoot, SchedTop, SchedWaitAny, SchedWaitFifo,
                  SchedTests, SchedStopped, SchedGuard, SchedBranch,
                  QueueTypeOK, ExecTypeOK, ThreadTypeOK
    <2> QED
      BY <1>0, <2>1, <2>2 DEF QueueTypeOK, ExecTypeOK, ThreadTypeOK, SchedHolds,
           SchedPC, queueVars, slotVars, sigVars, initVars, dispVars, workerVars, mainVars
  <1>2. CASE SchedDeciding
    <2>1. UNCHANGED <<seq_counter, stop, mu, cv, sigVars, dispVars, workerVars, mainVars>>
          /\ ExecTypeOK'
      BY <1>0, <1>2 DEF SchedDeciding, SchedChoose, SchedArrivePreempt, SchedArriveQueue,
           SchedKill, SchedPreempt, ExecTypeOK, sigVars, dispVars, workerVars
    <2>2. ASSUME fifo # <<>>
          PROVE  Head(fifo) \in Events /\ Tail(fifo) \in Seq(Events)
      BY <2>2, HeadTailProperties DEF QueueTypeOK
    <2>3. CASE SchedChoose \/ SchedArrivePreempt \/ SchedArriveQueue
      <3>1. fifo' \in Seq(Events) /\ wait_heap' \subseteq Events
            /\ chosen' \in Events \union {NoEvent}
            /\ (sched' \in {"install", "accept"} => chosen' \in Events)
        BY <2>2, <2>3 DEF SchedChoose, SchedArrivePreempt, SchedArriveQueue, Take,
             PopFifo, QueueTypeOK, ThreadTypeOK
      <3>2. sched' \in SchedPC /\ guard_pri' \in {0, 1, 4}
            /\ UNCHANGED <<slotVars, initVars>>
        BY <2>3 DEF SchedChoose, SchedArrivePreempt, SchedArriveQueue, Take,
             ThreadTypeOK, SchedPC
      <3>3. sched' \in {"kill", "preempt"} =>
               fifo' # <<>> /\ exec_event' \in Events /\ exec_event'.dir = "MASTER"
        BY <2>3 DEF SchedChoose, SchedArrivePreempt, SchedArriveQueue, Take,
             AllowPreempt, QueueTypeOK, NoEvent, slotVars
      <3> QED
        BY <2>1, <3>1, <3>2, <3>3 DEF QueueTypeOK, ThreadTypeOK, SchedHolds,
             slotVars, initVars, mainVars
    <2>4. CASE SchedKill
      BY <2>1, <2>4 DEF SchedKill, qks_init_master_kill_current, QueueTypeOK,
           ThreadTypeOK, SchedHolds, SchedPC, InitPC, slotVars, mainVars
    <2>5. CASE SchedPreempt
      BY <2>1, <2>2, <2>5 DEF SchedPreempt, Take, PopFifo, clear_exec_slot, QueueTypeOK,
           ThreadTypeOK, SchedHolds, SchedPC, initVars, mainVars
    <2> QED
      BY <1>2, <2>3, <2>4, <2>5 DEF SchedDeciding
  <1>3. CASE SchedInstalling
    <2>1. UNCHANGED <<guard_pri, queueVars, stop, mu, cv, dispVars, workerVars, mainVars>>
      BY <1>0, <1>3 DEF SchedInstalling
    <2>2. CASE SchedInstall \/ SchedAccept
      <3>1. exec_event' \in Events
        BY <2>2 DEF SchedInstall, SchedAccept, set_exec_slot, SchedHolds, Events
      <3> QED
        BY <2>1, <2>2, <3>1, Levels DEF SchedInstall, SchedAccept, set_exec_slot,
             QueueTypeOK, ExecTypeOK, ThreadTypeOK, SchedHolds, SchedPC, Stages,
             queueVars, sigVars, initVars, dispVars, workerVars, mainVars
    <2>3. CASE SchedSpawn
      BY <2>1, <2>3 DEF SchedSpawn, qks_init_master_spawn, qks_init_master_spawn_fails,
             QueueTypeOK, ExecTypeOK, ThreadTypeOK, SchedHolds, SchedPC, InitPC,
             queueVars, slotVars, sigVars, dispVars, workerVars, mainVars
    <2>4. CASE SchedOnAct \/ SchedOnActBlock
      BY <2>1, <2>4 DEF SchedOnAct, SchedOnActBlock, update_stage, set_blocking,
             QueueTypeOK, ExecTypeOK, ThreadTypeOK, SchedHolds, SchedPC, Stages,
             queueVars, sigVars, initVars, dispVars, workerVars, mainVars
    <2>5. CASE SchedOnActSignal
      BY <2>1, <2>5 DEF SchedOnActSignal, exec_signal,
             QueueTypeOK, ExecTypeOK, ThreadTypeOK, SchedHolds, SchedPC,
             queueVars, slotVars, initVars, dispVars, workerVars, mainVars
    <2> QED
      BY <1>3, <2>2, <2>3, <2>4, <2>5 DEF SchedInstalling
  <1> QED
    BY <1>1, <1>2, <1>3 DEF SchedulerStep, Scheduler

LEMMA TypeStutter ==
  ASSUME TypeInv, UNCHANGED vars
  PROVE  TypeInv'
  BY DEF TypeInv, TypeOK, QueueTypeOK, ExecTypeOK, ThreadTypeOK, SchedHolds, vars,
         queueVars, slotVars, sigVars, dispVars, workerVars, initVars, schedVars, mainVars

LEMMA TypeStep == TypeInv /\ [Next]_vars => TypeInv'
  BY TypeInject, TypeMain, TypeWorkers, TypeDispatcher, TypeInitThread, TypeScheduler,
     TypeStutter DEF Next, Terminated

THEOREM TypeInvariant == Spec => []TypeInv
  BY TypeInit, TypeStep, PTL DEF Spec

\* Every variable keeps its type, whatever the workload, the number of
\* events and the setting of the timer: in particular the guard priority is
\* always one of the levels that the code compares it with, and what goes
\* back to the heap on a preemption is always an event.
THEOREM TypeCorrect == Spec => []TypeOK
  BY TypeInvariant, PTL DEF TypeInv

-----------------------------------------------------------------------------
(* The execution threads. *)

\* The variables of the execution threads that PipelineInv speaks of.
pipe == <<worker, worker_wake, worker_done, disp, disp_ev, wake>>

\* Steps that leave the execution threads and the init thread's existence
\* alone, that do not undo a stop and do not restart the scheduler.
LEMMA PipeIdle ==
  ASSUME PipelineInv, UNCHANGED pipe,
         sched' = "boot" => sched = "boot",
         sched' = "boot" => init' \in {init, "none"},
         stop' = 0 => stop = 0 \/ sched = "boot"
  PROVE  PipelineInv'
  BY DEF PipelineInv, Busy, pipe

LEMMA PipeScheduler == ASSUME PipelineInv, SchedulerStep PROVE PipelineInv'
  <1>1. sched' # "boot"
    BY DEF SchedulerStep, Scheduler, SchedWaiting, SchedDeciding, SchedInstalling,
       SchedBoot, SchedTop, SchedWaitAny, SchedWaitFifo, SchedTests, SchedStopped,
       SchedGuard, SchedBranch, SchedChoose, SchedArrivePreempt, SchedArriveQueue,
       SchedKill, SchedPreempt, Take, SchedInstall, SchedSpawn, SchedAccept, SchedOnAct,
       SchedOnActBlock, SchedOnActSignal
  <1>2. UNCHANGED <<worker, worker_wake, worker_done, disp, disp_ev>>
    BY DEF SchedulerStep, Scheduler, SchedWaiting, SchedDeciding, SchedInstalling,
       SchedChoose, SchedArrivePreempt, SchedArriveQueue, SchedKill, SchedPreempt,
       SchedInstall, SchedSpawn, SchedAccept, SchedOnAct, SchedOnActBlock,
       SchedOnActSignal, sigVars, dispVars, workerVars
  <1>3. stop' = stop \/ sched = "boot"
    BY DEF SchedulerStep, Scheduler, SchedWaiting, SchedDeciding, SchedInstalling,
       SchedBoot, SchedTop, SchedWaitAny, SchedWaitFifo, SchedStopped, SchedGuard,
       SchedBranch
  <1> QED
    BY <1>1, <1>2, <1>3 DEF PipelineInv, Busy

LEMMA PipeInit == ASSUME PipelineInv, InitStep PROVE PipelineInv'
  <1>1. UNCHANGED <<worker, worker_wake, worker_done, disp, disp_ev, sched, stop>>
    BY DEF InitStep, InitThread, InitAck, InitStopped, InitLock, InitStage, InitBlock,
       InitReadSlot, InitLockExec, InitSignal, InitFinish, sigVars, dispVars,
       workerVars, schedVars
  <1>2. init # "none"
    BY DEF InitStep, InitThread, InitAck, InitStopped, InitLock, InitStage, InitBlock,
       InitReadSlot, InitLockExec, InitSignal, InitFinish, Step
  <1> QED
    BY <1>1, <1>2 DEF PipelineInv, Busy

\* A dispatcher that waits for a completion is the only one to have woken a
\* worker, and it takes the completion flag back before it goes on.
LEMMA PipeDispatcher == ASSUME TypeInv, PipelineInv, DispatcherStep PROVE PipelineInv'
  <1> USE DEF PipelineInv, Busy, workerVars, schedVars, initVars, sigVars, DispatcherStep,
          Dispatcher
  <1>0. worker_done \in {0, 1} /\ worker_wake \in [Workers -> {0, 1}] /\ stop \in {0, 1}
    BY DEF TypeInv, TypeOK, ExecTypeOK
  <1>1. CASE DispTake \/ DispSleep \/ DispExit
    BY <1>1 DEF DispTake, DispSleep, DispExit, DispTests
  <1>2. CASE DispDispatch
    BY <1>0, <1>2 DEF DispDispatch
  <1>3. CASE DispCompleted \/ DispSleepDone
    BY <1>0, <1>3 DEF DispCompleted, DispSleepDone, DispTestsDone
  <1>4. CASE DispClear \/ DispNotify
    BY <1>4 DEF DispClear, DispNotify
  <1> QED
    BY <1>1, <1>2, <1>3, <1>4

LEMMA PipeWorker ==
  ASSUME TypeInv, PipelineInv, NEW w \in Workers, WorkerStep(w) PROVE PipelineInv'
  <1> USE DEF PipelineInv, Busy, dispVars, schedVars, initVars, sigVars, WorkerStep, Worker
  <1>0. worker \in [Workers -> WorkerPC] /\ worker_wake \in [Workers -> {0, 1}]
    BY DEF TypeInv, TypeOK, ExecTypeOK
  <1>1. CASE WorkerTake(w)
    BY <1>0, <1>1 DEF WorkerTake, WorkerTests
  <1>2. CASE WorkerSleep(w) \/ WorkerExit(w)
    BY <1>0, <1>2 DEF WorkerSleep, WorkerExit, WorkerTests
  <1>3. CASE WorkerReport(w)
    BY <1>0, <1>3 DEF WorkerReport
  <1> QED
    BY <1>1, <1>2, <1>3

LEMMA PipeStep == TypeInv /\ PipelineInv /\ [Next]_vars => PipelineInv'
  <1> SUFFICES ASSUME TypeInv, PipelineInv, [Next]_vars PROVE PipelineInv'
    OBVIOUS
  <1>1. CASE Inject
    BY <1>1, PipeIdle DEF Inject, qks_inject_event, sigVars, dispVars, workerVars,
       initVars, schedVars, pipe
  <1>2. CASE CallersExit \/ TimerFires
    BY <1>2, PipeIdle DEF CallersExit, TimerFires, sigVars, dispVars, workerVars,
       initVars, schedVars, pipe
  <1>3. CASE Main
    <2>1. UNCHANGED pipe /\ UNCHANGED sched
      BY <1>3 DEF Main, MainSeesStop, MainStopAll, MainWake, MainJoinScheduler,
         MainJoinCallers, MainStopExec, MainStopWorkers, MainJoinExec, MainKillInit,
         sigVars, dispVars, workerVars, schedVars, pipe
    <2>2. init' \in {init, "none"} /\ stop' \in {stop, 1}
      BY <1>3 DEF Main, MainSeesStop, MainStopAll, MainWake, MainJoinScheduler,
         MainJoinCallers, MainStopExec, MainStopWorkers, MainJoinExec, MainKillInit,
         qks_init_master_kill_current, initVars
    <2> QED
      BY <2>1, <2>2, PipeIdle
  <1>4. CASE SchedulerStep
    BY <1>4, PipeScheduler
  <1>5. CASE InitStep
    BY <1>5, PipeInit
  <1>6. CASE DispatcherStep
    BY <1>6, PipeDispatcher
  <1>7. ASSUME NEW w \in Workers, WorkerStep(w) PROVE PipelineInv'
    BY <1>7, PipeWorker
  <1>8. CASE UNCHANGED vars
    BY <1>8, PipeIdle DEF vars, sigVars, dispVars, workerVars, initVars, schedVars, pipe
  <1> QED
    BY <1>1, <1>2, <1>3, <1>4, <1>5, <1>6, <1>7, <1>8 DEF Next, Terminated

LEMMA PipeAlways == Spec => []PipelineInv
  <1>1. Init => PipelineInv
    BY DEF Init, ExecInit, InitInit, SchedInit, PipelineInv, Busy
  <1> QED
    BY <1>1, PipeStep, TypeInvariant, PTL DEF Spec

\* A worker begins only before the stop, and then it is the only one.
LEMMA OneWorkerStep ==
  TypeInv /\ PipelineInv /\ OneWorker /\ [Next]_vars => OneWorker'
  <1> SUFFICES ASSUME TypeInv, PipelineInv, OneWorker, [Next]_vars PROVE OneWorker'
    OBVIOUS
  <1>0. worker \in [Workers -> WorkerPC]
    BY DEF TypeInv, TypeOK, ExecTypeOK
  <1>1. ASSUME UNCHANGED worker PROVE OneWorker'
    BY <1>1 DEF OneWorker, Executing
  <1>2. ASSUME NEW w \in Workers, WorkerStep(w) PROVE OneWorker'
    <2>1. CASE WorkerTake(w)
      <3>1. stop = 0 /\ Busy(w)
        BY <2>1 DEF WorkerTake, Busy
      <3>2. \A v \in Workers : Executing(v) => v = w
        BY <3>1 DEF PipelineInv, Busy, Executing
      <3>3. \A v \in Workers : Executing(v)' => Executing(v) \/ v = w
        BY <1>0, <2>1 DEF WorkerTake, Executing
      <3> QED
        BY <3>2, <3>3 DEF OneWorker
    <2>2. CASE ~WorkerTake(w)
      <3>1. \A v \in Workers : Executing(v)' => Executing(v)
        BY <1>0, <1>2, <2>2 DEF WorkerStep, Worker, WorkerSleep, WorkerExit, WorkerReport,
           Executing
      <3> QED
        BY <3>1 DEF OneWorker
    <2> QED
      BY <2>1, <2>2
  <1>3. CASE Inject \/ CallersExit \/ TimerFires \/ UNCHANGED vars
    BY <1>1, <1>3 DEF Inject, qks_inject_event, CallersExit, TimerFires, vars, workerVars
  <1>4. CASE Main
    BY <1>1, <1>4 DEF Main, MainSeesStop, MainStopAll, MainWake, MainJoinScheduler,
       MainJoinCallers, MainStopExec, MainStopWorkers, MainJoinExec, MainKillInit, workerVars
  <1>5. CASE SchedulerStep \/ InitStep
    BY <1>1, <1>5 DEF SchedulerStep, Scheduler, InitStep, InitThread, workerVars
  <1>6. CASE DispatcherStep
    BY <1>1, <1>6 DEF DispatcherStep, Dispatcher, DispTake, DispSleep, DispExit,
       DispDispatch, DispCompleted, DispSleepDone, DispClear, DispNotify, workerVars
  <1> QED
    BY <1>2, <1>3, <1>4, <1>5, <1>6 DEF Next, Terminated

\* At most one worker thread executes: the wake flags, the completion flag
\* and the dispatcher's two waits pass the events on one at a time, even when
\* a preempted init thread signals late and an event overtakes another in the
\* mailbox, and no worker begins once the dispatcher has given up waiting.
THEOREM OneWorkerExecutes == Spec => []OneWorker
  <1>1. Init => OneWorker
    BY DEF Init, ExecInit, OneWorker, Executing
  <1> QED
    BY <1>1, OneWorkerStep, PipeAlways, TypeInvariant, PTL DEF Spec

-----------------------------------------------------------------------------
(* The master init thread. *)

\* Steps of the threads that neither fill the slot nor kill the init thread,
\* nor undo a stop.
LEMMA ThreadIdle ==
  ASSUME InitThreadInv, UNCHANGED <<init, sched, main, stage>>,
         has_exec' \in {has_exec, 0}, stop' \in {stop, 1}
  PROVE  InitThreadInv'
  BY DEF InitThreadInv, InitHasThread

LEMMA ThreadWaiting == ASSUME InitThreadInv, SchedulerStep, SchedWaiting PROVE InitThreadInv'
  <1> USE DEF SchedulerStep, SchedWaiting, slotVars, initVars, mainVars, InitThreadInv,
          InitHasThread, MainPC
  <1>1. CASE SchedBoot
    BY <1>1 DEF SchedBoot
  <1>2. CASE SchedTop
    BY <1>2 DEF SchedTop
  <1>3. CASE SchedWaitAny
    BY <1>3 DEF SchedWaitAny, SchedTests
  <1>4. CASE SchedWaitFifo
    BY <1>4 DEF SchedWaitFifo, SchedTests
  <1>5. CASE SchedStopped
    BY <1>5 DEF SchedStopped
  <1>6. CASE SchedGuard \/ SchedBranch
    BY <1>6 DEF SchedGuard, SchedBranch
  <1> QED
    BY <1>1, <1>2, <1>3, <1>4, <1>5, <1>6

\* A preemption takes the thread away and, before anything else, empties the
\* slot.
LEMMA ThreadDeciding == ASSUME InitThreadInv, SchedulerStep, SchedDeciding PROVE InitThreadInv'
  <1> USE DEF SchedulerStep, SchedDeciding, slotVars, initVars, mainVars, InitThreadInv,
          InitHasThread, MainPC
  <1>1. CASE SchedChoose
    BY <1>1 DEF SchedChoose, Take
  <1>2. CASE SchedArrivePreempt \/ SchedArriveQueue
    BY <1>2 DEF SchedArrivePreempt, SchedArriveQueue
  <1>3. CASE SchedKill
    BY <1>3 DEF SchedKill
  <1>4. CASE SchedPreempt
    BY <1>4 DEF SchedPreempt, clear_exec_slot, Take
  <1> QED
    BY <1>1, <1>2, <1>3, <1>4

LEMMA ThreadInstalling ==
  ASSUME TypeInv, InitThreadInv, SchedulerStep, SchedInstalling PROVE InitThreadInv'
  <1> USE DEF SchedulerStep, SchedInstalling, slotVars, initVars, mainVars, InitThreadInv,
          InitHasThread, MainPC
  <1>0. has_exec \in {0, 1}
    BY DEF TypeInv, TypeOK, QueueTypeOK
  <1>1. CASE SchedInstall
    BY <1>1 DEF SchedInstall, set_exec_slot
  <1>2. CASE SchedSpawn
    BY <1>2 DEF SchedSpawn, qks_init_master_spawn
  <1>3. CASE SchedAccept
    BY <1>3 DEF SchedAccept, set_exec_slot
  <1>4. CASE SchedOnAct
    BY <1>0, <1>4 DEF SchedOnAct, update_stage
  <1>5. CASE SchedOnActBlock \/ SchedOnActSignal
    BY <1>5 DEF SchedOnActBlock, SchedOnActSignal, set_blocking
  <1> QED
    BY <1>1, <1>2, <1>3, <1>4, <1>5

\* The thread leaves its early steps only with the slot in stage EXEC, or
\* when it has seen stop.
LEMMA ThreadInit == ASSUME TypeInv, InitThreadInv, InitStep PROVE InitThreadInv'
  <1> USE DEF InitStep, InitThread, Step, slotVars, schedVars, mainVars, InitThreadInv,
          InitHasThread
  <1>0. has_exec \in {0, 1}
    BY DEF TypeInv, TypeOK, QueueTypeOK
  <1>1. CASE InitAck \/ InitStopped
    BY <1>1 DEF InitAck, InitStopped
  <1>2. CASE InitLock
    BY <1>2 DEF InitLock
  <1>3. CASE InitStage
    BY <1>0, <1>3 DEF InitStage, update_stage
  <1>4. CASE InitBlock \/ InitReadSlot
    BY <1>4 DEF InitBlock, InitReadSlot, set_blocking
  <1>5. CASE InitLockExec \/ InitSignal \/ InitFinish
    BY <1>5 DEF InitLockExec, InitSignal, InitFinish
  <1> QED
    BY <1>1, <1>2, <1>3, <1>4, <1>5

LEMMA ThreadMain == ASSUME InitThreadInv, Main PROVE InitThreadInv'
  <1> USE DEF Main, At, slotVars, schedVars, initVars, InitThreadInv, InitHasThread, MainPC
  <1>1. CASE MainSeesStop \/ MainStopAll \/ MainWake
    BY <1>1 DEF MainSeesStop, MainStopAll, MainWake
  <1>2. CASE MainJoinScheduler \/ MainJoinCallers
    BY <1>2 DEF MainJoinScheduler, MainJoinCallers
  <1>3. CASE MainStopExec \/ MainStopWorkers \/ MainJoinExec
    BY <1>3 DEF MainStopExec, MainStopWorkers, MainJoinExec
  <1>4. CASE MainKillInit
    BY <1>4 DEF MainKillInit
  <1> QED
    BY <1>1, <1>2, <1>3, <1>4

LEMMA ThreadStep == TypeInv /\ InitThreadInv /\ [Next]_vars => InitThreadInv'
  <1> SUFFICES ASSUME TypeInv, InitThreadInv, [Next]_vars PROVE InitThreadInv'
    OBVIOUS
  <1> USE DEF initVars, schedVars, slotVars, mainVars
  <1>1. CASE Inject \/ CallersExit \/ TimerFires
    BY <1>1, ThreadIdle DEF Inject, qks_inject_event, CallersExit, TimerFires
  <1>2. CASE Main
    BY <1>2, ThreadMain
  <1>3. CASE SchedulerStep
    BY <1>3, ThreadWaiting, ThreadDeciding, ThreadInstalling DEF SchedulerStep, Scheduler
  <1>4. CASE InitStep
    BY <1>4, ThreadInit
  <1>5. CASE DispatcherStep
    BY <1>5, ThreadIdle DEF DispatcherStep, Dispatcher, DispTake, DispSleep, DispExit,
       DispDispatch, DispCompleted, DispSleepDone, DispClear, clear_exec_slot, DispNotify
  <1>6. ASSUME NEW w \in Workers, WorkerStep(w) PROVE InitThreadInv'
    BY <1>6, ThreadIdle DEF WorkerStep, Worker
  <1>7. CASE UNCHANGED vars
    BY <1>7, ThreadIdle DEF vars
  <1> QED
    BY <1>1, <1>2, <1>3, <1>4, <1>5, <1>6, <1>7 DEF Next, Terminated

\* A slot in stage INIT never waits in vain: a master init thread works for
\* it or is about to be spawned, even if another one was still on its way
\* out or the slot was freed by a completion that belonged to another event.
THEOREM InitIsAttended == Spec => []InitHasThread
  <1>1. Init => InitThreadInv
    BY DEF Init, qks_queue_init, SchedInit, InitThreadInv, InitHasThread
  <1>2. InitThreadInv => InitHasThread
    BY DEF InitThreadInv
  <1> QED
    BY <1>1, <1>2, ThreadStep, TypeInvariant, PTL DEF Spec

=============================================================================
