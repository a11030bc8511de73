----------------------------- MODULE QksSystem ------------------------------
(***************************************************************************)
(* The running program: the scheduler, the master init thread, the         *)
(* dispatcher and the workers, the callers that inject events, the exit    *)
(* timer and the main thread's shutdown.                                   *)
(***************************************************************************)
EXTENDS QksSched

CONSTANTS
    TimedRun,         \* TRUE: cfg.run_seconds > 0, the exit timer runs
    BootBeforeTimer   \* TRUE: the scheduler thread has started before the
                      \* exit timer fires, a second or more after start-up

ASSUME TimerAssumption == TimedRun \in BOOLEAN /\ BootBeforeTimer \in BOOLEAN

VARIABLES
    callers,        \* "run" while some thread may call qks_inject_event
    timer,          \* "armed", or "fired" once it has set stop
    main            \* where the main thread is

mainVars == <<callers, timer, main>>
vars == <<queueVars, slotVars, mu, cv, stop, sigVars, dispVars, workerVars,
          initVars, schedVars, mainVars>>

MainPC == {"run", "stop_all", "wake", "join_sched", "join_callers",
           "stop_exec", "stop_workers", "join_exec", "kill_init", "done"}

Init ==
    /\ qks_queue_init /\ ExecInit /\ InitInit /\ SchedInit
    /\ stop = 0
    /\ callers = "run" /\ timer = "armed" /\ main = "run"

-----------------------------------------------------------------------------
(* The simulator, or any other thread that calls qks_inject_event.         *)

qks_inject_event(t, d) ==
    /\ callers = "run" /\ MuFree
    /\ seq_counter < MaxEvents
    /\ push_ready(t, d)
    /\ UNCHANGED <<slotVars, mu, stop, sigVars, dispVars, workerVars,
                   initVars, schedVars, mainVars>>

Inject == \E w \in Workload : qks_inject_event(w[1], w[2])

\* The calling threads leave their loops when they see stop.
CallersExit ==
    /\ callers = "run" /\ stop = 1
    /\ callers' = "exit"
    /\ UNCHANGED <<queueVars, slotVars, mu, cv, stop, sigVars, dispVars,
                   workerVars, initVars, schedVars, timer, main>>

\* timer_thread: run_seconds have passed.
TimerFires ==
    /\ TimedRun /\ timer = "armed"
    /\ BootBeforeTimer => sched # "boot"
    /\ timer' = "fired" /\ stop' = 1
    /\ UNCHANGED <<queueVars, slotVars, mu, cv, sigVars, dispVars, workerVars,
                   initVars, schedVars, callers, main>>

-----------------------------------------------------------------------------
(* main and qks_threads_stop_all.                                          *)

At(from, to) == main = from /\ main' = to

MainSeesStop ==
    /\ At("run", "stop_all") /\ stop = 1
    /\ UNCHANGED <<stop, cv, sigVars, workerVars, initVars>>

MainStopAll ==
    /\ At("stop_all", "wake") /\ stop' = 1
    /\ UNCHANGED <<cv, sigVars, workerVars, initVars>>

\* A bug: the sleeping scheduler is not woken.
MainWake_Silent ==
    /\ At("wake", "join_sched") /\ MuFree
    /\ UNCHANGED <<stop, cv, sigVars, workerVars, initVars>>

MainWake ==
    /\ At("wake", "join_sched") /\ MuFree /\ cv' = 1
    /\ UNCHANGED <<stop, sigVars, workerVars, initVars>>

MainJoinScheduler ==
    /\ At("join_sched", "join_callers") /\ sched = "exit"
    /\ UNCHANGED <<stop, cv, sigVars, workerVars, initVars>>

MainJoinCallers ==
    /\ At("join_callers", "stop_exec") /\ callers = "exit"
    /\ UNCHANGED <<stop, cv, sigVars, workerVars, initVars>>

\* qks_exec_threads_stop wakes the dispatcher, then every worker.
MainStopExec ==
    /\ At("stop_exec", "stop_workers") /\ ExecMuFree
    /\ stop' = 1 /\ exec_cv' = 1 /\ exec_cv_done' = 1
    /\ UNCHANGED <<cv, wake, pending, worker_done, exec_mu, workerVars, initVars>>

MainStopWorkers ==
    /\ At("stop_workers", "join_exec")
    /\ worker_cv' = [w \in Workers |-> 1]
    /\ UNCHANGED <<stop, cv, sigVars, worker, worker_wake, runs, initVars>>

MainJoinExec ==
    /\ At("join_exec", "kill_init")
    /\ disp = "exit" /\ \A w \in Workers : worker[w] = "exit"
    /\ UNCHANGED <<stop, cv, sigVars, workerVars, initVars>>

MainKillInit ==
    /\ At("kill_init", "done")
    /\ qks_init_master_kill_current
    /\ UNCHANGED <<stop, cv, sigVars, workerVars>>

Main ==
    /\ \/ MainSeesStop \/ MainStopAll \/ MainWake \/ MainJoinScheduler
       \/ MainJoinCallers \/ MainStopExec \/ MainStopWorkers \/ MainJoinExec
       \/ MainKillInit
    /\ UNCHANGED <<queueVars, slotVars, mu, dispVars, schedVars, callers, timer>>

-----------------------------------------------------------------------------
SchedulerStep  == Scheduler /\ UNCHANGED mainVars
InitStep       == InitThread /\ UNCHANGED <<schedVars, mainVars>>
DispatcherStep == Dispatcher /\ UNCHANGED <<initVars, schedVars, mainVars>>
WorkerStep(w)  == Worker(w) /\ UNCHANGED <<initVars, schedVars, mainVars>>

\* The process has exited.
Terminated == main = "done" /\ UNCHANGED vars

Next ==
    \/ Inject \/ CallersExit \/ TimerFires \/ Main
    \/ SchedulerStep \/ InitStep \/ DispatcherStep
    \/ \E w \in Workers : WorkerStep(w)
    \/ Terminated

Spec == Init /\ [][Next]_vars

\* Every thread keeps being scheduled.  Nothing obliges a caller to inject
\* an event or the timer to fire.
Fairness ==
    /\ WF_vars(SchedulerStep) /\ WF_vars(InitStep)
    /\ WF_vars(DispatcherStep) /\ \A w \in Workers : WF_vars(WorkerStep(w))
    /\ WF_vars(Main) /\ WF_vars(CallersExit)

FairSpec == Spec /\ Fairness

=============================================================================
