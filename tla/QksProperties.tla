--------------------------- MODULE QksProperties ----------------------------
(***************************************************************************)
(* What the running program of QksSystem must and must not do.             *)
(***************************************************************************)
EXTENDS QksSystem

InFifo == {fifo[k] : k \in DOMAIN fifo}

\* Where an event can be before it gets the slot.
Waiting == InFifo \union wait_heap \union ({chosen} \ {NoEvent})

\* Where it can be before and while it is executed.
Held == Waiting \union (IF has_exec = 1 THEN {exec_event} ELSE {})

Executing(w) == worker[w] = "run"

-----------------------------------------------------------------------------
(* Type invariant: every variable, in the values the C types and the code  *)
(* that writes them allow.  The guard priority is 0 for an empty slot and  *)
(* otherwise one of the two levels of event.h.                             *)

QueueTypeOK ==
    /\ fifo \in Seq(Events)
    /\ wait_heap \subseteq Events
    /\ has_exec \in {0, 1} /\ hard_blocking \in {0, 1}
    /\ exec_event \in Events \union {NoEvent}
    /\ stage \in Stages
    /\ guard_priority \in {0, 1, 4}
    /\ seq_counter \in 0 .. MaxEvents
    /\ mu \in {"free", "init"} /\ cv \in {0, 1}

ExecTypeOK ==
    /\ stop \in {0, 1} /\ wake \in {0, 1} /\ worker_done \in {0, 1}
    /\ pending \in Events \union {NoEvent}
    /\ disp_ev \in Events \union {NoEvent}
    /\ exec_mu \in {"free", "init"}
    /\ exec_cv \in {0, 1} /\ exec_cv_done \in {0, 1}
    /\ disp \in DispPC
    /\ worker \in [Workers -> WorkerPC]
    /\ worker_wake \in [Workers -> {0, 1}]
    /\ worker_cv \in [Workers -> {0, 1}]
    /\ runs \in [Ids -> Nat]

ThreadTypeOK ==
    /\ init \in InitPC /\ init_arg \in Events \union {NoEvent}
    /\ init_running \in {0, 1} /\ th_init \in {"null", "held"}
    /\ sched \in SchedPC /\ chosen \in Events \union {NoEvent}
    /\ guard_pri \in {0, 1, 4}
    /\ callers \in {"run", "exit"} /\ timer \in {"armed", "fired"}
    /\ main \in MainPC

TypeOK == QueueTypeOK /\ ExecTypeOK /\ ThreadTypeOK

-----------------------------------------------------------------------------
(* The one race that preemption has: scheduler.c reads the stage of the    *)
(* slot without its lock and kills the init thread later.  Overtaken is    *)
(* the unlucky step: the scheduler has seen INIT and not yet killed the    *)
(* thread, and the thread moves the event on to EXEC.                      *)

Overtaken == sched = "kill" /\ stage' # stage

\* The program whenever this race does not strike.  While the scheduler is
\* about to kill it, only the init thread can change the stage.
UndisturbedNext ==
    \/ Inject \/ CallersExit \/ TimerFires \/ Main
    \/ SchedulerStep \/ DispatcherStep
    \/ InitStep /\ ~Overtaken
    \/ \E w \in Workers : WorkerStep(w)
    \/ Terminated

UndisturbedSpec == Init /\ [][UndisturbedNext]_vars
UndisturbedFairSpec == UndisturbedSpec /\ Fairness

-----------------------------------------------------------------------------
(* Execution and the slot. *)

\* While a worker executes, the slot still holds an event of that worker's
\* type in stage EXEC under a hard block: the completion that frees the slot
\* is never the completion of another event.
ExecMatchesSlot ==
    \A w \in Workers : Executing(w) /\ stop = 0 =>
        /\ has_exec = 1 /\ hard_blocking = 1
        /\ stage = "EXEC" /\ exec_event.type = w

\* At most one worker executes at any time, even at a stop, when the
\* dispatcher frees the slot without waiting for the worker.
OneWorker == \A w1, w2 \in Workers : Executing(w1) /\ Executing(w2) => w1 = w2

\* No event is started twice, however the mailbox, the worker signals and
\* the completion flag are interleaved.
AtMostOnce == \A i \in Ids : runs[i] <= 1

\* A hard block always belongs to an occupied slot, so it is lifted by the
\* completion that frees the slot and cannot outlive it.
HardBlockOwned == hard_blocking = 1 => has_exec = 1

\* A slot in stage INIT has a master init thread working for it, or one
\* about to be spawned; it is only without one while it is being preempted,
\* or if the thread could not be created.
InitHasThread ==
    has_exec = 1 /\ stage = "INIT" /\ stop = 0 /\ ~SpawnCanFail =>
        init \in {"wait_ack", "act", "stage_cs"} \/ sched \in {"spawn", "preempt"}

\* An event that has reached EXEC leaves the slot only through the
\* dispatcher, after a worker has started it; nothing else interrupts it.
ExecNotInterrupted ==
    [][ has_exec = 1 /\ stage = "EXEC" /\ stop = 0
        /\ (has_exec' = 0 \/ exec_event' # exec_event)
        => disp = "clear" /\ runs[exec_event.id] >= 1 ]_vars

\* A MASTER event is in the FIFO, the heap, the scheduler's hands or the
\* slot until a worker has started it: it is never dropped.
MasterNeverDropped ==
    [][ \A e \in Held \ Held' :
          e.dir = "MASTER" /\ stop = 0 => runs[e.id] >= 1 ]_vars

\* Every event lives as EventLife says: one at a time holds the slot, is
\* started once, by a worker that gets it through mailbox, dispatcher and wake
\* flag, and gives up the slot when it was started, or before that to a more
\* urgent one and then waits again.
Ticket(e) == [id |-> e.id, dir |-> e.dir]

Life == INSTANCE EventLife WITH
            known    <- seq_counter,
            waits    <- {Ticket(e) : e \in Waiting},
            slot     <- IF has_exec = 1 THEN {Ticket(exec_event)} ELSE {},
            stopping <- (stop = 1)

ImplementsLife == Life!Spec

-----------------------------------------------------------------------------
(* Order. *)

\* No MASTER event waiting in the FIFO or the heap is older than the MASTER
\* event of its own priority that holds the slot.
SamePriorityFifo ==
    has_exec = 1 /\ exec_event.dir = "MASTER" =>
        \A e \in InFifo \union wait_heap :
            e.dir = "MASTER" /\ Priority(e) = Priority(exec_event)
            => e.seq > exec_event.seq

\* No event in the wait heap is more urgent than the event that is being
\* initialised: the heap is never consulted while the slot is occupied, so
\* such an event would be overtaken with nobody to notice.
HeapNeverBeatsInit ==
    has_exec = 1 /\ stage = "INIT" =>
        \A e \in wait_heap : Priority(e) >= Priority(exec_event)

\* An event in stage INIT is preempted only by a strictly more urgent one,
\* although the guard is a copy made before the decision.
PreemptOnlyByHigher ==
    sched \in {"kill", "preempt"} =>
        fifo # <<>> /\ Priority(Head(fifo)) < Priority(exec_event)

\* Only MASTER events ever wait in the heap: neither a SLAVE event that
\* finds the slot taken nor a preempted one gets there.
SlaveNeverWaits == \A e \in wait_heap : e.dir = "MASTER"

\* The scheduler's two "nothing there" branches are unreachable: once it is
\* past its waits, there is an event for the decision it makes.
DecidesOnSomething ==
    /\ sched = "choose" => fifo # <<>> \/ wait_heap # {}
    /\ sched = "arrive" => fifo # <<>>

-----------------------------------------------------------------------------
(* Liveness, under FairSpec. *)

\* The slot is always freed again.
SlotFreed == (has_exec = 1) ~> (has_exec = 0 \/ stop = 1)

\* Every injected event is taken out of the FIFO.
IntakeDrained ==
    \A i \in Ids : (\E e \in InFifo : e.id = i)
                   ~> (~(\E e \in InFifo : e.id = i) \/ stop = 1)

\* An event in the heap is served once the slot is free, unless the
\* scheduler sleeps in the wait that looks at the FIFO only.
HeapServedUnlessFifoWait ==
    (wait_heap # {} /\ has_exec = 0)
        ~> (has_exec = 1 \/ stop = 1 \/ sched = "sleep_fifo")

-----------------------------------------------------------------------------
(* What the comments and the documentation say and the code does not do.   *)

\* scheduler.c: after a completion the scheduler is woken and picks the best
\* event of the FIFO and the heap.
CompletionServesHeap ==
    (wait_heap # {} /\ has_exec = 0) ~> (has_exec = 1 \/ stop = 1)

\* README: the init thread is terminated safely.  No lock stays with a
\* thread that no longer exists.
KilledThreadHoldsNoLock ==
    /\ mu = "init" => init \in {"stage_cs", "block_cs"}
    /\ exec_mu = "init" => init = "signal_cs"

-----------------------------------------------------------------------------
(* The end of the program, under UndisturbedFairSpec. *)

\* Once stop is set, whatever is executed, waits or is being preempted then,
\* every thread ends, is joined, and main returns, unless a preemption has
\* killed an init thread that held a lock.
ShutdownCompletes == (stop = 1) ~> (main = "done" \/ ~KilledThreadHoldsNoLock)

=============================================================================
