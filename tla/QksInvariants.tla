--------------------------- MODULE QksInvariants ----------------------------
(***************************************************************************)
(* The inductive invariants behind the theorems of QksSystem_proofs,       *)
(* QksOrder_proofs and QksPipeline_proofs.                                 *)
(***************************************************************************)
EXTENDS QksProperties

(* What the scheduler knows at each point of its loop although it holds no *)
(* lock there.  Only the scheduler fills the slot or takes events out of   *)
(* the queues, so an occupied slot can become empty behind its back, but   *)
(* not the other way round, and the intake can only grow.                  *)

SomethingToDo == fifo # <<>> \/ (has_exec = 0 /\ wait_heap # {})

Justified ==
    /\ sched \in {"wait_any", "sleep_any", "choose", "install", "accept"}
          => has_exec = 0
    /\ sched = "guard" /\ stop = 0 => SomethingToDo
    /\ sched \in {"branch", "choose"} => SomethingToDo
    /\ sched \in {"arrive", "kill", "preempt"} => fifo # <<>>

(* The guard is the priority of the event in the slot.  The scheduler's    *)
(* copy may be out of date, but only by the slot having been freed.        *)

GuardInv ==
    /\ guard_priority = IF has_exec = 1 THEN Priority(exec_event) ELSE 0
    /\ sched \in {"branch", "arrive"} =>
          /\ guard_pri \in {0, Priority(exec_event)}
          /\ has_exec = 1 => guard_pri = Priority(exec_event)
    /\ sched \in {"kill", "preempt"} =>
          Priority(Head(fifo)) < Priority(exec_event)

(* The heap never holds anything more urgent than the event that is being  *)
(* initialised, is about to be, or is about to be preempted.               *)

HeapAtLeast(p) == \A e \in wait_heap : Priority(e) >= p

HeapInv ==
    /\ \A e \in wait_heap : e.dir = "MASTER"
    /\ stage = "INIT" => exec_event.dir = "MASTER"
    /\ sched = "accept" => chosen.dir = "SLAVE"
    /\ sched = "install" => chosen.dir = "MASTER" /\ HeapAtLeast(Priority(chosen))
    /\ stage = "INIT" /\ (has_exec = 1 \/ sched = "arrive")
          => HeapAtLeast(Priority(exec_event))
    /\ sched \in {"kill", "preempt"} => HeapAtLeast(Priority(exec_event))

(* Sequence numbers.  Events leave the intake in the order of their        *)
(* numbers, so everything that has left it is older than what is in it,    *)
(* and no number is in two places, except that a preempted event is still  *)
(* readable in the empty slot until the next one is installed.             *)

NewerInFifo(n) == \A i \in 1 .. Len(fifo) : n < fifo[i].seq
NotInHeap(n)   == \A e \in wait_heap : e.seq # n
OlderThanHeap(x) ==
    \A e \in wait_heap : Priority(e) = Priority(x) => x.seq < e.seq

SeqInv ==
    /\ \A i \in 1 .. Len(fifo) : fifo[i].seq <= seq_counter
    /\ \A i, j \in 1 .. Len(fifo) : i < j => fifo[i].seq < fifo[j].seq
    /\ \A e \in wait_heap : e.seq <= seq_counter /\ NewerInFifo(e.seq)
    /\ \A e1, e2 \in wait_heap : e1.seq = e2.seq => e1 = e2
    /\ sched = "install" =>
          /\ chosen.seq <= seq_counter /\ NewerInFifo(chosen.seq)
          /\ NotInHeap(chosen.seq) /\ OlderThanHeap(chosen)
    /\ exec_event.dir = "MASTER" =>
          /\ exec_event.seq <= seq_counter /\ NewerInFifo(exec_event.seq)
          /\ sched \notin {"install", "accept"} => NotInHeap(exec_event.seq)
          /\ has_exec = 1 => OlderThanHeap(exec_event)

(* The execution threads pass one event along at a time.  Until the stop   *)
(* flag is set for good, which the scheduler's start still undoes, only    *)
(* the worker of the dispatcher's event is woken or executing.             *)

Busy(w) == worker[w] = "run" \/ worker_wake[w] = 1

PipelineInv ==
    /\ sched = "boot" => wake = 0 /\ init = "none" /\ disp \in {"idle", "sleep", "exit"}
    /\ stop = 0 \/ sched = "boot" =>
          /\ \A w \in Workers : Busy(w) =>
                /\ disp \in {"await", "sleep_done"}
                /\ disp_ev.type = w /\ worker_done = 0
          /\ \A w \in Workers : worker[w] = "run" => worker_wake[w] = 0
          /\ worker_done = 1 => disp \in {"await", "sleep_done"}

(* The init thread that works for the slot gives up only once stop is set, *)
(* and main kills it only after the scheduler has seen stop and ended.     *)
(* The scheduler's start takes a stop back, but the slot is empty then.    *)

InitThreadInv ==
    /\ InitHasThread
    /\ sched = "boot" => has_exec = 0
    /\ sched = "exit" => stop = 1
    /\ main \in MainPC \ {"run", "stop_all", "wake", "join_sched"} => sched = "exit"

(* Unless the race has struck, the scheduler kills and evicts only while   *)
(* the slot holds an event in stage INIT, which was not started; and the   *)
(* init thread, whose handle is known as long as it lives, is gone by then.*)

EvictInv ==
    /\ sched = "arrive" /\ stage = "INIT" => has_exec = 1
    /\ sched \in {"kill", "preempt"} => has_exec = 1 /\ stage = "INIT"
    /\ sched = "preempt" => init = "none"
    /\ init # "none" => th_init = "held"
    /\ has_exec = 1 /\ stage = "INIT" => runs[exec_event.id] = 0

(* Where nothing preempts, the race cannot strike: no event that may be    *)
(* injected is more urgent than a MASTER event.  That is so in role A.     *)

NothingPreempts ==
    \A a, b \in Workload : b[2] = "MASTER" => priority_of(b[1]) <= priority_of(a[1])

Injectable(e) == <<e.type, e.dir>> \in Workload

KindInv ==
    /\ \A e \in Waiting \union ({exec_event} \ {NoEvent}) : Injectable(e)
    /\ sched \notin {"kill", "preempt"}

(* An event is in one place, and while it waits it has not been started.   *)

IdInv ==
    /\ \A i, j \in 1 .. Len(fifo) : fifo[i].id = fifo[j].id => i = j
    /\ \A e1, e2 \in Waiting : e1.id = e2.id => e1 = e2
    /\ InFifo \intersect wait_heap = {} /\ chosen \notin InFifo \union wait_heap
    /\ (chosen # NoEvent) <=> (sched \in {"install", "accept"})
    /\ \A e \in Waiting : e.id <= seq_counter /\ runs[e.id] = 0
    /\ \A i \in Ids : runs[i] <= 1 /\ (i > seq_counter => runs[i] = 0)
    /\ has_exec = 1 =>
          /\ exec_event \in Events /\ exec_event.id <= seq_counter
          /\ \A e \in Waiting : e.id # exec_event.id

(* The right to go on with the event in the slot is a token.  It is handed *)
(* from the scheduler to the init thread (MASTER) or kept by it (SLAVE),   *)
(* put into the mailbox, taken out by the dispatcher, and given back when  *)
(* the slot is freed.  There is at most one, and while there is one the    *)
(* slot holds the event it is for.                                         *)

InitHasToken  == init \in InitPC \ {"none", "finish"}
SchedHasToken == sched \in {"spawn", "on_act", "on_act_block", "on_act_signal"}
DispHasToken  == disp \in {"dispatch", "await", "sleep_done", "clear"}

OneToken ==
    /\ InitHasToken => ~SchedHasToken /\ wake = 0 /\ ~DispHasToken
    /\ SchedHasToken => wake = 0 /\ ~DispHasToken
    /\ wake = 1 => ~DispHasToken
    /\ InitHasToken \/ SchedHasToken \/ wake = 1 \/ DispHasToken => has_exec = 1

TokenEvent ==
    /\ init \in {"signal_lock", "signal_cs"} => init_arg = exec_event
    /\ wake = 1 => pending = exec_event
    /\ disp \in {"dispatch", "await", "sleep_done"} => disp_ev = exec_event

Blocking ==
    \/ init \in {"signal", "signal_lock", "signal_cs"} \/ wake = 1 \/ DispHasToken
    \/ sched \in {"on_act", "on_act_block", "on_act_signal"}

Staged ==
    \/ init \in {"block", "block_cs", "signal", "signal_lock", "signal_cs"}
    \/ wake = 1 \/ DispHasToken
    \/ sched \in {"on_act_block", "on_act_signal"}

TokenStage ==
    /\ hard_blocking = 1 => has_exec = 1
    /\ Staged => stage = "EXEC"
    /\ Blocking => hard_blocking = 1

TokenRuns ==
    /\ InitHasToken \/ SchedHasToken \/ wake = 1 \/ disp = "dispatch"
          => runs[exec_event.id] = 0
    /\ stop = 0 => \A w \in Workers :
          /\ worker_wake[w] = 1 => runs[exec_event.id] = 0
          /\ worker[w] = "run" => runs[exec_event.id] = 1
    /\ stop = 0 /\ (worker_done = 1 \/ disp = "clear") => runs[exec_event.id] = 1

TokenInv == OneToken /\ TokenEvent /\ TokenStage /\ TokenRuns

=============================================================================
