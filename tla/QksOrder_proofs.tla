-------------------------- MODULE QksOrder_proofs ---------------------------
(***************************************************************************)
(* Theorems about what the scheduler decides and in which order, for every *)
(* workload, preemption and its races included.                            *)
(***************************************************************************)
EXTENDS QksSystem_proofs

-----------------------------------------------------------------------------
(* What the other threads can change of the queues and of the scheduler.   *)

\* A caller appends one event, numbered one above the counter.
LEMMA InjectFrame ==
  ASSUME TypeInv, Inject
  PROVE  \E e \in Events :
            /\ e.seq = seq_counter + 1 /\ seq_counter' = seq_counter + 1
            /\ fifo' = Append(fifo, e)
            /\ UNCHANGED <<wait_heap, has_exec, exec_event, stage, guard_priority,
                           sched, chosen, guard_pri, stop>>
  <1>1. PICK w \in Workload : qks_inject_event(w[1], w[2])
    BY DEF Inject
  <1> DEFINE e == [id |-> seq_counter + 1, seq |-> seq_counter + 1,
                   type |-> w[1], dir |-> w[2]]
  <1>2. seq_counter' = seq_counter + 1 /\ fifo' = Append(fifo, e) /\ seq_counter < MaxEvents
        /\ UNCHANGED <<wait_heap, has_exec, exec_event, stage, guard_priority,
                       sched, chosen, guard_pri, stop>>
    BY <1>1 DEF qks_inject_event, push_ready, slotVars, schedVars
  <1>3. e \in Events
    BY <1>2, Stamped DEF TypeInv, TypeOK, QueueTypeOK
  <1>4. e.seq = seq_counter + 1
    OBVIOUS
  <1> QED
    BY <1>2, <1>3, <1>4

\* Every thread but the scheduler and the callers.
Others == \/ CallersExit \/ TimerFires \/ Main \/ InitStep \/ DispatcherStep
          \/ (\E w \in Workers : WorkerStep(w)) \/ UNCHANGED vars

\* They leave the queues and the scheduler alone.  They may free the slot,
\* but never fill it; move its stage on to EXEC, but never back; and set
\* stop, but never reset it.
OthersLeave ==
    /\ UNCHANGED <<fifo, wait_heap, seq_counter, exec_event, sched, chosen, guard_pri>>
    /\ \/ UNCHANGED <<has_exec, guard_priority>>
       \/ has_exec' = 0 /\ guard_priority' = 0
    /\ stage' \in {stage, "EXEC"}
    /\ stop' \in {stop, 1}

LEMMA OthersFrame ==
  ASSUME Others
  PROVE  OthersLeave
  <1> USE DEF OthersLeave, queueVars, slotVars, schedVars
  <1>1. CASE CallersExit \/ TimerFires
    BY <1>1 DEF CallersExit, TimerFires
  <1>2. CASE Main
    BY <1>2 DEF Main, MainSeesStop, MainStopAll, MainWake, MainJoinScheduler,
           MainJoinCallers, MainStopExec, MainStopWorkers, MainJoinExec, MainKillInit
  <1>3. CASE InitStep
    BY <1>3 DEF InitStep, InitThread, InitAck, InitStopped, InitLock, InitStage,
           InitBlock, InitReadSlot, InitLockExec, InitSignal, InitFinish,
           update_stage, set_blocking
  <1>4. CASE DispatcherStep
    BY <1>4 DEF DispatcherStep, Dispatcher, DispTake, DispSleep, DispExit,
           DispDispatch, DispCompleted, DispSleepDone, DispClear, DispNotify,
           clear_exec_slot
  <1>5. CASE \E w \in Workers : WorkerStep(w)
    BY <1>5 DEF WorkerStep, Worker
  <1>6. CASE UNCHANGED vars
    BY <1>6 DEF vars
  <1> QED
    BY <1>1, <1>2, <1>3, <1>4, <1>5, <1>6 DEF Others

LEMMA NextSplit == [Next]_vars => Inject \/ Others \/ SchedulerStep
  BY DEF Next, Others, Terminated

\* The numbers of a growing and of a shrinking intake.
LEMMA IntakeGrows ==
  ASSUME NEW s \in Seq(Events), NEW e \in Events
  PROVE  /\ Len(Append(s, e)) = Len(s) + 1 /\ Len(s) \in Nat
         /\ \A i \in 1 .. Len(s) : Append(s, e)[i] = s[i]
         /\ Append(s, e)[Len(s) + 1] = e
  BY AppendProperties, LenProperties

LEMMA IntakeShrinks ==
  ASSUME NEW s \in Seq(Events), s # <<>>
  PROVE  /\ Len(s) \in Nat \ {0} /\ Len(Tail(s)) = Len(s) - 1
         /\ \A i \in 1 .. Len(Tail(s)) : Tail(s)[i] = s[i + 1]
         /\ Head(s) = s[1] /\ Head(s) \in Events
  BY HeadTailProperties, EmptySeq

-----------------------------------------------------------------------------
(* Decisions: Justified. *)

LEMMA JustifiedStep == TypeInv /\ Justified /\ [Next]_vars => Justified'
  <1> SUFFICES ASSUME TypeInv, Justified, [Next]_vars PROVE Justified'
    OBVIOUS
  <1> USE DEF Justified, SomethingToDo
  <1>1. CASE Inject
    <2>1. PICK e \in Events :
            /\ fifo' = Append(fifo, e)
            /\ UNCHANGED <<wait_heap, has_exec, sched, stop>>
      BY <1>1, InjectFrame
    <2>2. fifo' # <<>>
      BY <2>1, Intake DEF TypeInv, TypeOK, QueueTypeOK
    <2> QED
      BY <2>1, <2>2
  <1>2. CASE Others
    BY <1>2, OthersFrame DEF OthersLeave, TypeInv, TypeOK, ExecTypeOK
  <1>3. CASE SchedulerStep
    <2>1. CASE SchedWaiting
      BY <2>1 DEF SchedWaiting, SchedBoot, SchedTop, SchedWaitAny, SchedWaitFifo,
           SchedTests, SchedStopped, SchedGuard, SchedBranch, queueVars, slotVars,
           TypeInv, TypeOK, QueueTypeOK
    <2>2. CASE SchedDeciding
      BY <2>2 DEF SchedDeciding, SchedChoose, SchedArrivePreempt, SchedArriveQueue,
           SchedKill, SchedPreempt, Take, PopFifo, clear_exec_slot, slotVars
    <2>3. CASE SchedInstalling
      BY <2>3 DEF SchedInstalling, SchedInstall, SchedSpawn, SchedAccept, SchedOnAct,
           SchedOnActBlock, SchedOnActSignal
    <2> QED
      BY <1>3, <2>1, <2>2, <2>3 DEF SchedulerStep, Scheduler
  <1> QED
    BY <1>1, <1>2, <1>3, NextSplit

LEMMA JustifiedAlways == Spec => []Justified
  <1>1. Init => Justified
    BY DEF Init, SchedInit, Justified
  <1> QED
    BY <1>1, JustifiedStep, TypeInvariant, PTL DEF Spec

\* Once past its waits the scheduler always has an event to decide on: its
\* two defensive branches are unreachable whatever the other threads do
\* between its unlocked reads.
THEOREM AlwaysDecidesOnSomething == Spec => []DecidesOnSomething
  <1>1. Justified => DecidesOnSomething
    BY DEF Justified, SomethingToDo, DecidesOnSomething
  <1> QED
    BY <1>1, JustifiedAlways, PTL

-----------------------------------------------------------------------------
(* The guard, and preemption by higher priority only: GuardInv. *)

LEMMA GuardStep == TypeInv /\ Justified /\ GuardInv /\ [Next]_vars => GuardInv'
  <1> SUFFICES ASSUME TypeInv, Justified, GuardInv, [Next]_vars PROVE GuardInv'
    OBVIOUS
  <1> USE DEF GuardInv
  <1>0. fifo \in Seq(Events) /\ has_exec \in {0, 1}
    BY DEF TypeInv, TypeOK, QueueTypeOK
  <1>1. CASE Inject
    <2>1. PICK e \in Events :
            /\ fifo' = Append(fifo, e)
            /\ UNCHANGED <<has_exec, exec_event, guard_priority, sched, guard_pri>>
      BY <1>1, InjectFrame
    <2>2. fifo # <<>> => Head(fifo') = Head(fifo)
      BY <1>0, <2>1, Intake
    <2> QED
      BY <2>1, <2>2 DEF Justified, Priority
  <1>2. CASE Others
    <2>1. /\ UNCHANGED <<fifo, exec_event, sched, guard_pri>>
          /\ \/ UNCHANGED <<has_exec, guard_priority>>
             \/ has_exec' = 0 /\ guard_priority' = 0
      BY <1>2, OthersFrame DEF OthersLeave
    <2> QED
      BY <2>1 DEF Priority
  <1>3. CASE SchedulerStep
    <2>1. CASE SchedWaiting
      <3>1. UNCHANGED <<fifo, has_exec, exec_event, guard_priority>>
        BY <2>1 DEF SchedWaiting, queueVars, slotVars
      <3>2. \/ sched' \notin {"branch", "arrive", "kill", "preempt"}
            \/ sched' = "branch" /\ guard_pri' = guard_priority
            \/ sched = "branch" /\ guard_pri' = guard_pri
               /\ sched' \in {"choose", "arrive"}
        BY <2>1 DEF SchedWaiting, SchedBoot, SchedTop, SchedWaitAny, SchedWaitFifo,
             SchedTests, SchedStopped, SchedGuard, SchedBranch
      <3> QED
        BY <1>0, <3>1, <3>2 DEF Priority
    <2>2. CASE SchedDeciding
      BY <2>2, Levels DEF SchedDeciding, SchedChoose, SchedArrivePreempt,
           SchedArriveQueue, SchedKill, SchedPreempt, Take, AllowPreempt, can_preempt,
           clear_exec_slot, slotVars, Priority
    <2>3. CASE SchedInstalling
      BY <2>3 DEF SchedInstalling, SchedInstall, SchedSpawn, SchedAccept, SchedOnAct,
           SchedOnActBlock, SchedOnActSignal, set_exec_slot, update_stage, set_blocking,
           slotVars, Priority
    <2> QED
      BY <1>3, <2>1, <2>2, <2>3 DEF SchedulerStep, Scheduler
  <1> QED
    BY <1>1, <1>2, <1>3, NextSplit

LEMMA GuardAlways == Spec => []GuardInv
  <1>1. Init => GuardInv
    BY DEF Init, SchedInit, qks_queue_init, GuardInv
  <1> QED
    BY <1>1, GuardStep, JustifiedAlways, TypeInvariant, PTL DEF Spec

\* An event is preempted only by a strictly more urgent one: the guard that
\* the scheduler compares with is a copy it made two unlocked reads before.
THEOREM OnlyHigherPreempts == Spec => []PreemptOnlyByHigher
  <1>1. Justified /\ GuardInv => PreemptOnlyByHigher
    BY DEF Justified, GuardInv, PreemptOnlyByHigher
  <1> QED
    BY <1>1, JustifiedAlways, GuardAlways, PTL

-----------------------------------------------------------------------------
(* The wait heap: HeapInv. *)

LEMMA HeapStep ==
  TypeInv /\ Justified /\ GuardInv /\ HeapInv /\ [Next]_vars => HeapInv'
  <1> SUFFICES ASSUME TypeInv, Justified, GuardInv, HeapInv, [Next]_vars PROVE HeapInv'
    OBVIOUS
  <1> USE DEF HeapInv, HeapAtLeast
  <1>0. /\ fifo \in Seq(Events) /\ has_exec \in {0, 1} /\ wait_heap \subseteq Events
        /\ \A e \in Events : e.dir \in {"MASTER", "SLAVE"}
        /\ \A e : Priority(e) \in Nat
    BY Levels DEF TypeInv, TypeOK, QueueTypeOK, Events, Directions
  <1>a. fifo # <<>> => Head(fifo) \in Events
    BY <1>0, HeadTailProperties
  <1>1. CASE Inject
    BY <1>1, InjectFrame DEF Priority
  <1>2. CASE Others
    BY <1>2, OthersFrame DEF OthersLeave, Priority
  <1>3. CASE SchedulerStep
    <2>1. CASE SchedWaiting
      BY <1>0, <2>1 DEF SchedWaiting, SchedBoot, SchedTop, SchedWaitAny, SchedWaitFifo,
           SchedTests, SchedStopped, SchedGuard, SchedBranch, queueVars, slotVars, Priority
    <2>2. CASE SchedChoose
      <3>1. UNCHANGED slotVars /\ has_exec = 0
            /\ chosen' \in Events /\ (sched' = "install" => chosen'.dir = "MASTER")
            /\ (sched' = "accept" => chosen'.dir = "SLAVE")
            /\ sched' \in {"install", "accept"}
            /\ wait_heap' \subseteq wait_heap
        BY <1>0, <1>a, <2>2 DEF SchedChoose, Take, Justified
      <3>2. \A e \in wait_heap' : Priority(e) >= Priority(chosen')
        BY <1>0, <2>2 DEF SchedChoose, Take, IsHeapTop, IsTop, Before
      <3> QED
        BY <3>1, <3>2 DEF slotVars, Priority
    <2>3. CASE SchedArrivePreempt
      BY <2>3 DEF SchedArrivePreempt, AllowPreempt, slotVars, Priority
    <2>4. CASE SchedArriveQueue
      <3>1. sched' = "top" /\ UNCHANGED slotVars
            /\ wait_heap' \subseteq wait_heap \union {Head(fifo)}
            /\ (Head(fifo) \in wait_heap' \ wait_heap => Head(fifo).dir = "MASTER")
        BY <2>4 DEF SchedArriveQueue
      <3>2. ASSUME has_exec = 1, stage = "INIT"
            PROVE  Priority(Head(fifo)) >= Priority(exec_event)
        BY <1>0, <2>4, <3>2 DEF SchedArriveQueue, AllowPreempt, can_preempt, GuardInv
      <3> QED
        BY <1>0, <2>4, <3>1, <3>2 DEF SchedArriveQueue, slotVars, Priority
    <2>5. CASE SchedKill
      BY <2>5 DEF SchedKill, slotVars, Priority
    <2>6. CASE SchedPreempt
      <3>1. /\ wait_heap' = wait_heap \union {exec_event} /\ chosen' = Head(fifo)
            /\ has_exec' = 0 /\ UNCHANGED <<stage, exec_event>>
            /\ sched' = IF Head(fifo).dir = "SLAVE" THEN "accept" ELSE "install"
        BY <2>6 DEF SchedPreempt, Take, clear_exec_slot
      <3>2. /\ exec_event.dir = "MASTER" /\ Head(fifo) \in Events
            /\ \A e \in wait_heap : Priority(e) >= Priority(exec_event)
            /\ Priority(Head(fifo)) < Priority(exec_event)
        BY <1>a, <2>6 DEF SchedPreempt, Justified, GuardInv, TypeInv, SchedHolds
      <3> QED
        BY <1>0, <3>1, <3>2 DEF Priority
    <2>7. CASE SchedInstalling
      BY <2>7 DEF SchedInstalling, SchedInstall, SchedSpawn, SchedAccept, SchedOnAct,
           SchedOnActBlock, SchedOnActSignal, set_exec_slot, update_stage, set_blocking,
           slotVars, queueVars, Priority
    <2> QED
      BY <1>3, <2>1, <2>2, <2>3, <2>4, <2>5, <2>6, <2>7
         DEF SchedulerStep, Scheduler, SchedDeciding
  <1> QED
    BY <1>1, <1>2, <1>3, NextSplit

LEMMA HeapAlways == Spec => []HeapInv
  <1>1. Init => HeapInv
    BY DEF Init, SchedInit, qks_queue_init, HeapInv, HeapAtLeast
  <1> QED
    BY <1>1, HeapStep, GuardAlways, JustifiedAlways, TypeInvariant, PTL DEF Spec

\* Only MASTER events ever wait in the heap.
THEOREM OnlyMastersWait == Spec => []SlaveNeverWaits
  <1>1. HeapInv => SlaveNeverWaits
    BY DEF HeapInv, SlaveNeverWaits
  <1> QED
    BY <1>1, HeapAlways, PTL

\* The heap never holds an event more urgent than the one that is being
\* initialised, although the heap is not looked at while the slot is taken.
THEOREM HeapIsNeverMoreUrgent == Spec => []HeapNeverBeatsInit
  <1>1. HeapInv => HeapNeverBeatsInit
    BY DEF HeapInv, HeapAtLeast, HeapNeverBeatsInit
  <1> QED
    BY <1>1, HeapAlways, PTL


-----------------------------------------------------------------------------
(* First in, first out among equals: SeqInv. *)

\* The parts of SeqInv that speak of the intake and the heap alone.
QueueSeqInv ==
    /\ \A i \in 1 .. Len(fifo) : fifo[i].seq <= seq_counter
    /\ \A i, j \in 1 .. Len(fifo) : i < j => fifo[i].seq < fifo[j].seq
    /\ \A e \in wait_heap : e.seq <= seq_counter /\ NewerInFifo(e.seq)
    /\ \A e1, e2 \in wait_heap : e1.seq = e2.seq => e1 = e2

\* The facts about numbers that every case below needs.
LEMMA Numbers ==
  ASSUME TypeInv
  PROVE  /\ fifo \in Seq(Events) /\ Len(fifo) \in Nat /\ seq_counter \in Int
         /\ \A i \in 1 .. Len(fifo) : fifo[i].seq \in Int
         /\ wait_heap \subseteq Events /\ \A e \in Events : e.seq \in Int
         /\ exec_event.seq \in Int /\ chosen.seq \in Int
         /\ \A e : Priority(e) \in Int
  <1>1. /\ fifo \in Seq(Events) /\ seq_counter \in Int /\ wait_heap \subseteq Events
        /\ exec_event \in Events \union {NoEvent} /\ chosen \in Events \union {NoEvent}
    BY MaxEventsAssumption DEF TypeInv, TypeOK, QueueTypeOK, ThreadTypeOK
  <1>2. \A e \in Events : e.seq \in Int
    BY DEF Events
  <1>3. Len(fifo) \in Nat /\ \A i \in 1 .. Len(fifo) : fifo[i] \in Events
    BY <1>1, LenProperties, ElementOfSeq
  <1>4. NoEvent.seq \in Int
    BY DEF NoEvent
  <1>5. \A e : Priority(e) \in Int
    BY Levels
  <1> QED
    BY <1>1, <1>2, <1>3, <1>4, <1>5

\* Injection: the new event is newer than everything there is.
LEMMA SeqInject ==
  ASSUME TypeInv, SeqInv, Inject
  PROVE  SeqInv'
  <1>1. PICK e \in Events :
           /\ e.seq = seq_counter + 1 /\ seq_counter' = seq_counter + 1
           /\ fifo' = Append(fifo, e)
           /\ UNCHANGED <<wait_heap, has_exec, exec_event, sched, chosen>>
    BY InjectFrame
  <1>2. /\ Len(fifo') = Len(fifo) + 1
        /\ \A i \in 1 .. Len(fifo) : fifo'[i] = fifo[i]
        /\ fifo'[Len(fifo) + 1] = e
    BY <1>1, Numbers, IntakeGrows
  <1>3. ASSUME NEW n \in Int, n <= seq_counter, NewerInFifo(n)
        PROVE  n <= seq_counter' /\ NewerInFifo(n)'
    BY <1>1, <1>2, <1>3, Numbers DEF NewerInFifo
  <1>4. QueueSeqInv'
    <2>1. \A i \in 1 .. Len(fifo') : i \in 1 .. Len(fifo) \/ i = Len(fifo) + 1
      BY <1>2, Numbers
    <2>2. \A i \in 1 .. Len(fifo') : fifo'[i].seq <= seq_counter'
      BY <1>1, <1>2, <2>1, Numbers DEF SeqInv
    <2>3. ASSUME NEW i \in 1 .. Len(fifo'), NEW j \in 1 .. Len(fifo'), i < j
          PROVE  fifo'[i].seq < fifo'[j].seq
      <3>1. i \in 1 .. Len(fifo)
        BY <1>2, <2>1, <2>3, Numbers
      <3>2. CASE j \in 1 .. Len(fifo)
        BY <1>2, <2>3, <3>1, <3>2 DEF SeqInv
      <3>3. CASE j = Len(fifo) + 1
        BY <1>1, <1>2, <3>1, <3>3, Numbers DEF SeqInv
      <3> QED
        BY <2>1, <3>2, <3>3
    <2>4. \A e1, e2 \in wait_heap' : e1.seq = e2.seq => e1 = e2
      BY <1>1 DEF SeqInv
    <2>5. \A x \in wait_heap' : x.seq <= seq_counter' /\ NewerInFifo(x.seq)'
      BY <1>1, <1>3, Numbers DEF SeqInv
    <2> QED
      BY <2>2, <2>3, <2>4, <2>5 DEF QueueSeqInv, NewerInFifo
  <1>5. /\ sched' = "install" =>
              /\ chosen'.seq <= seq_counter' /\ NewerInFifo(chosen.seq)'
              /\ NotInHeap(chosen.seq)' /\ OlderThanHeap(chosen)'
        /\ exec_event'.dir = "MASTER" =>
              /\ exec_event'.seq <= seq_counter' /\ NewerInFifo(exec_event.seq)'
              /\ sched' \notin {"install", "accept"} => NotInHeap(exec_event.seq)'
              /\ has_exec' = 1 => OlderThanHeap(exec_event)'
    BY <1>1, <1>3, Numbers DEF SeqInv, NotInHeap, OlderThanHeap, Priority, NewerInFifo
  <1> QED
    BY <1>4, <1>5 DEF SeqInv, QueueSeqInv

\* A step that leaves the queues alone, keeps or frees the slot, and does
\* not change what the scheduler holds.
LEMMA SeqQuiet ==
  ASSUME SeqInv, UNCHANGED <<fifo, wait_heap, seq_counter, exec_event, chosen>>,
         has_exec' \in {has_exec, 0},
         \/ sched' = sched
         \/ sched \notin {"install", "accept"} /\ sched' # "install"
  PROVE  SeqInv'
  BY DEF SeqInv, NewerInFifo, NotInHeap, OlderThanHeap, Priority

\* The intake's head is taken: what is left is newer.
LEMMA SeqPop ==
  ASSUME TypeInv, QueueSeqInv, fifo # <<>>, PopFifo, seq_counter' = seq_counter
  PROVE  /\ Head(fifo) \in Events /\ Head(fifo).seq <= seq_counter
         /\ \A e \in wait_heap : e.seq < Head(fifo).seq
         /\ \A i \in 1 .. Len(fifo') : Head(fifo).seq < fifo'[i].seq
         /\ \A n \in Int : NewerInFifo(n) => n < Head(fifo).seq /\ NewerInFifo(n)'
         /\ \A i \in 1 .. Len(fifo') : fifo'[i].seq <= seq_counter'
         /\ \A i, j \in 1 .. Len(fifo') : i < j => fifo'[i].seq < fifo'[j].seq
  <1>1. /\ Len(fifo) \in Nat \ {0} /\ Len(fifo') = Len(fifo) - 1
        /\ \A i \in 1 .. Len(fifo') : fifo'[i] = fifo[i + 1]
        /\ Head(fifo) = fifo[1] /\ Head(fifo) \in Events
    BY Numbers, IntakeShrinks DEF PopFifo
  <1>2. \A i \in 1 .. Len(fifo') : i + 1 \in 1 .. Len(fifo)
    BY <1>1
  <1>3. 1 \in 1 .. Len(fifo)
    BY <1>1
  <1>4. /\ Head(fifo).seq <= seq_counter
        /\ \A e \in wait_heap : e.seq < Head(fifo).seq
    BY <1>1, <1>3, Numbers DEF QueueSeqInv, NewerInFifo
  <1>8. \A i \in 1 .. Len(fifo') : Head(fifo).seq < fifo'[i].seq
    <2> SUFFICES ASSUME NEW i \in 1 .. Len(fifo') PROVE fifo[1].seq < fifo[i + 1].seq
      BY <1>1
    <2>1. 1 < i + 1 /\ i + 1 \in 1 .. Len(fifo)
      BY <1>1, <1>2
    <2> QED
      BY <1>3, <2>1 DEF QueueSeqInv
  <1>5. ASSUME NEW n \in Int, NewerInFifo(n) PROVE n < Head(fifo).seq /\ NewerInFifo(n)'
    BY <1>1, <1>2, <1>3, <1>5, Numbers DEF NewerInFifo
  <1>6. \A i \in 1 .. Len(fifo') : fifo'[i].seq <= seq_counter'
    BY <1>1, <1>2 DEF QueueSeqInv
  <1>7. \A i, j \in 1 .. Len(fifo') : i < j => fifo'[i].seq < fifo'[j].seq
    <2> SUFFICES ASSUME NEW i \in 1 .. Len(fifo'), NEW j \in 1 .. Len(fifo'), i < j
                 PROVE  fifo'[i].seq < fifo'[j].seq
      OBVIOUS
    <2>1. i + 1 < j + 1 /\ i + 1 \in 1 .. Len(fifo) /\ j + 1 \in 1 .. Len(fifo)
      BY <1>1, <1>2
    <2> QED
      BY <1>1, <2>1 DEF QueueSeqInv
  <1> QED
    BY <1>1, <1>4, <1>5, <1>6, <1>7, <1>8

\* The scheduler takes the better of the two tops.
LEMMA SeqChoose ==
  ASSUME TypeInv, SeqInv, HeapInv, SchedChoose, seq_counter' = seq_counter
  PROVE  SeqInv'
  <1>0. QueueSeqInv
    BY DEF SeqInv, QueueSeqInv
  <1>1. UNCHANGED <<has_exec, exec_event, seq_counter>>
        /\ sched' \in {"install", "accept"} /\ sched = "choose"
    BY DEF SchedChoose, Take, slotVars
  <1>2. CASE /\ fifo # <<>> /\ \A h \in wait_heap : Before(Head(fifo), h)
             /\ PopFifo /\ Take(Head(fifo)) /\ UNCHANGED wait_heap
    <2>1. chosen' = Head(fifo) /\ UNCHANGED wait_heap
      BY <1>2 DEF Take
    <2>2. /\ Head(fifo).seq <= seq_counter
          /\ \A e \in wait_heap : e.seq < Head(fifo).seq
          /\ \A i \in 1 .. Len(fifo') : Head(fifo).seq < fifo'[i].seq
          /\ \A n \in Int : NewerInFifo(n) => NewerInFifo(n)'
          /\ \A i \in 1 .. Len(fifo') : fifo'[i].seq <= seq_counter'
          /\ \A i, j \in 1 .. Len(fifo') : i < j => fifo'[i].seq < fifo'[j].seq
          /\ Head(fifo) \in Events
      BY <1>0, <1>1, <1>2, SeqPop
    <2>3. QueueSeqInv'
      BY <1>0, <1>1, <2>1, <2>2, Numbers DEF QueueSeqInv
    <2>4. /\ chosen'.seq <= seq_counter' /\ NewerInFifo(chosen.seq)'
          /\ NotInHeap(chosen.seq)'
      <3>1. chosen'.seq <= seq_counter' /\ NewerInFifo(chosen.seq)'
        BY <1>1, <2>1, <2>2 DEF NewerInFifo
      <3>2. \A e \in wait_heap : e.seq # Head(fifo).seq
        BY <2>2, Numbers
      <3> QED
        BY <2>1, <3>1, <3>2 DEF NotInHeap
    <2>5. OlderThanHeap(chosen)'
      <3>1. \A h \in wait_heap : Priority(h) = Priority(Head(fifo)) => Head(fifo).seq < h.seq
        BY <1>2, Numbers DEF Before
      <3> QED
        BY <2>1, <3>1 DEF OlderThanHeap, Priority
    <2>6. exec_event'.dir = "MASTER" =>
            /\ exec_event'.seq <= seq_counter' /\ NewerInFifo(exec_event.seq)'
            /\ has_exec' = 1 => OlderThanHeap(exec_event)'
      BY <1>1, <2>1, <2>2, Numbers DEF SeqInv, OlderThanHeap, Priority
    <2> QED
      BY <1>1, <2>3, <2>4, <2>5, <2>6 DEF SeqInv, QueueSeqInv
  <1>3. ASSUME NEW h \in wait_heap,
               IsHeapTop(h), wait_heap' = wait_heap \ {h}, Take(h), UNCHANGED fifo
        PROVE  SeqInv'
    <2>1. chosen' = h
      BY <1>3 DEF Take
    <2>2. QueueSeqInv'
      BY <1>0, <1>1, <1>3, Numbers DEF QueueSeqInv, NewerInFifo
    <2>3. /\ chosen'.seq <= seq_counter' /\ NewerInFifo(chosen.seq)'
          /\ NotInHeap(chosen.seq)'
      BY <1>0, <1>1, <1>3, <2>1 DEF QueueSeqInv, NewerInFifo, NotInHeap
    <2>4. OlderThanHeap(chosen)'
      <3> SUFFICES ASSUME NEW x \in wait_heap', Priority(x) = Priority(h)
                   PROVE  h.seq < x.seq
        BY <2>1 DEF OlderThanHeap, Priority
      <3>1. x \in wait_heap /\ x # h /\ x.seq \in Int /\ h.seq \in Int
        BY <1>3, Numbers
      <3>2. x.seq # h.seq
        BY <1>0, <3>1 DEF QueueSeqInv
      <3>3. ~(x.seq < h.seq)
        BY <1>3, <3>1 DEF IsHeapTop, IsTop, Before
      <3> QED
        BY <3>1, <3>2, <3>3
    <2>5. exec_event'.dir = "MASTER" =>
            /\ exec_event'.seq <= seq_counter' /\ NewerInFifo(exec_event.seq)'
            /\ has_exec' = 1 => OlderThanHeap(exec_event)'
      BY <1>1, <1>3, Numbers DEF SeqInv, OlderThanHeap, Priority, NewerInFifo
    <2> QED
      BY <1>1, <2>2, <2>3, <2>4, <2>5 DEF SeqInv, QueueSeqInv
  <1> QED
    BY <1>2, <1>3 DEF SchedChoose

\* An arrival that may not preempt waits in the heap or is dropped.
LEMMA SeqArriveQueue ==
  ASSUME TypeInv, SeqInv, SchedArriveQueue, seq_counter' = seq_counter
  PROVE  SeqInv'
  <1>0. QueueSeqInv
    BY DEF SeqInv, QueueSeqInv
  <1>1. /\ UNCHANGED <<has_exec, exec_event, chosen, seq_counter>>
        /\ sched = "arrive" /\ sched' = "top" /\ fifo # <<>> /\ PopFifo
        /\ wait_heap' \in {wait_heap, wait_heap \union {Head(fifo)}}
    BY DEF SchedArriveQueue, slotVars
  <1>2. /\ Head(fifo).seq <= seq_counter
        /\ \A e \in wait_heap : e.seq < Head(fifo).seq
        /\ \A i \in 1 .. Len(fifo') : Head(fifo).seq < fifo'[i].seq
        /\ \A n \in Int : NewerInFifo(n) => n < Head(fifo).seq /\ NewerInFifo(n)'
        /\ \A i \in 1 .. Len(fifo') : fifo'[i].seq <= seq_counter'
        /\ \A i, j \in 1 .. Len(fifo') : i < j => fifo'[i].seq < fifo'[j].seq
        /\ Head(fifo) \in Events
    BY <1>0, <1>1, SeqPop
  <1>3. \A e \in wait_heap' : e \in wait_heap \/ e = Head(fifo)
    BY <1>1
  <1>4. QueueSeqInv'
    <2>1. \A e \in wait_heap' : e.seq <= seq_counter' /\ NewerInFifo(e.seq)'
      BY <1>0, <1>1, <1>2, <1>3, Numbers DEF QueueSeqInv, NewerInFifo
    <2>2. \A e1, e2 \in wait_heap' : e1.seq = e2.seq => e1 = e2
      BY <1>0, <1>2, <1>3, Numbers DEF QueueSeqInv
    <2> QED
      BY <1>2, <2>1, <2>2 DEF QueueSeqInv, NewerInFifo
  <1>5. ASSUME exec_event'.dir = "MASTER"
        PROVE  /\ exec_event'.seq <= seq_counter' /\ NewerInFifo(exec_event.seq)'
               /\ NotInHeap(exec_event.seq)'
               /\ has_exec' = 1 => OlderThanHeap(exec_event)'
    <2>1. /\ exec_event.seq <= seq_counter /\ NewerInFifo(exec_event.seq)
          /\ NotInHeap(exec_event.seq) /\ (has_exec = 1 => OlderThanHeap(exec_event))
      BY <1>1, <1>5 DEF SeqInv
    <2>2. exec_event.seq < Head(fifo).seq /\ NewerInFifo(exec_event.seq)'
      BY <1>1, <1>2, <2>1, Numbers DEF NewerInFifo
    <2>3. NotInHeap(exec_event.seq)'
      BY <1>1, <1>2, <1>3, <2>1, <2>2, Numbers DEF NotInHeap
    <2>4. has_exec' = 1 => OlderThanHeap(exec_event)'
      BY <1>1, <1>3, <2>1, <2>2 DEF OlderThanHeap, Priority
    <2> QED
      BY <1>1, <2>1, <2>2, <2>3, <2>4
  <1> QED
    BY <1>1, <1>4, <1>5 DEF SeqInv, QueueSeqInv

\* The preempted event goes back to the heap with the number it had.
LEMMA SeqPreempt ==
  ASSUME TypeInv, SeqInv, HeapInv, GuardInv, SchedPreempt, seq_counter' = seq_counter
  PROVE  SeqInv'
  <1>0. QueueSeqInv
    BY DEF SeqInv, QueueSeqInv
  <1>1. /\ UNCHANGED <<exec_event, seq_counter>> /\ has_exec' = 0
        /\ sched = "preempt" /\ sched' \in {"install", "accept"}
        /\ PopFifo /\ chosen' = Head(fifo)
        /\ wait_heap' = wait_heap \union {exec_event}
    BY DEF SchedPreempt, Take, clear_exec_slot
  <1>2. /\ fifo # <<>> /\ exec_event \in Events /\ exec_event.dir = "MASTER"
        /\ HeapAtLeast(Priority(exec_event))
        /\ Priority(Head(fifo)) < Priority(exec_event)
    BY <1>1 DEF TypeInv, SchedHolds, HeapInv, GuardInv
  <1>3. /\ Head(fifo).seq <= seq_counter
        /\ \A e \in wait_heap : e.seq < Head(fifo).seq
        /\ \A i \in 1 .. Len(fifo') : Head(fifo).seq < fifo'[i].seq
        /\ \A n \in Int : NewerInFifo(n) => n < Head(fifo).seq /\ NewerInFifo(n)'
        /\ \A i \in 1 .. Len(fifo') : fifo'[i].seq <= seq_counter'
        /\ \A i, j \in 1 .. Len(fifo') : i < j => fifo'[i].seq < fifo'[j].seq
        /\ Head(fifo) \in Events
    BY <1>0, <1>1, <1>2, SeqPop
  <1>4. /\ exec_event.seq <= seq_counter /\ NewerInFifo(exec_event.seq)
        /\ NotInHeap(exec_event.seq)
    BY <1>1, <1>2 DEF SeqInv
  <1>5. exec_event.seq < Head(fifo).seq /\ NewerInFifo(exec_event.seq)'
    BY <1>1, <1>3, <1>4, Numbers DEF NewerInFifo
  <1>6. QueueSeqInv'
    <2>1. \A e \in wait_heap' : e.seq <= seq_counter' /\ NewerInFifo(e.seq)'
      BY <1>0, <1>1, <1>3, <1>4, <1>5, Numbers DEF QueueSeqInv, NewerInFifo
    <2>2. \A e1, e2 \in wait_heap' : e1.seq = e2.seq => e1 = e2
      BY <1>0, <1>1, <1>4 DEF QueueSeqInv, NotInHeap
    <2> QED
      BY <1>3, <2>1, <2>2 DEF QueueSeqInv, NewerInFifo
  <1>7. /\ chosen'.seq <= seq_counter' /\ NewerInFifo(chosen.seq)'
        /\ NotInHeap(chosen.seq)'
    BY <1>1, <1>3, <1>5, Numbers DEF NewerInFifo, NotInHeap
  <1>8. OlderThanHeap(chosen)'
    <2>1. \A e \in wait_heap' : Priority(e) >= Priority(exec_event)
      BY <1>1, <1>2, Numbers DEF HeapAtLeast
    <2>2. \A e \in wait_heap' : Priority(e) # Priority(Head(fifo))
      BY <1>2, <2>1, Numbers
    <2> QED
      BY <1>1, <2>2 DEF OlderThanHeap, Priority
  <1> QED
    BY <1>1, <1>4, <1>5, <1>6, <1>7, <1>8 DEF SeqInv, QueueSeqInv

\* A new event enters the slot.
LEMMA SeqFill ==
  ASSUME TypeInv, SeqInv, SchedInstall \/ SchedAccept, UNCHANGED queueVars, HeapInv
  PROVE  SeqInv'
  <1>1. UNCHANGED <<fifo, wait_heap, seq_counter>>
    BY DEF queueVars
  <1>2. CASE SchedInstall
    BY <1>1, <1>2 DEF SchedInstall, set_exec_slot, SeqInv, NewerInFifo, NotInHeap,
                      OlderThanHeap, Priority
  <1>3. CASE SchedAccept
    <2>1. exec_event'.dir # "MASTER"
      BY <1>3, Numbers DEF SchedAccept, set_exec_slot, HeapInv, TypeInv, SchedHolds, Events
    <2> QED
      BY <1>1, <1>3, <2>1 DEF SchedAccept, SeqInv, NewerInFifo
  <1> QED
    BY <1>2, <1>3


LEMMA SeqStep ==
  TypeInv /\ GuardInv /\ HeapInv /\ SeqInv /\ [Next]_vars => SeqInv'
  <1> SUFFICES ASSUME TypeInv, GuardInv, HeapInv, SeqInv, [Next]_vars PROVE SeqInv'
    OBVIOUS
  <1>1. CASE Inject
    BY <1>1, SeqInject
  <1>2. CASE Others
    <2>1. UNCHANGED <<fifo, wait_heap, seq_counter, exec_event, chosen, sched>>
          /\ has_exec' \in {has_exec, 0}
      BY <1>2, OthersFrame DEF OthersLeave
    <2> QED
      BY <2>1, SeqQuiet
  <1>3. CASE SchedulerStep
    <2>1. CASE SchedWaiting
      <3>1. UNCHANGED <<fifo, wait_heap, seq_counter, exec_event, chosen, has_exec>>
        BY <2>1 DEF SchedWaiting, queueVars, slotVars
      <3>2. sched \notin {"install", "accept"} /\ sched' # "install"
        BY <2>1 DEF SchedWaiting, SchedBoot, SchedTop, SchedWaitAny, SchedWaitFifo,
             SchedTests, SchedStopped, SchedGuard, SchedBranch
      <3> QED
        BY <3>1, <3>2, SeqQuiet
    <2>2. CASE SchedDeciding
      <3>1. UNCHANGED seq_counter
        BY <2>2 DEF SchedDeciding
      <3>2. CASE SchedArrivePreempt \/ SchedKill
        <4>1. UNCHANGED <<fifo, wait_heap, exec_event, chosen, has_exec>>
              /\ sched \notin {"install", "accept"} /\ sched' # "install"
          BY <3>2 DEF SchedArrivePreempt, SchedKill, slotVars
        <4> QED
          BY <3>1, <4>1, SeqQuiet
      <3> QED
        BY <2>2, <3>1, <3>2, SeqChoose, SeqArriveQueue, SeqPreempt DEF SchedDeciding
    <2>3. CASE SchedInstalling
      <3>1. UNCHANGED queueVars
        BY <2>3 DEF SchedInstalling
      <3>2. CASE SchedInstall \/ SchedAccept
        BY <3>1, <3>2, SeqFill
      <3>3. CASE SchedSpawn \/ SchedOnAct \/ SchedOnActBlock \/ SchedOnActSignal
        <4>1. UNCHANGED <<exec_event, chosen, has_exec>>
              /\ sched \notin {"install", "accept"} /\ sched' # "install"
          BY <3>3 DEF SchedSpawn, SchedOnAct, SchedOnActBlock, SchedOnActSignal,
               update_stage, set_blocking, slotVars
        <4> QED
          BY <3>1, <4>1, SeqQuiet DEF queueVars
      <3> QED
        BY <2>3, <3>2, <3>3 DEF SchedInstalling
    <2> QED
      BY <1>3, <2>1, <2>2, <2>3 DEF SchedulerStep, Scheduler
  <1> QED
    BY <1>1, <1>2, <1>3, NextSplit

LEMMA SeqAlways == Spec => []SeqInv
  <1>1. Init => SeqInv
    <2> SUFFICES ASSUME Init PROVE SeqInv
      OBVIOUS
    <2>1. Len(fifo) = 0 /\ wait_heap = {} /\ sched = "boot" /\ exec_event.dir = "NONE"
      BY EmptySeq DEF Init, SchedInit, qks_queue_init, NoEvent
    <2> QED
      BY <2>1 DEF SeqInv
  <1> QED
    BY <1>1, SeqStep, HeapAlways, GuardAlways, TypeInvariant, PTL DEF Spec

\* Among MASTER events of one priority the oldest holds the slot: none that
\* still waits, in the intake or in the heap, was injected before it, even
\* after preemptions have sent events back.
THEOREM SamePriorityIsFifo == Spec => []SamePriorityFifo
  <1>1. TypeInv /\ SeqInv => SamePriorityFifo
    <2> SUFFICES ASSUME TypeInv, SeqInv, has_exec = 1, exec_event.dir = "MASTER",
                        NEW e \in InFifo \union wait_heap,
                        Priority(e) = Priority(exec_event)
                 PROVE  e.seq > exec_event.seq
      BY DEF SamePriorityFifo
    <2>1. NewerInFifo(exec_event.seq) /\ OlderThanHeap(exec_event)
      BY DEF SeqInv
    <2>2. CASE e \in InFifo
      <3>1. PICK k \in 1 .. Len(fifo) : e = fifo[k]
        BY <2>2, Numbers, LenProperties DEF InFifo
      <3> QED
        BY <2>1, <3>1, Numbers DEF NewerInFifo
    <2>3. CASE e \in wait_heap
      BY <2>1, <2>3, Numbers DEF OlderThanHeap
    <2> QED
      BY <2>2, <2>3
  <1> QED
    BY <1>1, SeqAlways, TypeInvariant, PTL

=============================================================================
