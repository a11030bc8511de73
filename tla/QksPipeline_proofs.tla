------------------------- MODULE QksPipeline_proofs -------------------------
(***************************************************************************)
(* Theorems about the way of an event through the slot, the mailbox and    *)
(* the workers, for every workload, at a stop and when init threads cannot *)
(* be created as well, as long as the race called Overtaken does not       *)
(* strike; and that it cannot strike where nothing preempts.               *)
(***************************************************************************)
EXTENDS QksOrder_proofs

-----------------------------------------------------------------------------
(* What a step does to the places an event can be in. *)

InHands == sched \in {"install", "accept"}

Arrives(e) ==
    /\ e.id = seq_counter + 1 /\ Injectable(e)
    /\ seq_counter' = seq_counter + 1 /\ fifo' = Append(fifo, e)
    /\ UNCHANGED <<wait_heap, chosen, sched, has_exec, exec_event, runs, stop>>

TakesHead ==
    /\ fifo # <<>> /\ PopFifo /\ chosen' = Head(fifo)
    /\ sched = "choose" /\ InHands'
    /\ UNCHANGED <<wait_heap, seq_counter, has_exec, exec_event, runs, stop>>

TakesTop(h) ==
    /\ wait_heap' = wait_heap \ {h} /\ chosen' = h
    /\ sched = "choose" /\ InHands'
    /\ UNCHANGED <<fifo, seq_counter, has_exec, exec_event, runs, stop>>

LaysAside ==
    /\ fifo # <<>> /\ PopFifo
    /\ \/ Head(fifo).dir = "MASTER" /\ wait_heap' = wait_heap \union {Head(fifo)}
       \/ Head(fifo).dir # "MASTER" /\ wait_heap' = wait_heap
    /\ sched = "arrive" /\ sched' = "top"
    /\ UNCHANGED <<chosen, seq_counter, has_exec, exec_event, runs, stop>>

Fills ==
    /\ InHands /\ sched' \in {"spawn", "on_act"} /\ chosen' = NoEvent
    /\ exec_event' = IF sched = "install" THEN chosen ELSE [chosen EXCEPT !.seq = 0]
    /\ has_exec' = 1
    /\ UNCHANGED <<fifo, wait_heap, seq_counter, runs, stop>>

Starts(w) ==
    /\ WorkerTake(w)
    /\ UNCHANGED <<fifo, wait_heap, seq_counter, chosen, sched, has_exec, exec_event, stop>>

Yields ==
    /\ fifo # <<>> /\ PopFifo /\ chosen' = Head(fifo)
    /\ wait_heap' = wait_heap \union {exec_event}
    /\ sched = "preempt" /\ InHands' /\ has_exec' = 0
    /\ UNCHANGED <<seq_counter, exec_event, runs, stop>>

Frees ==
    /\ disp = "clear" /\ has_exec' = 0
    /\ UNCHANGED <<fifo, wait_heap, seq_counter, chosen, sched, exec_event, runs, stop>>

Stays ==
    /\ UNCHANGED <<fifo, wait_heap, seq_counter, chosen, has_exec, exec_event, runs>>
    /\ (~InHands /\ ~InHands') \/ sched' = sched
    /\ sched' = "boot" => sched = "boot"
    /\ sched' \in {"kill", "preempt"} => sched' = sched \/ sched = "kill" \/ SchedArrivePreempt

LEMMA InjectPlaces == ASSUME TypeInv, Inject PROVE \E e \in Events : Arrives(e)
  <1>1. PICK w \in Workload : qks_inject_event(w[1], w[2])
    BY DEF Inject
  <1> DEFINE e == [id |-> seq_counter + 1, seq |-> seq_counter + 1,
                   type |-> w[1], dir |-> w[2]]
  <1>2. seq_counter' = seq_counter + 1 /\ fifo' = Append(fifo, e) /\ seq_counter < MaxEvents
        /\ UNCHANGED <<wait_heap, chosen, sched, has_exec, exec_event, runs, stop>>
    BY <1>1 DEF qks_inject_event, push_ready, slotVars, schedVars, workerVars
  <1>3. e \in Events
    BY <1>2, Stamped DEF TypeInv, TypeOK, QueueTypeOK
  <1>4. Injectable(e) /\ e.id = seq_counter + 1
    BY WorkloadAssumption DEF Injectable
  <1> QED
    BY <1>2, <1>3, <1>4 DEF Arrives

LEMMA SchedulerPlaces ==
  ASSUME TypeInv, SchedulerStep
  PROVE  \/ TakesHead \/ (\E h \in wait_heap : TakesTop(h)) \/ LaysAside \/ Fills
         \/ Yields \/ Stays
  <1> USE DEF SchedulerStep, Scheduler, slotVars, queueVars, workerVars
  <1>1. CASE SchedWaiting
    BY <1>1 DEF SchedWaiting, SchedBoot, SchedTop, SchedWaitAny, SchedWaitFifo,
       SchedTests, SchedStopped, SchedGuard, SchedBranch, Stays, InHands
  <1>2. CASE SchedDeciding
    <2>1. CASE SchedChoose
      BY <1>2, <2>1 DEF SchedDeciding, SchedChoose, Take, TakesHead, TakesTop, InHands
    <2>2. CASE SchedArriveQueue
      BY <1>2, <2>2 DEF SchedDeciding, SchedArriveQueue, LaysAside
    <2>3. CASE SchedArrivePreempt
      BY <1>2, <2>3 DEF SchedDeciding, SchedArrivePreempt, Stays, InHands
    <2>4. CASE SchedKill
      BY <1>2, <2>4 DEF SchedDeciding, SchedKill, Stays, InHands
    <2>5. CASE SchedPreempt
      BY <1>2, <2>5 DEF SchedDeciding, SchedPreempt, clear_exec_slot, Take, Yields, InHands,
         TypeInv, SchedHolds
    <2> QED
      BY <1>2, <2>1, <2>2, <2>3, <2>4, <2>5 DEF SchedDeciding
  <1>3. CASE SchedInstalling
    <2>1. CASE SchedInstall \/ SchedAccept
      BY <1>3, <2>1 DEF SchedInstalling, SchedInstall, SchedAccept, set_exec_slot,
         Fills, InHands
    <2>2. CASE SchedSpawn \/ SchedOnAct \/ SchedOnActBlock \/ SchedOnActSignal
      BY <1>3, <2>2 DEF SchedInstalling, SchedSpawn, SchedOnAct, SchedOnActBlock,
         SchedOnActSignal, update_stage, set_blocking, Stays, InHands
    <2> QED
      BY <1>3, <2>1, <2>2 DEF SchedInstalling
  <1> QED
    BY <1>1, <1>2, <1>3

LEMMA OtherPlaces ==
  ASSUME Others
  PROVE  \/ (\E w \in Workers : WorkerStep(w) /\ Starts(w)) \/ Frees \/ Stays
  <1> USE DEF slotVars, queueVars, schedVars, workerVars, Stays
  <1>1. CASE CallersExit \/ TimerFires
    BY <1>1 DEF CallersExit, TimerFires
  <1>2. CASE Main
    BY <1>2 DEF Main, MainSeesStop, MainStopAll, MainWake, MainJoinScheduler,
       MainJoinCallers, MainStopExec, MainStopWorkers, MainJoinExec, MainKillInit
  <1>3. CASE InitStep
    BY <1>3 DEF InitStep, InitThread, InitAck, InitStopped, InitLock, InitStage,
       InitBlock, InitReadSlot, InitLockExec, InitSignal, InitFinish,
       update_stage, set_blocking
  <1>4. CASE DispatcherStep
    BY <1>4 DEF DispatcherStep, Dispatcher, DispTake, DispSleep, DispExit,
       DispDispatch, DispCompleted, DispSleepDone, DispClear, DispNotify,
       clear_exec_slot, Frees
  <1>5. CASE \E w \in Workers : WorkerStep(w)
    BY <1>5 DEF WorkerStep, Worker, WorkerSleep, WorkerExit, WorkerReport, Starts
  <1>6. CASE UNCHANGED vars
    BY <1>6 DEF vars
  <1> QED
    BY <1>1, <1>2, <1>3, <1>4, <1>5, <1>6 DEF Others

-----------------------------------------------------------------------------
(* IdInv. *)

\* The intake as a set.
Distinct(s) == \A i, j \in 1 .. Len(s) : s[i].id = s[j].id => i = j

LEMMA FifoGrows ==
  ASSUME TypeInv, NEW e \in Events, fifo' = Append(fifo, e)
  PROVE  /\ InFifo' = InFifo \union {e}
         /\ Distinct(fifo) /\ (\A x \in InFifo : x.id # e.id) => Distinct(fifo)'
  <1>1. fifo \in Seq(Events)
    BY DEF TypeInv, TypeOK, QueueTypeOK
  <1>2. /\ Len(fifo') = Len(fifo) + 1 /\ Len(fifo) \in Nat
        /\ \A i \in 1 .. Len(fifo) : fifo'[i] = fifo[i]
        /\ fifo'[Len(fifo) + 1] = e
        /\ DOMAIN fifo = 1 .. Len(fifo) /\ DOMAIN fifo' = 1 .. Len(fifo')
    BY <1>1, IntakeGrows
  <1>3. InFifo' = InFifo \union {e}
    <2>1. 1 .. Len(fifo') = 1 .. Len(fifo) \union {Len(fifo) + 1}
      BY <1>2
    <2> QED
      BY <1>2, <2>1 DEF InFifo
  <1>4. ASSUME Distinct(fifo), \A x \in InFifo : x.id # e.id PROVE Distinct(fifo)'
    <2> SUFFICES ASSUME NEW i \in 1 .. Len(fifo'), NEW j \in 1 .. Len(fifo'),
                        fifo'[i].id = fifo'[j].id
                 PROVE  i = j
      BY DEF Distinct
    <2>1. (i \in 1 .. Len(fifo) \/ i = Len(fifo) + 1)
          /\ (j \in 1 .. Len(fifo) \/ j = Len(fifo) + 1)
      BY <1>2
    <2>2. \A k \in 1 .. Len(fifo) : fifo'[k].id # e.id
      BY <1>2, <1>4 DEF InFifo
    <2> QED
      BY <1>2, <1>4, <2>1, <2>2 DEF Distinct
  <1> QED
    BY <1>3, <1>4

LEMMA FifoShrinks ==
  ASSUME TypeInv, fifo # <<>>, PopFifo, Distinct(fifo)
  PROVE  /\ Head(fifo) \in InFifo /\ Head(fifo) \in Events
         /\ InFifo' = InFifo \ {Head(fifo)} /\ Distinct(fifo)'
  <1>1. fifo \in Seq(Events)
    BY DEF TypeInv, TypeOK, QueueTypeOK
  <1>2. /\ Len(fifo) \in Nat \ {0} /\ Len(fifo') = Len(fifo) - 1
        /\ \A i \in 1 .. Len(fifo') : fifo'[i] = fifo[i + 1]
        /\ Head(fifo) = fifo[1] /\ Head(fifo) \in Events
        /\ DOMAIN fifo = 1 .. Len(fifo) /\ DOMAIN fifo' = 1 .. Len(fifo')
    BY <1>1, IntakeShrinks, HeadTailProperties DEF PopFifo
  <1>3. /\ 1 \in 1 .. Len(fifo)
        /\ \A i \in 1 .. Len(fifo') : i + 1 \in 1 .. Len(fifo) /\ i + 1 # 1
        /\ \A k \in 1 .. Len(fifo) : k = 1 \/ (k - 1 \in 1 .. Len(fifo') /\ (k - 1) + 1 = k)
    BY <1>2
  <1>4. Head(fifo) \in InFifo
    BY <1>2, <1>3 DEF InFifo
  <1>5. ASSUME NEW x PROVE x \in InFifo' <=> x \in InFifo /\ x # Head(fifo)
    <2>1. ASSUME x \in InFifo' PROVE x \in InFifo /\ x # Head(fifo)
      <3>1. PICK i \in 1 .. Len(fifo') : x = fifo[i + 1]
        BY <1>2, <2>1 DEF InFifo
      <3>2. fifo[i + 1].id # fifo[1].id
        BY <1>3 DEF Distinct
      <3> QED
        BY <1>2, <1>3, <3>1, <3>2 DEF InFifo
    <2>2. ASSUME x \in InFifo, x # Head(fifo) PROVE x \in InFifo'
      <3>1. PICK k \in 1 .. Len(fifo) : x = fifo[k]
        BY <1>2, <2>2 DEF InFifo
      <3>2. k - 1 \in 1 .. Len(fifo') /\ fifo'[k - 1] = fifo[k]
        BY <1>2, <1>3, <2>2, <3>1
      <3> QED
        BY <1>2, <3>1, <3>2 DEF InFifo
    <2> QED
      BY <2>1, <2>2
  <1>6. Distinct(fifo)'
    <2> SUFFICES ASSUME NEW i \in 1 .. Len(fifo'), NEW j \in 1 .. Len(fifo'),
                        fifo'[i].id = fifo'[j].id
                 PROVE  i = j
      BY DEF Distinct
    <2>1. i + 1 \in 1 .. Len(fifo) /\ j + 1 \in 1 .. Len(fifo)
      BY <1>3
    <2>2. fifo'[i] = fifo[i + 1] /\ fifo'[j] = fifo[j + 1]
      BY <1>2
    <2>3. i + 1 = j + 1
      BY <2>1, <2>2 DEF Distinct
    <2> QED
      BY <2>3
  <1> QED
    BY <1>2, <1>4, <1>5, <1>6

\* The worker that is woken runs the event in the slot, for the first time.
LEMMA StartsSlot ==
  ASSUME TypeInv, PipelineInv, TokenInv, IdInv, NEW w \in Workers, WorkerTake(w)
  PROVE  /\ stop = 0 /\ has_exec = 1 /\ disp_ev = exec_event /\ exec_event \in Events
         /\ exec_event.id \in Ids /\ runs[exec_event.id] = 0
         /\ runs' = [runs EXCEPT ![exec_event.id] = 1]
  <1>1. stop = 0 /\ worker_wake[w] = 1 /\ runs' = [runs EXCEPT ![disp_ev.id] = @ + 1]
    BY DEF WorkerTake
  <1>2. disp \in {"await", "sleep_done"}
    BY <1>1 DEF PipelineInv, Busy
  <1>3. has_exec = 1 /\ disp_ev = exec_event /\ runs[exec_event.id] = 0
    BY <1>1, <1>2 DEF TokenInv, OneToken, TokenEvent, TokenRuns, DispHasToken
  <1>4. exec_event \in Events
    BY <1>3 DEF IdInv
  <1> QED
    BY <1>1, <1>3, <1>4 DEF Events

\* Numbers that IdInv compares.
LEMMA IdNumbers ==
  ASSUME TypeInv, IdInv
  PROVE  /\ seq_counter \in Nat /\ Waiting \subseteq Events
         /\ \A e \in Events : e.id \in Ids /\ e.id \in Nat
         /\ runs \in [Ids -> Nat] /\ has_exec \in {0, 1} /\ \A i \in Ids : i \in Nat
  <1>1. /\ fifo \in Seq(Events) /\ wait_heap \subseteq Events /\ seq_counter \in Nat
        /\ runs \in [Ids -> Nat] /\ has_exec \in {0, 1}
    BY MaxEventsAssumption DEF TypeInv, TypeOK, QueueTypeOK, ExecTypeOK
  <1>2. InFifo \subseteq Events
    BY <1>1 DEF InFifo
  <1>3. chosen # NoEvent => chosen \in Events
    BY DEF IdInv, TypeInv, SchedHolds
  <1> QED
    BY <1>1, <1>2, <1>3, MaxEventsAssumption DEF Waiting, Events, Ids

LEMMA IdArrives ==
  ASSUME TypeInv, IdInv, NEW e \in Events, Arrives(e)
  PROVE  IdInv' /\ Waiting' = Waiting \union {e}
  <1> USE DEF IdInv, Arrives
  <1>1. /\ e.id = seq_counter + 1 /\ seq_counter' = seq_counter + 1 /\ e # NoEvent
        /\ UNCHANGED <<wait_heap, chosen, sched, has_exec, exec_event, runs>>
    BY IdNumbers DEF NoEvent, Ids
  <1>2. \A x \in Waiting : x.id < e.id
    BY <1>1, IdNumbers
  <1>3. InFifo' = InFifo \union {e} /\ Distinct(fifo)'
    BY <1>2, FifoGrows, IdNumbers DEF Distinct, Waiting
  <1>4. Waiting' = Waiting \union {e} /\ e \notin Waiting
    BY <1>1, <1>2, <1>3, IdNumbers DEF Waiting
  <1>5. \A e1, e2 \in Waiting' : e1.id = e2.id => e1 = e2
    BY <1>2, <1>4, IdNumbers
  <1>6. InFifo' \intersect wait_heap' = {} /\ chosen' \notin InFifo' \union wait_heap'
    BY <1>1, <1>3, <1>4 DEF Waiting
  <1>7. runs[e.id] = 0
    BY <1>1, IdNumbers
  <1>8. \A x \in Waiting' : x.id <= seq_counter' /\ runs'[x.id] = 0
    BY <1>1, <1>4, <1>7, IdNumbers
  <1>9. \A i \in Ids : runs'[i] <= 1 /\ (i > seq_counter' => runs'[i] = 0)
    BY <1>1, IdNumbers
  <1>10. has_exec' = 1 => /\ exec_event' \in Events /\ exec_event'.id <= seq_counter'
                          /\ \A x \in Waiting' : x.id # exec_event'.id
    BY <1>1, <1>4, IdNumbers
  <1> QED
    BY <1>1, <1>3, <1>4, <1>5, <1>6, <1>8, <1>9, <1>10 DEF Distinct

\* The scheduler takes an event into its hands: the same events wait.
LEMMA IdTakes ==
  ASSUME TypeInv, IdInv, TakesHead \/ \E h \in wait_heap : TakesTop(h)
  PROVE  IdInv' /\ Waiting' = Waiting
  <1>0. /\ chosen = NoEvent /\ InHands' /\ Distinct(fifo)
        /\ UNCHANGED <<seq_counter, has_exec, exec_event, runs>>
    BY DEF IdInv, TakesHead, TakesTop, Distinct
  <1>1. /\ Distinct(fifo)' /\ chosen' \in Events /\ Waiting' = Waiting
        /\ InFifo' \intersect wait_heap' = {} /\ chosen' \notin InFifo' \union wait_heap'
    <2>1. CASE TakesHead
      BY <1>0, <2>1, FifoShrinks, IdNumbers DEF IdInv, TakesHead, Waiting
    <2>2. ASSUME NEW h \in wait_heap, TakesTop(h)
          PROVE  /\ Distinct(fifo)' /\ chosen' \in Events /\ Waiting' = Waiting
                 /\ InFifo' \intersect wait_heap' = {}
                 /\ chosen' \notin InFifo' \union wait_heap'
      <3>1. UNCHANGED fifo /\ InFifo' = InFifo /\ wait_heap' = wait_heap \ {h} /\ chosen' = h
        BY <2>2 DEF TakesTop, InFifo
      <3>2. h \in Events /\ h \notin InFifo
        BY IdNumbers DEF IdInv, Waiting
      <3>3. h # NoEvent
        BY <3>2, IdNumbers DEF NoEvent, Ids
      <3>4. Waiting' = Waiting
        BY <1>0, <3>1, <3>3 DEF Waiting
      <3> QED
        BY <1>0, <3>1, <3>2, <3>4 DEF Distinct, IdInv
    <2> QED
      BY <2>1, <2>2
  <1>2. chosen' # NoEvent
    BY <1>1, IdNumbers DEF NoEvent, Ids
  <1> QED
    BY <1>0, <1>1, <1>2 DEF IdInv, InHands, Distinct

LEMMA IdLaysAside ==
  ASSUME TypeInv, IdInv, LaysAside
  PROVE  /\ IdInv'
         /\ Waiting' = IF Head(fifo).dir = "MASTER" THEN Waiting ELSE Waiting \ {Head(fifo)}
         /\ Head(fifo) \in Waiting /\ Head(fifo) \in Events
  <1>1. /\ chosen' = NoEvent /\ chosen = NoEvent /\ Distinct(fifo) /\ sched' = "top"
        /\ UNCHANGED <<seq_counter, has_exec, exec_event, runs>>
    BY DEF IdInv, LaysAside, Distinct
  <1>2. /\ Head(fifo) \in InFifo /\ Head(fifo) \in Events
        /\ InFifo' = InFifo \ {Head(fifo)} /\ Distinct(fifo)'
    BY <1>1, FifoShrinks DEF LaysAside
  <1>3. wait_heap' = IF Head(fifo).dir = "MASTER" THEN wait_heap \union {Head(fifo)}
                     ELSE wait_heap
    BY DEF LaysAside
  <1>4. Waiting' = IF Head(fifo).dir = "MASTER" THEN Waiting ELSE Waiting \ {Head(fifo)}
    BY <1>1, <1>2, <1>3 DEF Waiting, IdInv
  <1>5. InFifo' \intersect wait_heap' = {} /\ chosen' \notin InFifo' \union wait_heap'
    BY <1>1, <1>2, <1>3 DEF IdInv
  <1>6. Waiting' \subseteq Waiting
    BY <1>4
  <1> QED
    BY <1>1, <1>2, <1>4, <1>5, <1>6 DEF IdInv, Waiting, Distinct

LEMMA IdFills ==
  ASSUME TypeInv, IdInv, Fills
  PROVE  /\ IdInv' /\ Waiting' = Waiting \ {chosen} /\ chosen \in Waiting
         /\ chosen \in Events /\ exec_event'.id = chosen.id /\ exec_event'.dir = chosen.dir
         /\ runs[exec_event'.id] = 0
  <1>1. /\ chosen # NoEvent /\ chosen \in Events /\ chosen' = NoEvent /\ has_exec' = 1
        /\ sched' \notin {"install", "accept"} /\ InFifo' = InFifo
        /\ UNCHANGED <<fifo, wait_heap, seq_counter, runs>>
    BY DEF IdInv, Fills, InHands, TypeInv, SchedHolds, InFifo
  <1>2. /\ exec_event' \in Events /\ exec_event'.id = chosen.id
        /\ exec_event'.dir = chosen.dir
    BY <1>1 DEF Fills, Events
  <1>3. chosen \in Waiting /\ Waiting' = Waiting \ {chosen} /\ NoEvent \notin Waiting
    BY <1>1, IdNumbers DEF IdInv, Waiting, NoEvent, Events, Ids
  <1>4. chosen.id <= seq_counter /\ runs[chosen.id] = 0
        /\ \A x \in Waiting' : x.id # chosen.id
    BY <1>3 DEF IdInv
  <1>5. chosen' \notin InFifo' \union wait_heap'
    BY <1>1, <1>3 DEF Waiting
  <1> QED
    BY <1>1, <1>2, <1>3, <1>4, <1>5 DEF IdInv, Waiting

LEMMA IdStarts ==
  ASSUME TypeInv, PipelineInv, TokenInv, IdInv, NEW w \in Workers, Starts(w)
  PROVE  IdInv' /\ Waiting' = Waiting
  <1>1. /\ has_exec = 1 /\ exec_event \in Events /\ exec_event.id \in Ids
        /\ runs' = [runs EXCEPT ![exec_event.id] = 1]
    BY StartsSlot DEF Starts
  <1>2. UNCHANGED <<fifo, wait_heap, seq_counter, chosen, sched, has_exec, exec_event>>
    BY DEF Starts
  <1>3. InFifo' = InFifo /\ Waiting' = Waiting
    BY <1>2 DEF InFifo, Waiting
  <1>4. \A x \in Waiting : x.id # exec_event.id /\ runs'[x.id] = runs[x.id]
    BY <1>1, IdNumbers DEF IdInv
  <1>5. \A i \in Ids : runs'[i] <= 1 /\ (i > seq_counter => runs'[i] = 0)
    BY <1>1, IdNumbers DEF IdInv
  <1> QED
    BY <1>1, <1>2, <1>3, <1>4, <1>5 DEF IdInv

LEMMA IdStays ==
  ASSUME TypeInv, IdInv, Stays \/ Frees
  PROVE  IdInv' /\ Waiting' = Waiting
  <1>1. InFifo' = InFifo /\ Waiting' = Waiting
    BY DEF Stays, Frees, InFifo, Waiting
  <1> QED
    BY <1>1 DEF IdInv, Stays, Frees, InHands

\* The event in the slot gives way to the head of the intake and waits again.
LEMMA IdYields ==
  ASSUME TypeInv, IdInv, EvictInv, Yields
  PROVE  /\ IdInv' /\ Waiting' = Waiting \union {exec_event}
         /\ has_exec = 1 /\ runs[exec_event.id] = 0
  <1>1. /\ has_exec = 1 /\ runs[exec_event.id] = 0 /\ exec_event \in Events
        /\ exec_event.id <= seq_counter /\ \A x \in Waiting : x.id # exec_event.id
    BY DEF IdInv, EvictInv, Yields
  <1>2. /\ chosen = NoEvent /\ Distinct(fifo) /\ chosen' = Head(fifo)
        /\ wait_heap' = wait_heap \union {exec_event} /\ has_exec' = 0
        /\ UNCHANGED <<seq_counter, runs>> /\ sched' \in {"install", "accept"}
    BY DEF IdInv, Yields, Distinct, InHands
  <1>3. /\ Head(fifo) \in InFifo /\ Head(fifo) \in Events
        /\ InFifo' = InFifo \ {Head(fifo)} /\ Distinct(fifo)'
    BY <1>2, FifoShrinks DEF Yields
  <1>4. chosen' # NoEvent
    BY <1>2, <1>3, IdNumbers DEF NoEvent, Ids
  <1>5. Waiting' = Waiting \union {exec_event} /\ exec_event \notin Waiting
    BY <1>1, <1>2, <1>3, <1>4 DEF Waiting
  <1>6. InFifo' \intersect wait_heap' = {} /\ chosen' \notin InFifo' \union wait_heap'
    BY <1>2, <1>3, <1>5 DEF IdInv, Waiting
  <1>7. \A e1, e2 \in Waiting' : e1.id = e2.id => e1 = e2
    BY <1>1, <1>5 DEF IdInv
  <1>8. \A e \in Waiting' : e.id <= seq_counter' /\ runs'[e.id] = 0
    BY <1>1, <1>2, <1>5 DEF IdInv
  <1>9. \A i \in Ids : runs'[i] <= 1 /\ (i > seq_counter' => runs'[i] = 0)
    BY <1>2 DEF IdInv
  <1>10. IdInv'
    BY <1>2, <1>3, <1>4, <1>6, <1>7, <1>8, <1>9 DEF IdInv, Distinct
  <1> QED
    BY <1>1, <1>5, <1>10

LEMMA IdStep ==
  ASSUME TypeInv, PipelineInv, IdInv, TokenInv, EvictInv, [Next]_vars
  PROVE  IdInv'
  BY NextSplit, InjectPlaces, SchedulerPlaces, OtherPlaces, IdArrives, IdTakes,
     IdLaysAside, IdFills, IdYields, IdStarts, IdStays

-----------------------------------------------------------------------------
(* TokenInv. *)

\* Steps that leave the token, the slot and the execution alone.
tokenVars == <<has_exec, exec_event, stage, hard_blocking, wake, pending, worker_done,
               disp, disp_ev, worker, worker_wake, runs>>

LEMMA TokenIdle ==
  ASSUME TokenInv, UNCHANGED tokenVars, stop' = 0 => stop = 0,
         UNCHANGED init_arg \/ init' = "none", init' \in {init, "none"},
         \/ sched' = sched
         \/ ~SchedHasToken /\ ~SchedHasToken'
  PROVE  TokenInv'
  <1> USE DEF TokenInv, tokenVars, InitHasToken, SchedHasToken, DispHasToken, InitPC
  <1>1. OneToken'
    BY DEF OneToken
  <1>2. TokenEvent' /\ TokenStage'
    BY DEF TokenEvent, TokenStage, Staged, Blocking
  <1>3. TokenRuns'
    BY DEF TokenRuns
  <1> QED
    BY <1>1, <1>2, <1>3

\* The start takes back a stop, but nothing has begun then.
LEMMA TokenBoot ==
  ASSUME TypeInv, PipelineInv, TokenInv, SchedulerStep, SchedBoot
  PROVE  TokenInv'
  <1>1. /\ wake = 0 /\ init = "none" /\ disp \in {"idle", "sleep", "exit"}
        /\ \A w \in Workers : ~Busy(w)
        /\ worker_done # 1 /\ sched' = "top"
    BY DEF SchedBoot, PipelineInv
  <1>2. UNCHANGED <<tokenVars, init, init_arg>>
    BY DEF SchedulerStep, Scheduler, SchedBoot, SchedWaiting, SchedDeciding, SchedInstalling,
       SchedChoose, SchedArrivePreempt, SchedArriveQueue, SchedKill, SchedPreempt,
       SchedInstall, SchedSpawn, SchedAccept, SchedOnAct, SchedOnActBlock,
       SchedOnActSignal, tokenVars, slotVars, sigVars, initVars, dispVars, workerVars
  <1>3. \A w \in Workers : worker_wake[w] # 1 /\ worker[w] # "run"
    BY <1>1 DEF Busy
  <1> QED
    BY <1>1, <1>2, <1>3 DEF TokenInv, OneToken, TokenEvent, TokenStage, Staged, Blocking, TokenRuns,
       InitHasToken, SchedHasToken, DispHasToken, tokenVars, InitPC

LEMMA TokenWaiting ==
  ASSUME TypeInv, PipelineInv, TokenInv, SchedulerStep, SchedWaiting
  PROVE  TokenInv'
  <1>1. CASE SchedBoot
    BY <1>1, TokenBoot
  <1>2. CASE ~SchedBoot
    <2>1. UNCHANGED <<tokenVars, init, init_arg, stop>>
      BY <1>2 DEF SchedulerStep, Scheduler, SchedWaiting, SchedTop, SchedWaitAny,
         SchedWaitFifo, SchedStopped, SchedGuard, SchedBranch, tokenVars, slotVars,
         sigVars, initVars, dispVars, workerVars
    <2>2. ~SchedHasToken /\ ~SchedHasToken'
      BY <1>2 DEF SchedWaiting, SchedTop, SchedWaitAny, SchedWaitFifo, SchedTests,
         SchedStopped, SchedGuard, SchedBranch, SchedHasToken
    <2> QED
      BY <2>1, <2>2, TokenIdle
  <1> QED
    BY <1>1, <1>2

\* A kill destroys the token on its way to the mailbox, an eviction frees the
\* slot after that.
LEMMA TokenDeciding ==
  ASSUME TypeInv, TokenInv, EvictInv, SchedulerStep, SchedDeciding
  PROVE  TokenInv'
  <1>1. CASE SchedChoose \/ SchedArriveQueue \/ SchedArrivePreempt
    <2>1. UNCHANGED <<tokenVars, init, init_arg, stop>>
      BY <1>1 DEF SchedulerStep, Scheduler, SchedDeciding, SchedChoose, SchedArriveQueue,
         SchedArrivePreempt, tokenVars, slotVars, sigVars, initVars, dispVars, workerVars
    <2>2. ~SchedHasToken /\ ~SchedHasToken'
      BY <1>1 DEF SchedChoose, SchedArriveQueue, SchedArrivePreempt, Take, SchedHasToken
    <2> QED
      BY <2>1, <2>2, TokenIdle
  <1>2. CASE SchedKill
    <2>1. UNCHANGED <<tokenVars, stop>> /\ init' \in {init, "none"}
          /\ (UNCHANGED init_arg \/ init' = "none")
      BY <1>2 DEF SchedulerStep, Scheduler, SchedDeciding, SchedKill,
         qks_init_master_kill_current, tokenVars, slotVars, sigVars, dispVars, workerVars
    <2>2. ~SchedHasToken /\ ~SchedHasToken'
      BY <1>2 DEF SchedKill, SchedHasToken
    <2> QED
      BY <2>1, <2>2, TokenIdle
  <1>3. CASE SchedPreempt
    <2> USE DEF TokenInv, InitHasToken, SchedHasToken, DispHasToken, InitPC
    <2>1. /\ sched = "preempt" /\ sched' \in {"install", "accept"}
          /\ has_exec' = 0 /\ hard_blocking' = 0
          /\ UNCHANGED <<exec_event, stage, wake, pending, worker_done, disp, disp_ev,
                         worker, worker_wake, runs, init, init_arg, stop>>
      BY <1>3 DEF SchedulerStep, Scheduler, SchedDeciding, SchedPreempt, clear_exec_slot,
         Take, slotVars, sigVars, initVars, dispVars, workerVars
    <2>2. init = "none" /\ stage = "INIT"
      BY <2>1 DEF EvictInv
    <2>3. wake # 1 /\ ~DispHasToken
      BY <2>2 DEF TokenStage, Staged
    <2>4. OneToken' /\ TokenEvent' /\ TokenStage'
      BY <2>1, <2>2, <2>3 DEF OneToken, TokenEvent, TokenStage, Staged, Blocking
    <2>5. TokenRuns'
      BY <2>1, <2>2, <2>3 DEF TokenRuns
    <2> QED
      BY <2>4, <2>5
  <1> QED
    BY <1>1, <1>2, <1>3 DEF SchedDeciding

\* The scheduler fills an empty slot: it makes the token.
LEMMA TokenFills ==
  ASSUME TypeInv, Justified, PipelineInv, IdInv, TokenInv, SchedulerStep,
         SchedInstall \/ SchedAccept, SchedInstalling
  PROVE  TokenInv'
  <1>1. /\ has_exec = 0 /\ ~InitHasToken /\ wake = 0 /\ ~DispHasToken /\ has_exec' = 1
        /\ sched' \in {"spawn", "on_act"}
        /\ sched' = "on_act" => hard_blocking' = 1
    BY DEF Justified, SchedInstall, SchedAccept, set_exec_slot, TokenInv, OneToken,
       TypeInv, TypeOK, ExecTypeOK
  <1>2. /\ UNCHANGED <<init, init_arg, wake, pending, worker_done, disp, disp_ev,
                       worker, worker_wake, runs, stop>>
    BY DEF SchedulerStep, Scheduler, SchedInstalling, SchedInstall, SchedAccept,
       sigVars, initVars, dispVars, workerVars
  <1>3. Fills
    BY DEF SchedulerStep, Scheduler, SchedInstalling, SchedInstall, SchedAccept,
       set_exec_slot, Fills, InHands, queueVars, workerVars
  <1>4. runs'[exec_event'.id] = 0
    BY <1>2, <1>3, IdFills
  <1>5. stop = 0 => worker_done # 1 /\ \A w \in Workers : ~Busy(w)
    BY <1>1 DEF PipelineInv, DispHasToken
  <1>6. OneToken' /\ TokenEvent' /\ TokenStage'
    BY <1>1, <1>2 DEF OneToken, TokenEvent, TokenStage, Staged, Blocking,
       InitHasToken, DispHasToken, SchedHasToken, InitPC
  <1>7. TokenRuns'
    BY <1>1, <1>2, <1>4, <1>5 DEF TokenRuns, Busy, InitHasToken, DispHasToken, SchedHasToken
  <1> QED
    BY <1>6, <1>7 DEF TokenInv

LEMMA TokenInstalling ==
  ASSUME TypeInv, Justified, PipelineInv, IdInv, TokenInv, SchedulerStep, SchedInstalling
  PROVE  TokenInv'
  <1> USE DEF TokenInv, InitHasToken, SchedHasToken, DispHasToken, InitPC
  <1>1. CASE SchedInstall \/ SchedAccept
    BY <1>1, TokenFills
  <1>0. UNCHANGED <<stop, disp, disp_ev, worker, worker_wake, runs>>
    BY DEF SchedulerStep, Scheduler, SchedInstalling, dispVars, workerVars
  <1>2. CASE SchedSpawn
    <2>1. /\ sched = "spawn" /\ sched' = "top" /\ init' \in {"wait_ack", "none"}
          /\ UNCHANGED <<has_exec, exec_event, stage, hard_blocking, wake, pending,
                         worker_done>>
      BY <1>2 DEF SchedSpawn, qks_init_master_spawn, qks_init_master_spawn_fails,
         slotVars, sigVars
    <2>2. OneToken' /\ TokenEvent' /\ TokenStage'
      BY <1>0, <2>1 DEF OneToken, TokenEvent, TokenStage, Staged, Blocking
    <2>3. TokenRuns'
      BY <1>0, <2>1 DEF TokenRuns
    <2> QED
      BY <2>2, <2>3
  <1>3. CASE SchedOnAct \/ SchedOnActBlock
    <2>0. has_exec = 1
      BY <1>3 DEF SchedOnAct, SchedOnActBlock, OneToken
    <2>1. /\ sched \in {"on_act", "on_act_block"}
          /\ sched' \in {"on_act_block", "on_act_signal"}
          /\ stage' = "EXEC" /\ hard_blocking' = 1
          /\ UNCHANGED <<has_exec, exec_event, wake, pending, worker_done, init, init_arg>>
      BY <1>3, <2>0 DEF SchedOnAct, SchedOnActBlock, update_stage, set_blocking,
         sigVars, initVars, TokenStage, Staged, Blocking
    <2>2. OneToken' /\ TokenEvent' /\ TokenStage'
      BY <1>0, <2>0, <2>1 DEF OneToken, TokenEvent, TokenStage, Staged, Blocking
    <2>3. TokenRuns'
      BY <1>0, <2>1 DEF TokenRuns
    <2> QED
      BY <2>2, <2>3
  <1>4. CASE SchedOnActSignal
    <2>1. /\ sched = "on_act_signal" /\ sched' = "top"
          /\ wake' = 1 /\ pending' = exec_event
          /\ UNCHANGED <<has_exec, exec_event, stage, hard_blocking, worker_done, init,
                         init_arg>>
      BY <1>4 DEF SchedOnActSignal, exec_signal, slotVars, initVars
    <2>2. OneToken' /\ TokenEvent' /\ TokenStage'
      BY <1>0, <2>1 DEF OneToken, TokenEvent, TokenStage, Staged, Blocking
    <2>3. TokenRuns'
      BY <1>0, <2>1 DEF TokenRuns
    <2> QED
      BY <2>2, <2>3
  <1> QED
    BY <1>1, <1>2, <1>3, <1>4 DEF SchedInstalling

\* The init thread: the token's way into the mailbox.
LEMMA TokenInit == ASSUME TypeInv, TokenInv, InitStep PROVE TokenInv'
  <1> USE DEF TokenInv, InitHasToken, SchedHasToken, DispHasToken, InitPC, Step
  <1>0. UNCHANGED <<has_exec, exec_event, sched, stop, worker_done, disp, disp_ev, worker,
                    worker_wake, runs>>
    BY DEF InitStep, InitThread, InitAck, InitStopped, InitLock, InitStage, InitBlock,
       InitReadSlot, InitLockExec, InitSignal, InitFinish, update_stage, set_blocking,
       slotVars, sigVars, dispVars, workerVars, schedVars
  <1>1. CASE InitAck \/ InitStopped \/ InitLock \/ InitLockExec \/ InitFinish
    <2>1. /\ UNCHANGED <<stage, hard_blocking, wake, pending, init_arg>>
          /\ \/ init = "wait_ack" /\ init' \in {"act", "finish"}
             \/ init = "act" /\ init' = "stage_cs"
             \/ init = "block" /\ init' = "block_cs"
             \/ init = "signal_lock" /\ init' = "signal_cs"
             \/ init = "finish" /\ init' = "none"
      BY <1>1 DEF InitAck, InitStopped, InitLock, InitLockExec, InitFinish, slotVars, sigVars
    <2>2. OneToken' /\ TokenEvent' /\ TokenStage'
      BY <1>0, <2>1 DEF OneToken, TokenEvent, TokenStage, Staged, Blocking
    <2>3. TokenRuns'
      BY <1>0, <2>1 DEF TokenRuns
    <2> QED
      BY <2>2, <2>3
  <1>2. CASE InitStage \/ InitBlock \/ InitReadSlot
    <2>0. has_exec = 1
      BY <1>2 DEF InitStage, InitBlock, InitReadSlot, OneToken
    <2>1. /\ UNCHANGED <<wake, pending>>
          /\ \/ /\ init = "stage_cs" /\ init' = "block" /\ stage' = "EXEC"
                /\ UNCHANGED hard_blocking
             \/ /\ init = "block_cs" /\ init' = "signal" /\ hard_blocking' = 1
                /\ UNCHANGED stage
             \/ /\ init = "signal" /\ init' = "signal_lock" /\ init_arg' = exec_event
                /\ UNCHANGED <<stage, hard_blocking>>
      BY <1>2, <2>0 DEF InitStage, InitBlock, InitReadSlot, update_stage, set_blocking,
         slotVars, sigVars
    <2>2. OneToken' /\ TokenEvent' /\ TokenStage'
      BY <1>0, <2>0, <2>1 DEF OneToken, TokenEvent, TokenStage, Staged, Blocking
    <2>3. TokenRuns'
      BY <1>0, <2>1 DEF TokenRuns
    <2> QED
      BY <2>2, <2>3
  <1>3. CASE InitSignal
    <2>1. /\ UNCHANGED <<stage, hard_blocking>> /\ init = "signal_cs" /\ init' = "finish"
          /\ wake' = 1 /\ pending' = init_arg
      BY <1>3 DEF InitSignal, exec_signal, slotVars
    <2>2. OneToken' /\ TokenEvent' /\ TokenStage'
      BY <1>0, <2>1 DEF OneToken, TokenEvent, TokenStage, Staged, Blocking
    <2>3. TokenRuns'
      BY <1>0, <2>1 DEF TokenRuns
    <2> QED
      BY <2>2, <2>3
  <1> QED
    BY <1>1, <1>2, <1>3 DEF InitStep, InitThread

\* The dispatcher takes the token out of the mailbox, hands the event to its
\* worker, and keeps the token until it has freed the slot.
LEMMA TokenDispatcher ==
  ASSUME TypeInv, PipelineInv, TokenInv, DispatcherStep
  PROVE  TokenInv'
  <1> USE DEF TokenInv, InitHasToken, SchedHasToken, DispHasToken, InitPC
  <1>0. UNCHANGED <<exec_event, init, init_arg, sched, stop, worker, runs>>
    BY DEF DispatcherStep, Dispatcher, DispTake, DispSleep, DispExit, DispDispatch,
       DispCompleted, DispSleepDone, DispClear, DispNotify, clear_exec_slot, slotVars,
       workerVars, initVars, schedVars
  <1>1. CASE DispSleep \/ DispExit \/ DispNotify
    <2>1. /\ UNCHANGED <<has_exec, stage, hard_blocking, wake, pending, worker_done,
                         disp_ev, worker_wake>>
          /\ disp \in {"idle", "sleep", "notify"} /\ disp' \in {"idle", "sleep", "exit"}
      BY <1>1 DEF DispSleep, DispExit, DispNotify, DispTests, slotVars, sigVars, workerVars
    <2>2. OneToken' /\ TokenEvent' /\ TokenStage'
      BY <1>0, <2>1 DEF OneToken, TokenEvent, TokenStage, Staged, Blocking
    <2>3. TokenRuns'
      BY <1>0, <2>1 DEF TokenRuns
    <2> QED
      BY <2>2, <2>3
  <1>2. CASE DispTake
    <2>1. /\ UNCHANGED <<has_exec, stage, hard_blocking, worker_done, worker_wake>>
          /\ wake = 1 /\ wake' = 0 /\ disp_ev' = pending
          /\ disp \in {"idle", "sleep"} /\ disp' = "dispatch"
      BY <1>2 DEF DispTake, DispTests, slotVars, workerVars
    <2>2. OneToken' /\ TokenEvent' /\ TokenStage'
      BY <1>0, <2>1 DEF OneToken, TokenEvent, TokenStage, Staged, Blocking
    <2>3. TokenRuns'
      BY <1>0, <2>1 DEF TokenRuns, OneToken
    <2> QED
      BY <2>2, <2>3
  <1>3. CASE DispDispatch
    <2>1. /\ UNCHANGED <<has_exec, stage, hard_blocking, worker_done, wake, pending, disp_ev>>
          /\ disp = "dispatch" /\ disp' = "await"
          /\ worker_wake' = [worker_wake EXCEPT ![disp_ev.type] = 1]
      BY <1>3 DEF DispDispatch, slotVars, sigVars
    <2>2. OneToken' /\ TokenEvent' /\ TokenStage'
      BY <1>0, <2>1 DEF OneToken, TokenEvent, TokenStage, Staged, Blocking
    <2>3. stop = 0 => \A w \in Workers : worker[w] # "run"
      BY <2>1 DEF PipelineInv, Busy
    <2>4. runs[exec_event.id] = 0
      BY <2>1 DEF TokenRuns
    <2>5. TokenRuns'
      BY <1>0, <2>1, <2>2, <2>3, <2>4 DEF TokenRuns, OneToken, PipelineInv
    <2> QED
      BY <2>2, <2>5
  <1>4. CASE DispCompleted \/ DispSleepDone
    <2>1. /\ UNCHANGED <<has_exec, stage, hard_blocking, wake, pending, worker_wake>>
          /\ disp \in {"await", "sleep_done"}
          /\ \/ disp' = "clear" /\ (worker_done = 1 \/ stop = 1) /\ worker_done' = 0
             \/ disp' = "sleep_done" /\ UNCHANGED <<worker_done, disp_ev>>
      BY <1>4 DEF DispCompleted, DispSleepDone, DispTestsDone, slotVars, workerVars
    <2>2. OneToken' /\ TokenEvent' /\ TokenStage'
      BY <1>0, <2>1 DEF OneToken, TokenEvent, TokenStage, Staged, Blocking
    <2>3. TokenRuns'
      BY <1>0, <2>1 DEF TokenRuns
    <2> QED
      BY <2>2, <2>3
  <1>5. CASE DispClear
    <2>1. /\ UNCHANGED <<stage, wake, pending, worker_done, disp_ev, worker_wake>>
          /\ disp = "clear" /\ disp' = "notify" /\ has_exec' = 0 /\ hard_blocking' = 0
      BY <1>5 DEF DispClear, clear_exec_slot, sigVars, workerVars
    <2>2. ~InitHasToken /\ ~SchedHasToken /\ wake # 1
      BY <2>1 DEF OneToken
    <2>3. OneToken' /\ TokenEvent' /\ TokenStage'
      BY <1>0, <2>1, <2>2 DEF OneToken, TokenEvent, TokenStage, Staged, Blocking
    <2>4. TokenRuns'
      BY <1>0, <2>1, <2>2 DEF TokenRuns
    <2> QED
      BY <2>3, <2>4
  <1> QED
    BY <1>1, <1>2, <1>3, <1>4, <1>5 DEF DispatcherStep, Dispatcher

\* The worker starts the event in the slot and, before the program stops,
\* reports only what it has started.
LEMMA TokenWorker ==
  ASSUME TypeInv, PipelineInv, IdInv, TokenInv, NEW w \in Workers, WorkerStep(w)
  PROVE  TokenInv'
  <1> USE DEF TokenInv, InitHasToken, SchedHasToken, DispHasToken
  <1>0. /\ UNCHANGED <<has_exec, exec_event, stage, hard_blocking, wake, pending, disp,
                       disp_ev, init, init_arg, sched, stop>>
        /\ worker \in [Workers -> WorkerPC] /\ worker_wake \in [Workers -> {0, 1}]
        /\ runs \in [Ids -> Nat]
    BY DEF WorkerStep, Worker, WorkerTake, WorkerSleep, WorkerExit, WorkerReport, slotVars,
       sigVars, dispVars, initVars, schedVars, TypeInv, TypeOK, ExecTypeOK
  <1>1. OneToken' /\ TokenEvent' /\ TokenStage'
    BY <1>0 DEF OneToken, TokenEvent, TokenStage, Staged, Blocking
  <1>2. CASE WorkerTake(w)
    <2>1. /\ stop = 0 /\ exec_event.id \in Ids
          /\ runs' = [runs EXCEPT ![exec_event.id] = 1]
      BY <1>2, StartsSlot
    <2>2. /\ worker_wake' = [worker_wake EXCEPT ![w] = 0] /\ worker_wake[w] = 1
          /\ worker' = [worker EXCEPT ![w] = "run"] /\ UNCHANGED worker_done
      BY <1>2 DEF WorkerTake, sigVars
    <2>3. disp \in {"await", "sleep_done"} /\ \A v \in Workers : Busy(v) => v = w
      BY <2>1, <2>2 DEF PipelineInv, Busy
    <2>4. ~InitHasToken /\ ~SchedHasToken /\ wake # 1
      BY <2>3 DEF OneToken
    <2>5. runs'[exec_event'.id] = 1
      BY <1>0, <2>1
    <2>6. \A v \in Workers : worker_wake'[v] # 1
      BY <1>0, <2>2, <2>3 DEF Busy
    <2> QED
      BY <1>0, <1>1, <2>3, <2>4, <2>5, <2>6 DEF TokenRuns
  <1>3. CASE WorkerSleep(w) \/ WorkerExit(w) \/ WorkerReport(w)
    <2>1. /\ UNCHANGED <<runs, worker_wake>>
          /\ \A v \in Workers : worker'[v] = "run" => worker[v] = "run"
          /\ worker_done' = 1 => worker_done = 1 \/ worker[w] = "run"
      BY <1>0, <1>3 DEF WorkerSleep, WorkerExit, WorkerReport, sigVars
    <2>2. TokenRuns'
      BY <1>0, <2>1 DEF TokenRuns
    <2> QED
      BY <1>1, <2>2
  <1> QED
    BY <1>2, <1>3 DEF WorkerStep, Worker

LEMMA TokenMain ==
  ASSUME TokenInv, CallersExit \/ TimerFires \/ Main \/ UNCHANGED vars
  PROVE  TokenInv'
  <1>1. UNCHANGED <<tokenVars, sched>> /\ stop' \in {stop, 1}
    BY DEF CallersExit, TimerFires, Main, MainSeesStop, MainStopAll, MainWake,
       MainJoinScheduler, MainJoinCallers, MainStopExec, MainStopWorkers, MainJoinExec,
       MainKillInit, vars, tokenVars, slotVars, sigVars, dispVars, workerVars, schedVars
  <1>2. init' \in {init, "none"} /\ (UNCHANGED init_arg \/ init' = "none")
    BY DEF CallersExit, TimerFires, Main, MainSeesStop, MainStopAll, MainWake,
       MainJoinScheduler, MainJoinCallers, MainStopExec, MainStopWorkers, MainJoinExec,
       MainKillInit, qks_init_master_kill_current, vars, initVars
  <1> QED
    BY <1>1, <1>2, TokenIdle

LEMMA TokenStep ==
  ASSUME TypeInv, Justified, PipelineInv, IdInv, TokenInv, EvictInv, [Next]_vars
  PROVE  TokenInv'
  <1>1. CASE Inject
    BY <1>1, TokenIdle DEF Inject, qks_inject_event, tokenVars, slotVars, sigVars, dispVars,
       workerVars, initVars, schedVars
  <1>2. CASE CallersExit \/ TimerFires \/ Main \/ UNCHANGED vars
    BY <1>2, TokenMain
  <1>3. CASE SchedulerStep
    BY <1>3, TokenWaiting, TokenDeciding, TokenInstalling DEF SchedulerStep, Scheduler
  <1>4. CASE InitStep
    BY <1>4, TokenInit
  <1>5. CASE DispatcherStep
    BY <1>5, TokenDispatcher
  <1>6. ASSUME NEW w \in Workers, WorkerStep(w) PROVE TokenInv'
    BY <1>6, TokenWorker
  <1> QED
    BY <1>1, <1>2, <1>3, <1>4, <1>5, <1>6 DEF Next, Terminated

-----------------------------------------------------------------------------
(* EvictInv.  The only step that could break it is Overtaken. *)

LEMMA EvictScheduler ==
  ASSUME TypeInv, Justified, IdInv, EvictInv, SchedulerStep
  PROVE  EvictInv'
  <1> USE DEF EvictInv
  <1>0. UNCHANGED runs
    BY DEF SchedulerStep, Scheduler, workerVars
  <1>1. CASE SchedWaiting
    BY <1>0, <1>1 DEF SchedWaiting, SchedBoot, SchedTop, SchedWaitAny, SchedWaitFifo,
       SchedTests, SchedStopped, SchedGuard, SchedBranch, slotVars, initVars, TypeInv, TypeOK,
       QueueTypeOK
  <1>2. CASE SchedDeciding
    <2>1. CASE SchedChoose \/ SchedArriveQueue \/ SchedPreempt
      BY <1>0, <1>2, <2>1 DEF SchedDeciding, SchedChoose, SchedArriveQueue, SchedPreempt,
         clear_exec_slot, Take, slotVars, initVars
    <2>2. CASE SchedArrivePreempt
      BY <1>0, <1>2, <2>2 DEF SchedArrivePreempt, AllowPreempt, slotVars, initVars
    <2>3. CASE SchedKill
      BY <1>0, <1>2, <2>3 DEF SchedKill, qks_init_master_kill_current, slotVars
    <2> QED
      BY <1>2, <2>1, <2>2, <2>3 DEF SchedDeciding
  <1>3. CASE SchedInstalling
    <2>1. CASE SchedInstall \/ SchedAccept
      <3>1. Fills
        BY <1>0, <1>3, <2>1 DEF SchedulerStep, Scheduler, SchedInstalling, SchedInstall,
           SchedAccept, set_exec_slot, Fills, InHands, queueVars, workerVars
      <3>2. runs[exec_event'.id] = 0
        BY <3>1, IdFills
      <3> QED
        BY <1>0, <2>1, <3>2 DEF SchedInstall, SchedAccept, set_exec_slot, initVars
    <2>2. CASE SchedSpawn
      BY <1>0, <2>2 DEF SchedSpawn, qks_init_master_spawn, qks_init_master_spawn_fails,
         slotVars
    <2>3. CASE SchedOnAct \/ SchedOnActBlock \/ SchedOnActSignal
      BY <1>0, <2>3 DEF SchedOnAct, SchedOnActBlock, SchedOnActSignal, update_stage,
         set_blocking, slotVars, initVars
    <2> QED
      BY <1>3, <2>1, <2>2, <2>3 DEF SchedInstalling
  <1> QED
    BY <1>1, <1>2, <1>3 DEF SchedulerStep, Scheduler

LEMMA EvictInit == ASSUME EvictInv, InitStep, ~Overtaken PROVE EvictInv'
  <1>1. /\ UNCHANGED <<has_exec, exec_event, sched, th_init, runs>> /\ init # "none"
        /\ stage' \in {stage, "EXEC"}
    BY DEF InitStep, InitThread, InitAck, InitStopped, InitLock, InitStage, InitBlock,
       InitReadSlot, InitLockExec, InitSignal, InitFinish, Step, update_stage, set_blocking,
       slotVars, schedVars, workerVars
  <1> QED
    BY <1>1 DEF EvictInv, Overtaken

LEMMA EvictExecution ==
  ASSUME TypeInv, PipelineInv, IdInv, TokenInv, EvictInv,
         DispatcherStep \/ \E w \in Workers : WorkerStep(w)
  PROVE  EvictInv'
  <1> USE DEF EvictInv
  <1>1. UNCHANGED <<exec_event, stage, sched, init, th_init>>
    BY DEF DispatcherStep, Dispatcher, DispTake, DispSleep, DispExit, DispDispatch,
       DispCompleted, DispSleepDone, DispClear, DispNotify, clear_exec_slot,
       WorkerStep, Worker, WorkerTake, WorkerSleep, WorkerExit, WorkerReport,
       slotVars, initVars, schedVars
  <1>2. CASE DispatcherStep
    <2>1. UNCHANGED runs /\ (UNCHANGED has_exec \/ disp = "clear")
      BY <1>2 DEF DispatcherStep, Dispatcher, DispTake, DispSleep, DispExit, DispDispatch,
         DispCompleted, DispSleepDone, DispClear, DispNotify, slotVars, workerVars
    <2>2. CASE UNCHANGED has_exec
      BY <1>1, <2>1, <2>2
    <2>3. CASE disp = "clear"
      <3>1. stage = "EXEC"
        BY <2>3 DEF TokenInv, TokenStage, Staged, DispHasToken
      <3> QED
        BY <1>1, <3>1
    <2> QED
      BY <2>1, <2>2, <2>3
  <1>3. ASSUME NEW w \in Workers, WorkerStep(w) PROVE EvictInv'
    <2>1. UNCHANGED has_exec
      BY <1>3 DEF WorkerStep, Worker, WorkerTake, WorkerSleep, WorkerExit, WorkerReport,
         slotVars
    <2>2. CASE WorkerTake(w)
      <3>1. disp \in {"await", "sleep_done"}
        BY <2>2, StartsSlot DEF WorkerTake, PipelineInv, Busy
      <3>2. stage = "EXEC"
        BY <3>1 DEF TokenInv, TokenStage, Staged, DispHasToken
      <3> QED
        BY <1>1, <2>1, <3>2
    <2>3. CASE UNCHANGED runs
      BY <1>1, <2>1, <2>3
    <2> QED
      BY <1>3, <2>2, <2>3 DEF WorkerStep, Worker, WorkerSleep, WorkerExit, WorkerReport
  <1> QED
    BY <1>2, <1>3

LEMMA EvictStep ==
  ASSUME TypeInv, Justified, PipelineInv, IdInv, TokenInv, EvictInv, [UndisturbedNext]_vars
  PROVE  EvictInv'
  <1>1. CASE Inject
    BY <1>1 DEF Inject, qks_inject_event, slotVars, initVars, schedVars, workerVars, EvictInv
  <1>2. CASE CallersExit \/ TimerFires \/ Main \/ UNCHANGED vars
    <2>1. /\ UNCHANGED <<has_exec, exec_event, stage, sched, runs>>
          /\ UNCHANGED <<init, th_init>> \/ init' = "none" \/ (th_init # "held" /\ UNCHANGED init)
      BY <1>2 DEF CallersExit, TimerFires, Main, MainSeesStop, MainStopAll, MainWake,
         MainJoinScheduler, MainJoinCallers, MainStopExec, MainStopWorkers, MainJoinExec,
         MainKillInit, qks_init_master_kill_current, vars, slotVars, initVars, schedVars,
         workerVars
    <2> QED
      BY <2>1 DEF EvictInv
  <1>3. CASE SchedulerStep
    BY <1>3, EvictScheduler
  <1>4. CASE InitStep /\ ~Overtaken
    BY <1>4, EvictInit
  <1>5. CASE DispatcherStep \/ \E w \in Workers : WorkerStep(w)
    BY <1>5, EvictExecution
  <1> QED
    BY <1>1, <1>2, <1>3, <1>4, <1>5 DEF UndisturbedNext, Terminated

-----------------------------------------------------------------------------
(* The theorems. *)

PipelineFacts == TypeInv /\ Justified /\ PipelineInv /\ IdInv /\ TokenInv /\ EvictInv

LEMMA PipelineStart == Init => IdInv /\ TokenInv /\ EvictInv
  <1> SUFFICES ASSUME Init PROVE IdInv /\ TokenInv /\ EvictInv
    OBVIOUS
  <1>1. /\ InFifo = {} /\ wait_heap = {} /\ chosen = NoEvent /\ exec_event = NoEvent
        /\ Waiting = {} /\ Len(fifo) = 0 /\ sched = "boot" /\ has_exec = 0
        /\ hard_blocking = 0 /\ seq_counter = 0
    BY DEF Init, qks_queue_init, SchedInit, InFifo, Waiting
  <1>2. /\ init = "none" /\ wake = 0 /\ disp = "idle" /\ worker_done = 0
        /\ \A i \in Ids : runs[i] = 0
        /\ \A w \in Workers : worker[w] = "sleep" /\ worker_wake[w] = 0
    BY DEF Init, ExecInit, InitInit
  <1>3. EvictInv
    BY <1>1, <1>2 DEF EvictInv
  <1>4. IdInv
    BY <1>1, <1>2 DEF IdInv
  <1>5. TokenInv
    BY <1>1, <1>2 DEF TokenInv, OneToken, TokenEvent, TokenStage, Staged, Blocking, TokenRuns,
       InitHasToken, SchedHasToken, DispHasToken
  <1> QED
    BY <1>3, <1>4, <1>5

LEMMA PipelineStep ==
  ASSUME TypeInv, Justified, PipelineInv, IdInv, TokenInv, EvictInv, [UndisturbedNext]_vars
  PROVE  (IdInv /\ TokenInv /\ EvictInv)'
  <1>1. [Next]_vars
    BY DEF UndisturbedNext, Next
  <1> QED
    BY <1>1, IdStep, TokenStep, EvictStep

LEMMA IsUndisturbed == UndisturbedSpec => Spec
  <1>1. [UndisturbedNext]_vars => [Next]_vars
    BY DEF UndisturbedNext, Next
  <1> QED
    BY <1>1, PTL DEF UndisturbedSpec, Spec

LEMMA PipelineAlways == UndisturbedSpec => []PipelineFacts
  <1>1. Init => IdInv /\ TokenInv /\ EvictInv
    BY PipelineStart
  <1>2. TypeInv /\ Justified /\ PipelineInv /\ (IdInv /\ TokenInv /\ EvictInv)
        /\ [UndisturbedNext]_vars => (IdInv /\ TokenInv /\ EvictInv)'
    BY PipelineStep
  <1> QED
    BY <1>1, <1>2, IsUndisturbed, TypeInvariant, JustifiedAlways, PipeAlways, PTL
       DEF UndisturbedSpec, PipelineFacts

\* Unless the race strikes, a completion never frees the slot of another
\* event: for any workload and any number of events, what a worker executes
\* before the stop is what the slot holds, in stage EXEC and under a hard
\* block, whatever was preempted on the way.
THEOREM ExecutionMatchesSlot == UndisturbedSpec => []ExecMatchesSlot
  <1>1. PipelineFacts => ExecMatchesSlot
    <2> SUFFICES ASSUME PipelineFacts, NEW w \in Workers, Executing(w), stop = 0
                 PROVE  /\ has_exec = 1 /\ hard_blocking = 1
                        /\ stage = "EXEC" /\ exec_event.type = w
      BY DEF ExecMatchesSlot
    <2>1. disp \in {"await", "sleep_done"} /\ disp_ev.type = w
      BY DEF PipelineFacts, PipelineInv, Busy, Executing
    <2> QED
      BY <2>1 DEF PipelineFacts, TokenInv, OneToken, TokenEvent, TokenStage, Staged,
         Blocking, DispHasToken
  <1> QED
    BY <1>1, PipelineAlways, PTL

\* No event is started twice, at a stop either: the one right to go on with
\* an event passes from thread to thread and none of them keeps a copy.
THEOREM StartedAtMostOnce == UndisturbedSpec => []AtMostOnce
  <1>1. PipelineFacts => AtMostOnce
    BY DEF PipelineFacts, IdInv, AtMostOnce
  <1> QED
    BY <1>1, PipelineAlways, PTL

\* The hard block, which the init thread sets in a critical section of its
\* own, always finds the slot occupied and is lifted with it.
THEOREM HardBlockHasOwner == UndisturbedSpec => []HardBlockOwned
  <1>1. PipelineFacts => HardBlockOwned
    BY DEF PipelineFacts, TokenInv, TokenStage, HardBlockOwned
  <1> QED
    BY <1>1, PipelineAlways, PTL

-----------------------------------------------------------------------------
(* Refinement. *)


\* Tickets tell waiting events apart.
LEMMA TicketsWithout ==
  ASSUME IdInv, NEW x \in Waiting
  PROVE  {Ticket(e) : e \in Waiting \ {x}} = {Ticket(e) : e \in Waiting} \ {Ticket(x)}
  <1>1. \A e \in Waiting : Ticket(e) = Ticket(x) => e = x
    BY DEF IdInv, Ticket
  <1> QED
    BY <1>1

lifeVars == <<seq_counter, {Ticket(e) : e \in Waiting},
              IF has_exec = 1 THEN {Ticket(exec_event)} ELSE {}, runs, (stop = 1)>>

LEMMA LifeArrives ==
  ASSUME TypeInv, IdInv, NEW e \in Events, Arrives(e)
  PROVE  Life!Inject(e.dir) /\ e.dir \in {"MASTER", "SLAVE"}
  <1>1. Waiting' = Waiting \union {e}
    BY IdArrives
  <1>2. Ticket(e) = [id |-> seq_counter', dir |-> e.dir] /\ seq_counter' = seq_counter + 1
        /\ UNCHANGED <<has_exec, exec_event, runs, stop>>
    BY DEF Arrives, Ticket
  <1>3. {Ticket(x) : x \in Waiting}' = {Ticket(x) : x \in Waiting} \union {Ticket(e)}
    BY <1>1 DEF Ticket
  <1>4. (IF has_exec = 1 THEN {Ticket(exec_event)} ELSE {})'
          = IF has_exec = 1 THEN {Ticket(exec_event)} ELSE {}
    BY <1>2 DEF Ticket
  <1> QED
    BY <1>2, <1>3, <1>4 DEF Life!Inject, Events, Directions

LEMMA LifeLaysAside ==
  ASSUME TypeInv, IdInv, LaysAside
  PROVE  UNCHANGED lifeVars \/ \E t \in {Ticket(e) : e \in Waiting} : Life!Drop(t)
  <1>1. /\ Waiting' = IF Head(fifo).dir = "MASTER" THEN Waiting ELSE Waiting \ {Head(fifo)}
        /\ Head(fifo) \in Waiting /\ Head(fifo) \in Events
    BY IdLaysAside
  <1>2. UNCHANGED <<seq_counter, has_exec, exec_event, runs, stop>>
    BY DEF LaysAside
  <1>3. CASE Head(fifo).dir = "MASTER"
    BY <1>1, <1>2, <1>3 DEF lifeVars, Ticket
  <1>4. CASE Head(fifo).dir = "SLAVE"
    <2> DEFINE t == Ticket(Head(fifo))
    <2>1. t.dir = "SLAVE" /\ t \in {Ticket(e) : e \in Waiting}
      BY <1>1, <1>4 DEF Ticket
    <2>2. {Ticket(e) : e \in Waiting}' = {Ticket(e) : e \in Waiting} \ {t}
      BY <1>1, <1>4, TicketsWithout DEF Ticket
    <2>3. Life!Drop(t)
      BY <1>2, <2>1, <2>2 DEF Life!Drop, Ticket
    <2> QED
      BY <2>1, <2>3
  <1> QED
    BY <1>1, <1>3, <1>4 DEF Events, Directions

LEMMA LifeFills ==
  ASSUME TypeInv, Justified, IdInv, Fills
  PROVE  \E t \in {Ticket(e) : e \in Waiting} : Life!Enter(t)
  <1> DEFINE t == Ticket(chosen)
  <1>1. /\ Waiting' = Waiting \ {chosen} /\ chosen \in Waiting
        /\ exec_event'.id = chosen.id /\ exec_event'.dir = chosen.dir
    BY IdFills
  <1>2. has_exec = 0 /\ has_exec' = 1 /\ UNCHANGED <<seq_counter, runs, stop>>
    BY DEF Justified, Fills, InHands
  <1>3. {Ticket(e) : e \in Waiting}' = {Ticket(e) : e \in Waiting} \ {t}
    BY <1>1, TicketsWithout DEF Ticket
  <1>4. /\ (IF has_exec = 1 THEN {Ticket(exec_event)} ELSE {}) = {}
        /\ (IF has_exec = 1 THEN {Ticket(exec_event)} ELSE {})' = {t}
    BY <1>1, <1>2 DEF Ticket
  <1>5. Life!Enter(t)
    BY <1>2, <1>3, <1>4 DEF Life!Enter
  <1> QED
    BY <1>1, <1>5

LEMMA LifeStarts ==
  ASSUME PipelineFacts, NEW w \in Workers, Starts(w)
  PROVE  \E t \in IF has_exec = 1 THEN {Ticket(exec_event)} ELSE {} : Life!Start(t)
  <1> DEFINE t == Ticket(exec_event)
  <1>1. has_exec = 1 /\ runs[exec_event.id] = 0 /\ runs' = [runs EXCEPT ![exec_event.id] = 1]
    BY StartsSlot DEF PipelineFacts, Starts
  <1>2. Waiting' = Waiting /\ UNCHANGED <<seq_counter, has_exec, exec_event, stop>>
    BY IdStarts DEF PipelineFacts, Starts
  <1>3. UNCHANGED <<seq_counter, {Ticket(e) : e \in Waiting},
                    IF has_exec = 1 THEN {Ticket(exec_event)} ELSE {}, (stop = 1)>>
    BY <1>2 DEF Ticket
  <1>4. t.id = exec_event.id /\ t \in IF has_exec = 1 THEN {Ticket(exec_event)} ELSE {}
    BY <1>1 DEF Ticket
  <1>5. Life!Start(t)
    BY <1>1, <1>3, <1>4 DEF Life!Start
  <1> QED
    BY <1>4, <1>5

LEMMA LifeYields ==
  ASSUME PipelineFacts, Yields
  PROVE  \E t \in IF has_exec = 1 THEN {Ticket(exec_event)} ELSE {} : Life!Yield(t)
  <1> DEFINE t == Ticket(exec_event)
  <1>1. /\ Waiting' = Waiting \union {exec_event}
        /\ has_exec = 1 /\ runs[exec_event.id] = 0
    BY IdYields DEF PipelineFacts
  <1>2. has_exec' = 0 /\ UNCHANGED <<seq_counter, runs, stop>>
    BY DEF Yields
  <1>3. {Ticket(e) : e \in Waiting}' = {Ticket(e) : e \in Waiting} \union {t}
    BY <1>1 DEF Ticket
  <1>4. /\ t.id = exec_event.id /\ t \in IF has_exec = 1 THEN {Ticket(exec_event)} ELSE {}
        /\ (IF has_exec = 1 THEN {Ticket(exec_event)} ELSE {})' = {}
    BY <1>1, <1>2 DEF Ticket
  <1>5. Life!Yield(t)
    BY <1>1, <1>2, <1>3, <1>4 DEF Life!Yield
  <1> QED
    BY <1>4, <1>5

LEMMA LifeFrees ==
  ASSUME PipelineFacts, Frees
  PROVE  \E t \in IF has_exec = 1 THEN {Ticket(exec_event)} ELSE {} : Life!Leave(t)
  <1> DEFINE t == Ticket(exec_event)
  <1>1. /\ has_exec = 1 /\ has_exec' = 0
        /\ UNCHANGED <<seq_counter, exec_event, runs, stop>>
    BY DEF Frees, PipelineFacts, TokenInv, OneToken, DispHasToken
  <1>2. runs[exec_event.id] = 1 \/ stop = 1
    BY DEF Frees, PipelineFacts, TokenInv, TokenRuns, TypeInv, TypeOK, ExecTypeOK
  <1>3. Waiting' = Waiting
    BY IdStays DEF PipelineFacts
  <1>4. UNCHANGED <<seq_counter, {Ticket(e) : e \in Waiting}, runs, (stop = 1)>>
    BY <1>1, <1>3 DEF Ticket
  <1>5. /\ t.id = exec_event.id /\ t \in IF has_exec = 1 THEN {Ticket(exec_event)} ELSE {}
        /\ (IF has_exec = 1 THEN {Ticket(exec_event)} ELSE {})' = {}
    BY <1>1 DEF Ticket
  <1>6. Life!Leave(t)
    BY <1>2, <1>4, <1>5 DEF Life!Leave
  <1> QED
    BY <1>5, <1>6

\* The scheduler's moves among the queues, and the steps that change no
\* place: nothing, or a change of the stop flag.
LEMMA LifeStays ==
  ASSUME TypeInv, IdInv, Stays \/ TakesHead \/ \E h \in wait_heap : TakesTop(h)
  PROVE  UNCHANGED lifeVars \/ Life!Stop
  <1>1. Waiting' = Waiting /\ UNCHANGED <<seq_counter, has_exec, exec_event, runs>>
    BY IdStays, IdTakes DEF Stays, TakesHead, TakesTop
  <1>2. UNCHANGED <<seq_counter, {Ticket(e) : e \in Waiting},
                    IF has_exec = 1 THEN {Ticket(exec_event)} ELSE {}, runs>>
    BY <1>1 DEF Ticket
  <1> QED
    BY <1>2 DEF Life!Stop

LEMMA LifeStep ==
  ASSUME PipelineFacts, [Next]_vars
  PROVE  Life!Next \/ UNCHANGED lifeVars
  <1> USE DEF PipelineFacts, Life!Next
  <1>1. ASSUME NEW e \in Events, Arrives(e) PROVE Life!Next
    BY <1>1, LifeArrives
  <1>2. CASE LaysAside
    BY <1>2, LifeLaysAside
  <1>3. CASE Fills
    BY <1>3, LifeFills
  <1>4. ASSUME NEW w \in Workers, Starts(w) PROVE Life!Next
    BY <1>4, LifeStarts
  <1>5. CASE Frees
    BY <1>5, LifeFrees
  <1>6. CASE Stays \/ TakesHead \/ \E h \in wait_heap : TakesTop(h)
    BY <1>6, LifeStays
  <1>7. CASE Yields
    BY <1>7, LifeYields
  <1> HIDE DEF Life!Next
  <1> QED
    BY <1>1, <1>2, <1>3, <1>4, <1>5, <1>6, <1>7, NextSplit, InjectPlaces, SchedulerPlaces, OtherPlaces

\* Unless the race strikes, the five kinds of threads together implement the
\* life of an event: whoever injects, whatever the interleaving, and when the
\* program is stopped or a thread cannot be created as well.
THEOREM EventsLive == UndisturbedSpec => ImplementsLife
  <1>1. Init => Life!Init
    <2> SUFFICES ASSUME Init PROVE Life!Init
      OBVIOUS
    <2>1. Waiting = {} /\ has_exec = 0 /\ seq_counter = 0 /\ stop = 0
          /\ runs = [i \in Ids |-> 0]
      BY DEF Init, qks_queue_init, ExecInit, SchedInit, InFifo, Waiting
    <2> QED
      BY <2>1 DEF Life!Init
  <1>2. PipelineFacts /\ [Next]_vars => [Life!Next]_lifeVars
    BY LifeStep
  <1> QED
    BY <1>1, <1>2, PipelineAlways, IsUndisturbed, PTL DEF Spec, ImplementsLife, Life!Spec, lifeVars

-----------------------------------------------------------------------------
(* Action properties. *)

\* An event in stage EXEC leaves the slot only through the dispatcher, after
\* a worker has started it.
THEOREM ExecutionIsNotInterrupted == UndisturbedSpec => ExecNotInterrupted
  <1> DEFINE Kept == has_exec = 1 /\ stage = "EXEC" /\ stop = 0
                     /\ (has_exec' = 0 \/ exec_event' # exec_event)
                     => disp = "clear" /\ runs[exec_event.id] >= 1
  <1>1. PipelineFacts /\ [Next]_vars => Kept
    <2> SUFFICES ASSUME PipelineFacts, [Next]_vars, has_exec = 1, stage = "EXEC", stop = 0,
                        has_exec' = 0 \/ exec_event' # exec_event
                 PROVE  disp = "clear" /\ runs[exec_event.id] >= 1
      OBVIOUS
    <2> USE DEF PipelineFacts
    <2>1. ~Fills
      BY DEF Justified, Fills, InHands
    <2>2. ~Yields
      BY DEF Yields, EvictInv
    <2>3. Frees
      BY <2>1, <2>2, NextSplit, InjectPlaces, SchedulerPlaces, OtherPlaces DEF Arrives, TakesHead,
         TakesTop, LaysAside, Starts, Stays
    <2>4. disp = "clear" /\ runs[exec_event.id] = 1
      BY <2>3 DEF Frees, TokenInv, TokenRuns
    <2> QED
      BY <2>4
  <1>2. PipelineFacts /\ [Next]_vars => [Kept]_vars
    BY <1>1
  <1> QED
    BY <1>2, PipelineAlways, IsUndisturbed, PTL DEF Spec, ExecNotInterrupted

\* A MASTER event is never dropped.
THEOREM MastersAreNeverDropped == UndisturbedSpec => MasterNeverDropped
  <1> DEFINE Kept == \A e \in Held \ Held' :
                        e.dir = "MASTER" /\ stop = 0 => runs[e.id] >= 1
  <1>1. PipelineFacts /\ HeapInv /\ [Next]_vars => Kept
    <2> SUFFICES ASSUME PipelineFacts, HeapInv, [Next]_vars, NEW e \in Held \ Held',
                        e.dir = "MASTER", stop = 0
                 PROVE  runs[e.id] >= 1
      OBVIOUS
    <2> USE DEF PipelineFacts
    <2>1. ASSUME NEW x \in Events, Arrives(x) PROVE FALSE
      BY <2>1, IdArrives DEF Held, Arrives
    <2>2. ~LaysAside
      BY IdLaysAside DEF Held, LaysAside
    <2>3. ~Fills
      <3> SUFFICES ASSUME Fills PROVE FALSE
        OBVIOUS
      <3>1. Waiting' = Waiting \ {chosen} /\ has_exec' = 1 /\ has_exec = 0
        BY IdFills DEF Fills, Justified, InHands
      <3>2. e = chosen /\ exec_event' # chosen
        BY <3>1 DEF Held
      <3>3. sched = "accept"
        BY <3>2 DEF Fills, InHands
      <3> QED
        BY <3>2, <3>3 DEF HeapInv
    <2>4. ~(Stays \/ TakesHead \/ \E h \in wait_heap : TakesTop(h))
      BY IdStays, IdTakes DEF Held, Stays, TakesHead, TakesTop
    <2>5. ASSUME NEW w \in Workers, Starts(w) PROVE FALSE
      BY <2>5, IdStarts DEF Held, Starts
    <2>6. ~Yields
      BY IdYields DEF Held, Yields
    <2>7. Frees
      BY <2>1, <2>2, <2>3, <2>4, <2>5, <2>6, NextSplit, InjectPlaces, SchedulerPlaces, OtherPlaces
    <2>8. e = exec_event /\ disp = "clear"
      BY <2>7, IdStays DEF Held, Frees
    <2>9. runs[e.id] = 1
      BY <2>8 DEF TokenInv, TokenRuns
    <2> QED
      BY <2>9
  <1>2. PipelineFacts /\ HeapInv /\ [Next]_vars => [Kept]_vars
    BY <1>1
  <1> QED
    BY <1>2, PipelineAlways, HeapAlways, IsUndisturbed, PTL DEF Spec, MasterNeverDropped

-----------------------------------------------------------------------------
(* Where nothing preempts, the race cannot strike. *)

\* What is in the slot, or was last, may be injected and is not preempted.
LEMMA NoPreemption ==
  ASSUME NothingPreempts, TypeInv, GuardInv, KindInv
  PROVE  ~SchedArrivePreempt
  <1> SUFFICES ASSUME SchedArrivePreempt PROVE FALSE
    OBVIOUS
  <1>1. /\ sched = "arrive" /\ fifo # <<>> /\ exec_event.dir = "MASTER"
        /\ Priority(Head(fifo)) < guard_pri
    BY DEF SchedArrivePreempt, AllowPreempt, can_preempt
  <1>2. guard_pri = Priority(exec_event)
    BY <1>1, Levels DEF GuardInv
  <1>3. Head(fifo) \in InFifo
    BY <1>1, IntakeShrinks DEF TypeInv, TypeOK, QueueTypeOK, InFifo
  <1>4. exec_event # NoEvent
    BY <1>1 DEF NoEvent
  <1>5. Injectable(Head(fifo)) /\ Injectable(exec_event)
    BY <1>3, <1>4 DEF KindInv, Waiting
  <1>6. Priority(exec_event) <= Priority(Head(fifo))
    BY <1>1, <1>5 DEF NothingPreempts, Injectable, Priority
  <1> QED
    BY <1>1, <1>2, <1>6, Levels

LEMMA KindStep ==
  ASSUME NothingPreempts, TypeInv, GuardInv, IdInv, KindInv, [Next]_vars
  PROVE  KindInv'
  <1> USE DEF KindInv, Waiting
  <1>0. Distinct(fifo)
    BY DEF IdInv, Distinct
  <1>1. ASSUME NEW e \in Events, Arrives(e) PROVE KindInv'
    <2>1. InFifo' = InFifo \union {e}
      BY <1>1, FifoGrows DEF Arrives
    <2>2. UNCHANGED <<wait_heap, chosen, exec_event, sched>> /\ Injectable(e)
      BY <1>1 DEF Arrives
    <2> QED
      BY <2>1, <2>2 DEF Injectable
  <1>2. CASE TakesHead
    BY <1>0, <1>2, FifoShrinks DEF TakesHead, InHands, Injectable
  <1>3. ASSUME NEW h \in wait_heap, TakesTop(h) PROVE KindInv'
    BY <1>3 DEF TakesTop, InHands, InFifo, Injectable
  <1>4. CASE LaysAside
    BY <1>0, <1>4, FifoShrinks DEF LaysAside, Injectable
  <1>5. CASE Fills
    <2>1. Injectable(chosen)
      BY <1>5 DEF IdInv, Fills, InHands
    <2>2. chosen \in Events
      BY <1>5 DEF Fills, InHands, TypeInv, SchedHolds
    <2>3. exec_event'.type = chosen.type /\ exec_event'.dir = chosen.dir
      BY <1>5, <2>2 DEF Fills, Events
    <2>4. Injectable(exec_event')
      BY <2>1, <2>3 DEF Injectable
    <2>5. UNCHANGED <<fifo, wait_heap>> /\ chosen' = NoEvent /\ sched' \notin {"kill", "preempt"}
      BY <1>5 DEF Fills
    <2> QED
      BY <2>4, <2>5 DEF InFifo, Injectable
  <1>6. CASE Stays
    BY <1>6, NoPreemption DEF Stays, InFifo, Injectable
  <1>7. CASE Frees \/ \E w \in Workers : Starts(w)
    BY <1>7 DEF Frees, Starts, InFifo, Injectable
  <1>8. ~Yields
    BY DEF Yields
  <1> QED
    BY <1>1, <1>2, <1>3, <1>4, <1>5, <1>6, <1>7, <1>8, NextSplit, InjectPlaces,
       SchedulerPlaces, OtherPlaces

\* As in role A: where no event is more urgent than a MASTER event, every
\* behaviour of the program is undisturbed, and all of the above holds of it.
THEOREM RaceNeedsPreemption == ASSUME NothingPreempts PROVE Spec => UndisturbedSpec
  <1> DEFINE Facts == IdInv /\ TokenInv /\ EvictInv /\ KindInv
  <1>1. Init => Facts
    <2> SUFFICES ASSUME Init PROVE KindInv
      BY PipelineStart
    <2>1. /\ InFifo = {} /\ wait_heap = {} /\ chosen = NoEvent /\ exec_event = NoEvent
          /\ sched = "boot"
      BY DEF Init, qks_queue_init, SchedInit, InFifo
    <2> QED
      BY <2>1 DEF KindInv, Waiting
  <1>2. KindInv => ~Overtaken
    BY DEF KindInv, Overtaken
  <1>3. Facts /\ [Next]_vars => [UndisturbedNext]_vars
    BY <1>2 DEF UndisturbedNext, Next
  <1>4. TypeInv /\ Justified /\ GuardInv /\ PipelineInv /\ Facts /\ [Next]_vars => Facts'
    <2> SUFFICES ASSUME TypeInv, Justified, GuardInv, PipelineInv, Facts, [Next]_vars
                 PROVE  Facts'
      OBVIOUS
    <2>1. [UndisturbedNext]_vars
      BY <1>3
    <2>2. (IdInv /\ TokenInv /\ EvictInv)'
      BY <2>1, PipelineStep
    <2>3. KindInv'
      BY KindStep
    <2> QED
      BY <2>2, <2>3
  <1> QED
    BY <1>1, <1>3, <1>4, TypeInvariant, JustifiedAlways, GuardAlways, PipeAlways, PTL
       DEF Spec, UndisturbedSpec

=============================================================================
