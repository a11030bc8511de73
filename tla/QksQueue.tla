------------------------------ MODULE QksQueue ------------------------------
(***************************************************************************)
(* qks_queue_t: the FIFO intake, the wait heap, the single execution slot  *)
(* with its guard, the mutex and the condition variable.                   *)
(*                                                                         *)
(* Each operation below is the body of one critical section under q->mu.   *)
(* The critical sections never block, so a caller whose thread cannot be   *)
(* killed runs one in a single step that needs mu to be free.  The master  *)
(* init thread can be killed anywhere, so it takes mu in a step of its own *)
(* (see QksSched) and mu records whether that thread holds it.             *)
(*                                                                         *)
(* The condition variable is the event object of src/core/os.c: set by     *)
(* signal and broadcast alike, sticky until its one waiter resets it.      *)
(***************************************************************************)
EXTENDS QksEvent

CONSTANTS
    Workload,    \* the <<type, direction>> pairs that callers may inject
    MaxEvents    \* bound: how many events are injected in a behaviour

ASSUME WorkloadAssumption == Workload \subseteq EventTypes \X Directions
ASSUME MaxEventsAssumption == MaxEvents \in Nat

(***************************************************************************)
(* An event.  seq is the number the queue stamps on it when it is first    *)
(* queued.  id is an auxiliary copy of that number which no operation      *)
(* touches: the code rebuilds a SLAVE event with seq = 0 on acceptance, so *)
(* seq alone does not say which event holds the execution slot.  The       *)
(* priority is a function of the type and is not stored.                   *)
(***************************************************************************)
Ids    == 1 .. MaxEvents
Events == [id : Ids, seq : Nat, type : EventTypes, dir : Directions]

VARIABLES
    fifo,            \* the FIFO intake
    wait_heap,       \* the events in the wait heap; its order is Before
    has_exec,        \* 1 iff the execution slot is occupied
    exec_event,      \* the slot; clearing it leaves the old event in place
    stage,           \* exec_event.stage
    hard_blocking,   \* 1 iff nothing may enter the slot
    guard_priority,  \* priority an event must beat to preempt
    seq_counter,     \* last sequence number handed out
    mu,              \* "free", or "init" while the init thread holds q->mu
    cv               \* 1 iff the event object behind q->cv is set

slotVars  == <<has_exec, exec_event, stage, hard_blocking, guard_priority>>
queueVars == <<fifo, wait_heap, seq_counter>>

MuFree == mu = "free"

qks_queue_init ==
    /\ fifo = <<>>
    /\ wait_heap = {}
    /\ has_exec = 0
    /\ exec_event = NoEvent
    /\ stage = "PENDING"
    /\ hard_blocking = 0
    /\ guard_priority = 0
    /\ seq_counter = 0
    /\ mu = "free"
    /\ cv = 0

\* A bug: the event is queued but the scheduler is not signalled.
push_ready_NoSignal(t, d) ==
    /\ seq_counter' = seq_counter + 1
    /\ fifo' = Append(fifo, [id |-> seq_counter', seq |-> seq_counter',
                             type |-> t, dir |-> d])
    /\ UNCHANGED <<wait_heap, cv>>

\* Stamp a sequence number, append to the intake, signal the scheduler.
push_ready(t, d) ==
    /\ seq_counter' = seq_counter + 1
    /\ fifo' = Append(fifo, [id |-> seq_counter', seq |-> seq_counter',
                             type |-> t, dir |-> d])
    /\ cv' = 1
    /\ UNCHANGED wait_heap

\* A bug: the heap is not put in order again after a pop.
IsHeapTop_NoSift(e) == e \in wait_heap

\* The event the wait heap hands out next.
IsHeapTop(e) == IsTop(wait_heap, e)

set_exec_slot(e, st, hard) ==
    /\ exec_event' = e
    /\ stage' = st
    /\ has_exec' = 1
    /\ hard_blocking' = hard
    /\ guard_priority' = Priority(e)

\* A bug: the slot is freed but the hard block stays on.
clear_exec_slot_KeepsBlock ==
    /\ has_exec' = 0
    /\ guard_priority' = 0
    /\ UNCHANGED <<exec_event, stage, hard_blocking>>

clear_exec_slot ==
    /\ has_exec' = 0
    /\ hard_blocking' = 0
    /\ guard_priority' = 0
    /\ UNCHANGED <<exec_event, stage>>

set_blocking(hard) ==
    /\ hard_blocking' = hard
    /\ UNCHANGED <<has_exec, exec_event, stage, guard_priority>>

\* The stage of an empty slot is left alone.
update_stage(st) ==
    /\ stage' = IF has_exec = 1 THEN st ELSE stage
    /\ UNCHANGED <<has_exec, exec_event, hard_blocking, guard_priority>>

=============================================================================
