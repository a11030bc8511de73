# A TLA+ verification of QKeySys

QKeySys is the C skeleton of a security platform for a gateway (role A) and its
storage cabinets (role B): events such as device authentication, clock
synchronisation and key refill are injected into a queue, a scheduler thread
admits them one at a time into an *execution slot*, an initialisation handshake
is run, and a dispatcher hands the event to a worker thread. A key pool with a
background poll thread supplies keys. This directory models its two concurrent
subsystems, the event scheduler and the key pool, and the two data structures the
scheduler stands on, its wait heap and its condition variables. It checks them with
TLC and proves safety and refinement theorems about them with TLAPS. All paths below
are relative to the repository root, called `src/` in the manifest `PROJECT.json`.

## 1. Inventory

| component | state it keeps | operations | correct when |
|---|---|---|---|
| event queue `src/core/queue.c`, `event.h` | FIFO intake, binary heap of waiting MASTER events, one execution slot (event, stage, hard block, guard priority), sequence counter, mutex `mu`, condition variable `cv` | init, push_ready, pop_ready, heap push/peek/pop, set/clear_exec_slot, set_blocking, update_stage, get_guard, wait_nonempty, wait_for_fifo, wake | order by priority then FIFO; the guard is the slot's priority; a hard block belongs to an occupied slot |
| scheduler `src/core/scheduler.c` | locals only: where it is, the chosen event, the guard it read | the loop: wait, choose, preempt, queue or drop, install | no event lost, dropped or overtaken that must not be; only strictly higher priority preempts, only in stage INIT; never sleeps while there is something to do |
| master initialisation `src/core/init_master.c`, `src/threads/init_master_mgr.c` | one thread, its handle, `init_master_running` | spawn, kill_current; the thread: INIT_REQ, wait for ACK, ACT, stage EXEC, hard block, signal | every slot in stage INIT has its thread; killing it does no harm |
| slave initialisation `src/core/init_slave.c` | none (runs in the scheduler thread) | accept_and_claim, on_act | a SLAVE event claims the slot under a hard block |
| execution threads `src/core/exec.c` | one-place mailbox `exec_sig`, completion flag, one signal per worker | exec_signal, dispatcher loop, six worker loops, start, stop | each event is executed once, alone, and its own completion frees the slot |
| injection `src/core/inject.c`, simulator `src/sim/injector.c` | the simulator's cycle | inject_event by any thread | a MASTER event is never dropped |
| start-up and shutdown `src/threads/threads_all.c`, `src/app/main.c` | `stop`, thread handles | start_all, stop_all, timer | every thread is woken, ends, is joined |
| key pool `src/modules/keypool/keypool.c`, `KeyManager.c` | `init_called`, the manager with its mutex, flags, key list and poll thread | update (refill), execute (check and encrypt/decrypt), Init, Stop, CheckAllKeys, AddExternalKey, SimulateKeyExpiry | initialised once before any use; enough valid keys; keys age forward only; the stop returns |
| keys, list, gateway, clock `KeyInfo.c`, `KeyConfig.c`, `GatewayComm.c`, `NTPClient.c` | the clock `g_simulated_time`; the list's block, size and capacity | expiry and deletion time, request of new keys, list operations, clock reading | the list's capacity is true to its block, whichever allocation fails; the clock follows time |
| OS wrappers `src/core/os.c` | per mutex and condition variable | lock, wait, signal, broadcast, thread create, join, kill | no lost wake-up, although a wait on Windows is four steps |
| configuration, logging, listeners, clock thread, radio, auth, crypto, clock sync, key distribution | none that matters to the others | print, sleep, return | |

Interaction: callers push into the queue and signal `cv`. The scheduler waits on
`cv`, fills the slot, spawns (or kills) the master init thread or runs the slave
calls itself. Either path ends in `qks_exec_signal`, which fills the mailbox; the
dispatcher takes it, wakes the worker of the event's type, waits for
`worker_done`, frees the slot and wakes the scheduler. Workers call the key pool,
whose state is disjoint from the scheduler's, which is why the two are modelled
separately. `main` waits for `stop`, which the exit timer sets, and joins everybody.

What is hard in this code: variables read without their lock (`stop`,
`has_exec`, the slot's `stage` and `type`, `init_called`); decisions taken on a
copy of the guard; a thread that is killed at an arbitrary instruction; waits
whose condition does not cover everything that they are signalled for; one-place
mailboxes and flags that carry over from one event to the next; a shutdown that
sets a flag without the locks its readers sleep under; a lazily started
singleton; results of allocations and of thread creation that are not looked at; and
key statuses and ids computed from a clock that can stand still, is read without a lock,
and may move between two readings of one critical section. The list
with line numbers is `hazards` in `PROJECT.json`.

## 2. Modules

| module | models | state and actions |
|---|---|---|
| `QksEvent` | `event.h`, `priority_of`, `cmp` | priorities, the order `Before`, "the first of a set" (`IsTop`) |
| `QksQueue` | `queue.c` | the queue's fields by their C names; one operator per critical section |
| `QksExec` | `exec.c` | dispatcher (`Disp...`), workers (`Worker...`), mailbox |
| `QksInitMaster` | `init_master.c`, `init_master_mgr.c` | spawn, failing spawn, kill, and the thread's steps (`Init...`) |
| `QksSched` | `scheduler.c`, `init_slave.c` | the scheduler's loop (`Sched...`) |
| `QksSystem` | `main.c`, `threads_all.c`, `inject.c`, the simulator as a caller | composition: `Init`, `Next`, `Spec`, `Fairness`, `FairSpec` |
| `EventLife` | | abstract: what the scheduler promises about the life of an event |
| `QksProperties` | | type invariant, safety, action and liveness properties; the refinement mapping to `EventLife` |
| `QksInvariants` | | the inductive invariants of the proofs |
| `MCQks` | | the workloads of the runs |
| `WaitHeap` | the heap functions of `queue.c` | the array, its capacity, the sift loops one pass a step, growth and its failure; the mapping to `WaitSet` |
| `WaitSet` | | abstract: a set from which an event that no other precedes is taken |
| `MCHeap` | | seven events for TLC |
| `CondVar` | mutex and condition variable of `os.c`, the wait loops, the stop of `threads_all.c` | one waiter, any number of signallers, one stopper; one system call a step; the mapping to `Mailbox` |
| `Mailbox` | | abstract: one thread takes what others put in until it is stopped |
| `KeyList` | `KeyInfo.c`, list operations of `KeyManager.c`, `GatewayComm.c` | the growing array of keys; each operation that allocates is the set of its outcomes, each that reads the clock is given its readings in order |
| `KeyPool` | `keypool.c`, `KeyManager.c`, `NTPClient.c` | callers (`Client...`), the poll thread (`Poll...`), the clock and what successive readings of it may show (`Readings`), the test programs' calls |
| `KeyPoolProperties` | | its properties |
| `QksSystem_proofs`, `QksOrder_proofs`, `QksPipeline_proofs`, `WaitHeap_proofs`, `CondVar_proofs`, `KeyPool_proofs` | | theorems |
| `KeyList_proofs` | | lemmas about the operations on the list of keys |
| `Induction` | | induction and recursion over an initial segment of the numbers, as theorems about sets and functions |

Each of `QksEvent`, `QksQueue`, `QksExec`, `QksInitMaster`, `QksSched`, `QksSystem`
extends the one before it, as each C file calls the one before. There are three
refinements: `QksSystem` implements `EventLife` (unless the race of run `Interrupted` strikes), `WaitHeap`
implements `WaitSet`, `CondVar` implements `Mailbox`. The last two justify what
`QksQueue` and the wait loops of `QksSched` and `QksExec` abstract from. Definitions named
like `DispTake_KeepsWake`, commented "A bug:", are deliberate mutations of the
definition that follows them; no specification uses them. They serve to confirm
that the properties are able to fail.

### Grain and abstractions

* **A step is one critical section, or one unlocked read** of a variable that
  another thread writes. Two critical sections that the C code takes one after
  the other are two steps, with four exceptions in the scheduler's loop, where the order
  of what others do in between cannot matter. `SchedTop` reads `stop` and then `has_exec`: a stop that
  falls between the two is seen by the wait that follows. `SchedChoose` looks at FIFO and heap
  and then takes an event, `SchedArriveQueue` and `SchedPreempt` move one between FIFO and
  heap: only the scheduler takes events out of the FIFO and only it touches the heap, so all that
  others can do in between is to append to the FIFO, which is as good as appending afterwards;
  and nobody but the scheduler looks at the slot that `SchedPreempt` has cleared before it is filled
  again. Steps that only touch a thread's own data are merged
  with the one before. A mutex whose sections never block and whose owner cannot be
  killed needs no variable; `mu` and `exec_mu` exist because the *init thread* can
  be killed while it holds them, and have the value `"init"` only then.
* **Condition variables** in `QksSystem` are one bit each: set by signal and broadcast
  alike, sticky, reset when the one waiter wakes up. A wait loop tests its condition on
  entry and on every wake-up. `CondVar` shows why that is enough. There, leaving the
  mutex, waiting for the event object, resetting it and entering the mutex again are
  separate steps on Windows, and on POSIX a signal that finds nobody asleep is
  forgotten and a wait may return by itself; on both, no wake-up is lost and
  the waiter behaves like `Mailbox`. What the bit does not show are wake-ups without a
  reason, after which the loop tests its condition again and goes back to sleep, and
  an exit that comes earlier because `stop` was seen before the broadcast. All this
  holds for one waiter; with two, one waiter's reset could wipe out the other's
  broadcast, but no condition variable of the program has two.
* **The wait heap** in `QksQueue` is the set of its events; the one taken is any that
  no other precedes (`IsHeapTop`). `WaitHeap` is the array and implements that set,
  through the same operator `IsTop`. It also shows what the set leaves out: if the
  block cannot grow, the event is refused, nobody notices, and nothing else is harmed.
  `QksSystem` assumes that the heap can grow.
* **Creating the init thread may fail** (`SpawnCanFail`). Nobody looks at the result:
  the slot keeps an event in stage INIT without a thread until something preempts it
  or the program stops.
* **Events** carry an auxiliary `id`. The code rebuilds an accepted SLAVE event
  with `seq = 0`, so `seq` cannot identify it.
* **The roles.** A role never changes, so of the six workers only the three of the
  process's role are ever woken; a worker is named by its event type.
* **Workers start asleep.** Signals are sticky, so one that comes before a worker's
  first test has the same effect as one after it; this halves the state space.
* **Waiting for the ACK** and **the work of an event** are one step each of any length.
* **A key's value** is left out; its id is the triple (kind, time, number).
* **The key list** is the sequence of its keys, the capacity it believes in, and the
  size of the block it really has. `realloc` to the number of keys kept is three cases:
  it succeeds, it fails, or, for no keys at all, it frees the block and returns NULL.
  With `AllocCanFail`, every `malloc` and `realloc` may fail at every call.
* **Time** in the key pool: `wall` is the system's `time(NULL)` and is read only to
  start `clock`. A test may advance `clock` by a value of `Advances`. Advancing and
  reading take no lock, and a critical section of the key manager reads the clock many times: once for every
  key whose status it computes (`KeyManager.c:238`) and every key it requests
  (`GatewayComm.c:60`), twice for an external key (`KeyManager.c:281`, `:292`). Since nobody
  sees the list while the manager's mutex is held, such a section is still one step; but it
  is given a sequence of readings (`Readings`), in which up to `MaxOverlaps` advances fall between any two, and
  leaves the clock at the last.
* **The key pool's behaviours end when it first touches memory that is not its own**
  (`Defined`): the C program has undefined behaviour from there on. `FreedBuffer` exhibits it.
* **`KeyManager_Stop` and `KeyManager_SimulateKeyExpiry`** are called
  when no other call is in progress, which is how the test programs, their only callers, use
  them. `KeyManager_Reset`, which is part of the interface although nothing calls it yet, is
  modelled the same way; the poll thread goes on meanwhile.

## 3. Runs

Every run is exhaustive for its bounds.

| run | instance | shows |
|---|---|---|
| `Pipeline` | 3 events of any of the six kinds of both roles, preemption included but without its one race (`UndisturbedSpec`, see below), creation of init threads may fail; 1.3 million states | the pipeline slot - mailbox - worker stays in step: `ExecMatchesSlot`, `AtMostOnce`, `HardBlockOwned`, `DecidesOnSomething`, `ExecNotInterrupted`, `MasterNeverDropped`, `TypeOK`, and as a whole it implements `EventLife` (`ImplementsLife`) |
| `Preemption` | 3 events: two MASTER kinds of different priority and a SLAVE kind; 3.8 million states | `SamePriorityFifo`, `HeapNeverBeatsInit`, `PreemptOnlyByHigher`, `SlaveNeverWaits`, `OneWorker`, `InitHasThread`, through every preemption, including those that go wrong |
| `Liveness` | 2 events, role A, fair | `SlotFreed`, `IntakeDrained`, `HeapServedUnlessFifoWait` |
| `Shutdown` | 2 events, one MASTER kind and a SLAVE kind that preempts it, a timed run, fair (`UndisturbedFairSpec`); 661 thousand states | `ShutdownCompletes`: wherever the stop falls, during a preemption too, all threads end and `main` returns, unless a preemption has killed an init thread that held a lock |
| `WaitHeap` | 7 events of two priorities in any order of pushes and pops, first block for 2 events, growth may fail; 243 thousand states | `HeapOrder` between operations and inside the loops, `HeapTypeOK` (nothing past the end of the block, nothing stored twice), `ImplementsWaitSet` |
| `CondVar` | both platforms, 3 signallers, 6 signals, a stop at any moment, fair | `WakeupPending`, `CondTypeOK`, `ImplementsMailbox`: what was put in is taken, a stopped thread ends |
| `PoolKeys` | 1 caller, poll thread, clock steps of 18 and 60 s, one of which may fall between any two readings of a section, expiry by hand, reset, stop, threshold 3, periods 60 s and 18 s as in the program; 492 thousand states | `OnlyOldKeysRemoved`, `PollRestoresThreshold` |
| `PoolLife` | 2 callers, the same clock steps, reset, stop, threshold 2; `pthread_create` and every allocation may fail; fair; 89 thousand states | `OnePollThread`, `ReadyWhenCalled`, `BufferHoldsKeys`, `OnlyEmptyListGoesWrong`, `StatusNeverBack`, `ExpiredIsRetired`, `StopReturns`, `PoolTypeOK` |

**Preemption and its race.** `scheduler.c:133` reads the slot's stage without the lock and
`:138` kills the init thread later; in between, that thread may move the event on to EXEC
(`Overtaken` in `QksProperties`), and the scheduler then evicts an event that is being
executed or about to be. `Interrupted` shows this. Its consequences are that the evicted event is executed
twice, that its completion frees the slot of its successor, and so on; they are not listed
one by one. `UndisturbedSpec` is the program with every behaviour but those in which this
step occurs, preemptions that find the thread still in stage INIT included. `ExecMatchesSlot`, `AtMostOnce`,
`HardBlockOwned`, `ExecNotInterrupted`, `MasterNeverDropped` and `ImplementsLife` are
checked and proved for `UndisturbedSpec`: so this race is the *only* thing that stands between the
program and these six properties. Where nothing preempts, as in role A, the race cannot strike
(theorem `RaceNeedsPreemption`). The order properties, `OneWorker` and `InitHasThread`, which
survive the race, are checked and proved with it.

`Shutdown` is checked without the race, but with all other preemptions, and so with the kills that
`OrphanedLock` is about: an init thread killed inside a critical section leaves its mutex locked, and
then `main` hangs for ever, in `qks_queue_wake` or in a join. `ShutdownCompletes` excepts these
behaviours by name (`~KilledThreadHoldsNoLock`), and nothing else. Where nothing preempts, nobody is killed
before all threads have ended, and the exception is void.

**Bounds.** `MaxEvents` = 3 puts one event in the slot, one in the heap and one in the
FIFO, which is every case the scheduler distinguishes: it only looks at the FIFO's
head, the heap's top and the slot, and compares two of them at a time. Two events
suffice for liveness: one held up, one holding it up, and for a stop: one event in the slot, of either
direction, and one that waits, arrives or preempts; in `Shutdown` MASTER and SLAVE events
of different type stand for all, because types differ only by priority and worker. Seven events fill three
levels of the heap, so that a sift passes through a node that is neither root nor leaf;
`Before` orders any set of numbered events totally and the events come in every
order, so one set of seven stands for all. `FirstCap` is 16 in the program and 2 in the run,
so that the array grows twice. `MaxPuts` = 6 lets each of three signallers come back while the
waiter is in any of its steps. Key pool: three keys are
the program's threshold, and two in `PoolLife` already let one of a request be stored and the other not; `MaxTime`
lets a generation of keys pass through validity (60 s) and freeze period (18 s) in `PoolLife` (80 s), and in
`PoolKeys` (140 s) the next one, too, reach its freeze period; one advance within a section
(`MaxOverlaps`) splits its readings at every place into older and newer ones;
`MaxExternal` bounds the external keys, `MaxWall` the seconds
that pass. `ExtIdModulus` is 1000 as in the program, which the runs do not come near.

`CHECK_DEADLOCK FALSE` is given where the program may really stop moving: with all
injected events served, an untimed program sleeps, and so does a waiter for whom nothing
more comes; in `Shutdown`, threads stand still at a mutex that an init thread took with it when it was killed;
the heap is idle when all events have passed; the key pool may be stopped,
at the end of its clock, or at its first undefined step.

**Fairness** (`Fairness`, in `FairSpec` and `UndisturbedFairSpec`): weak fairness of each thread's next step. A thread that is
not blocked is scheduled eventually, and every blocking construct is modelled by a
guard, so weak fairness asks only that of the operating system. A step that waits for a
mutex could in principle be starved under weak fairness. In the runs it is not: injections, and in
`CondVar` the signals, are bounded, and a section that is one step leaves its mutex free. A mutex
stays taken for ever only if an init thread is killed while it holds it (`OrphanedLock`), which the
liveness properties meet only in `Shutdown` and which `ShutdownCompletes` excepts. That neither an
unbounded stream of injections nor the scheduler, which under a hard block takes and releases
`q->mu` without a pause (`scheduler.c:101`), starves the others is an assumption about the
system's mutexes. No fairness is assumed of the callers, the
timer, the passing of time, the tests, or anybody's decision to stop.

### Where the code departs from its documentation

| run | what happens | the source says |
|---|---|---|
| `LostWakeup` | the slot is freed while the scheduler sleeps in `qks_queue_wait_for_fifo` (`queue.c:143`); the wait's loop only looks at the FIFO, so a MASTER event in the heap is not served until the next injection | `scheduler.c:93`, `:47`: the completion wakes this wait, and the next round picks from FIFO and heap |
| `Interrupted` | the scheduler reads stage INIT without the lock, the init thread moves on to EXEC, and the scheduler evicts an event in stage EXEC, which a worker may have begun to execute | `README.md:11`: the execution stage cannot be interrupted |
| `OrphanedLock` | the init thread is killed inside a critical section; `q->mu` or `exec_sig.mu` stays locked | `README.md:89`: it is terminated safely |
| `FreedBuffer` | all keys expire at one check, `realloc(data, 0)` frees the buffer, and the new keys are written into it | `GatewayComm.h:11-13`: `data` holds `capacity` keys |

Further observations that have no run of their own:

* *SLAVE events are kept.* A SLAVE event injected under a hard block stays in the FIFO
  (`scheduler.c:101-102`) and is executed once the slot is free; `README.md:97-98` and the simulator
  (`injector.c:36`) expect it to be dropped at once. Every run has this behaviour, and `EventLife` allows both.
* *The frozen clock.* The key pool's clock keeps the value of its first reading
  (`NTPClient.c:29`), where `NTPClient.h:8` speaks of the current synchronised time: without a test's advances no key ever expires.
* *Boot against timer.* `qks_scheduler_start` sets `stop = 0` (`scheduler.c:80`). If the
  scheduler thread gets its first time slice after the exit timer has fired, it takes
  the stop back and the program never ends. With `BootBeforeTimer = FALSE`, `ShutdownCompletes`
  is violated in exactly this way, `main` waiting for a scheduler that sleeps; the constant states the assumption that a thread starts
  within the timer's at least one second.
* *Results that nobody looks at.* The creation of the exit timer (`main.c:43`: the
  program then never ends by itself), of the init thread (`init_master_mgr.c:34`), the workers'
  argument blocks (`exec.c:154`), the growth of the wait heap (`queue.c:20`: a MASTER event is lost).
* *A key that is not stored.* `KeyManager_AddExternalKey` ignores a failed
  `KeyInfoList_Add` (`KeyManager.c:289`): it reports success, the key is lost, and
  the status of the last key in the list, instead of the new one's, is brought up to date; with an empty list it is
  `data[-1]`. `StatusNeverBack` and `BufferHoldsKeys` hold nevertheless, and
  `OnlyEmptyListGoesWrong` says that the empty list is the only one that comes to harm.
* *A request that is stored in part.* `KeyManager_CheckAndRequestKeys` ignores a failed
  `KeyInfoList_Add` too (`KeyManager.c:226-228`): fewer keys are stored than were delivered.
* *Ids repeat.* `KeyInfo.h:20` calls the id of a key unique (密钥唯一ID), and the comment at `GatewayComm.c:59`
  says that time and number keep ids from repeating. They do not, for three reasons. The clock may be advanced between two keys of one
  request, which reads it for each: if a check at second 73 makes `key_73_1`, the clock moves by 60, and it
  goes on with `key_133_2`, then the next check, at 133, finds `key_73_1` expired, requests again, and
  numbers from 1 at the same time, so that there may be a second `key_133_2`. After a request that was stored in part the next check does the
  same at a clock that has not moved. And the numbers of external keys wrap around at 1000
  (`KeyManager.c:284`). All three are behaviours of the model, and no property claims that ids are unique.
  `OnlyOldKeysRemoved` takes a key to be gone when its id is, and `StatusNeverBack` speaks of keys that no other
  key in the list shares its id with (`Unambiguous`).
* *Freed twice.* The empty list whose block was freed by `realloc` is freed again at a stop
  or a reset; `KeyInfoList_Free` of `KeyList` counts this as unsound.
* *Thread handles.* An init thread that ends by itself leaves its handle in
  `th_init_master`; the next spawn (`init_master_mgr.c:33`) overwrites it.
* *Deleted keys come back.* `KeyManager_UpdateKeyStatus` computes the status from the
  clock alone, so a key expired by `KeyManager_SimulateKeyExpiry` is VALID again after
  the next check. `StatusNeverBack` is therefore checked without expiry by hand.
* *70 seconds.* `key_manager_test.c:85` expects keys to be deleted 70 s after their
  creation; they are frozen until the 78th second.

## 4. Proofs

All theorems are proved for every workload and every `MaxEvents` (scheduler), for every
set of numbered events and every first capacity (heap), for any number of signallers
(condition variable), or for every set of clients and every configuration (key pool), from
the named assumptions on the constants: `WorkloadAssumption`, `MaxEventsAssumption`,
`SpawnAssumption`, `TimerAssumption`, `HeapAssumption`, `ThreadsAssumption`,
`ConfigAssumption`, `BoundsAssumption`. All assumptions are evaluated by TLC in the
runs. The scheduler's `Spec` includes preemption, failing spawns, stops and the races above.

| module | theorem | states |
|---|---|---|
| `QksSystem_proofs` | `TypeCorrect` | `Spec => []TypeOK` |
| | `OneWorkerExecutes` | `OneWorker` |
| | `InitIsAttended` | `InitHasThread` |
| `QksOrder_proofs` | `AlwaysDecidesOnSomething` | `DecidesOnSomething` |
| | `OnlyHigherPreempts` | `PreemptOnlyByHigher` |
| | `OnlyMastersWait` | `SlaveNeverWaits` |
| | `HeapIsNeverMoreUrgent` | `HeapNeverBeatsInit` |
| | `SamePriorityIsFifo` | `SamePriorityFifo` |
| `QksPipeline_proofs` (of `UndisturbedSpec`) | `ExecutionMatchesSlot` | `ExecMatchesSlot` |
| | `StartedAtMostOnce` | `AtMostOnce` |
| | `HardBlockHasOwner` | `HardBlockOwned` |
| | `ExecutionIsNotInterrupted` | `ExecNotInterrupted` |
| | `MastersAreNeverDropped` | `MasterNeverDropped` |
| | `EventsLive` | `ImplementsLife`: `QksSystem` implements `EventLife` |
| | `RaceNeedsPreemption` | `Spec => UndisturbedSpec`, assuming `NothingPreempts` |
| `WaitHeap_proofs` | `ArrayTypeCorrect` | `HeapTypeOK` |
| | `ArrayIsAHeap` | `HeapOrder` |
| | `ArrayImplementsSet` | `ImplementsWaitSet`: `WaitHeap` implements `WaitSet` |
| `CondVar_proofs` | `CondTypeCorrect` | `CondTypeOK` |
| | `NoLostWakeup` | `WakeupPending` |
| | `TakesWhatIsThere` | the safety part of `Mailbox` |
| `KeyPool_proofs` | `PollThreadIsUnique` | `OnePollThread` |
| | `CallsFindThePoolReady` | `ReadyWhenCalled` |
| | `PoolTypeCorrect` | `PoolTypeOK` |
| | `BufferIsTrue` | `BufferHoldsKeys` |
| | `MemoryIsKeptWhileKeysLast` | `OnlyEmptyListGoesWrong` |
| | `OldKeysOnly` | `OnlyOldKeysRemoved` |
| | `ThresholdRestored` | `PollRestoresThreshold` |
| | `StatusOnlyForward` | `StatusNeverBack` |

**`UndisturbedSpec`** is `Spec` without the step `Overtaken` (section 3). It restricts neither the
workload nor preemption, only the one race, with which the six properties are false.
**`NothingPreempts`** says that no event which may be injected is more urgent than a
MASTER event. Role A's workload is of this kind; there `RaceNeedsPreemption` carries the
six theorems over to `Spec`.

None of these properties is inductive. The strengthenings (in `QksInvariants` unless said otherwise):

* `Justified`: what the scheduler knows at each point although it holds no lock. Only it
  fills the slot or takes events out, so "the slot is empty" and "the FIFO is not
  empty", once observed, stay true; "the slot is occupied" does not.
* `GuardInv`: the guard in the queue is the slot's priority; the scheduler's *copy* may
  be stale, but only because the slot was freed, and then the event that is still
  readable in the slot has the copied priority. Hence a preemption decided on a stale
  copy is still by strictly higher priority.
* `HeapInv`: nothing in the heap is more urgent than the event being initialised. It has to
  cover the event in the scheduler's hands, and the slot's event while it is being
  preempted, since it is then pushed into the heap under a more urgent successor.
* `SeqInv`: events leave the FIFO in sequence order, so whatever has left it is older than
  everything in it, and no number is in two places. A preempted event remains
  readable in the emptied slot, which the invariant must except.
* `PipelineInv`: only the worker of the dispatcher's event is woken or executing,
  and `worker_done` is raised only while the dispatcher waits for it. Both fail while a stop
  is in progress, when the dispatcher gives up waiting; and since a booting scheduler
  resets `stop`, the invariant must say that nothing has begun before the boot. `OneWorker`
  holds at a stop too, because a worker that sees `stop` takes nothing more.
* `InitThreadInv`: the init thread gives up early only once `stop` is set, `main` kills it only
  after the scheduler has ended, and although the scheduler's boot takes a stop back, the
  slot is still empty then.
* `TokenInv`: the right to go on with the slot's event is a token that passes from the
  scheduler to the init thread (MASTER) or stays with it (SLAVE), then into the mailbox,
  to the dispatcher, and back when the slot is freed. There is at most one; while there is one, the slot
  is occupied, every copy of the event (the init thread's argument, the mailbox, the
  dispatcher's) is the slot's event, and stage, block and start count are those of
  the token's place. `IdInv` adds that an event is in one place only and that what waits was not started.
* `EvictInv`: the scheduler kills and evicts only while the slot holds an event in stage INIT that
  was not started, and the thread it kills is known by its handle and gone before the eviction. So a
  preemption destroys the init thread's token and leaves no copy of the event behind. Only `Overtaken`
  breaks this.
  For `EventsLive` each action is then mapped to an action of `EventLife` or to a stutter.
* In `WaitHeap_proofs`: `HeapOrder` covers the loops, where the moving event may be out of
  order with its parent (up) or its children (down) but its children are in order with its parent. That the root of an ordered array
  precedes everything is an induction over the index; the proof takes the least index that is not
  preceded by the root instead (`LeastNumber` in `Induction`) and derives a contradiction from its parent.
* In `CondVar_proofs`: who holds the mutex is determined by where the threads are, so the
  event is reset only by a waiter that has yet to look at its condition.
* In `KeyPool_proofs`: the clients between taking and releasing `init_mutex` are at most
  the one that holds it, and the manager is untouched until that client starts it.
* Also in `KeyPool_proofs`, about the keys:
  * A section's readings are a sequence of times, none older than the clock before it and each no older than the one
    before (`ReadingsRange`). What a section does is stated for any such sequence: a status that it
    gives is the one due at one of its readings (`Given`), so it was due at some moment between the old clock and
    the new, whichever advances fell in between.
  * `Fits` (in `KeyList_proofs`), `StartInv`: the block has the room that the list believes in, or there is no block, and there are no keys before the one initialisation, so that the
    first request finds an empty list. A list that fits and holds a key is `Safe`, and every operation keeps it so
    while a key is left: this is `MemoryIsKeptWhileKeysLast`.
  * `StatusInv`: as long as nobody expires keys by hand, a status other than VALID was due when
    it was given, and the clock does not go back.
* **Recursion in proofs.** `AddEach` and `Kept` of `KeyList` are recursive functions over the indices
  of a sequence, and `Readings` of `KeyPool` one over the number of advances. The library's induction theorems take an operator as a parameter, which the
  installed provers cannot instantiate. `Induction` states what is needed with sets
  and functions instead: a set of numbers that contains 0 and with each number the next one is
  everything up to the bound; and a function is defined by its first value and a step function.
  `KeyList_proofs` obtains from it what the two functions yield for every list: `Added` (keys in place stay
  in place, new ones follow in order) and `KeptFacts` (exactly the deleted keys go, and the number of valid ones is the same).

Every safety property, action property and refinement that a passing run checks is also proved. Only
model-checked are the liveness properties, the liveness part of `Mailbox` included: liveness under
fairness and `ENABLED` are outside the prover's reach.

## 5. Not modelled

* Configuration (`config.c`) reads the environment and the command line once, before any
  thread runs; the role, the run time and the simulator's switch are parameters of
  the runs (`Workload`, `TimedRun`).
* Logging, radio, authentication, clock synchronisation, crypto and key distribution are placeholders that
  print, sleep or format. The listeners and the clock thread are empty loops that end
  with `stop`; their end is `CallersExit`.
* Failure of `malloc` in `qks_queue_push_ready` and of allocations, mutexes and threads at start-up.
* `qks_queue_destroy`, `qks_queue_is_empty`, `qks_scheduler_stop`,
  `qks_scheduler_preempt_current`, `NTPClient_SyncTime`, `NTPClient_SetSimulateTimeSync`
  and `NTPClient_ResetSimulatedTime`: nothing calls them.
* The simulator's timing: any order and any moment of injection is allowed instead, which
  includes its own.
* Frames to the peer and the peer's answers: the radio drops them, and the wait for the
  ACK is a sleep.
* The clock's other races: the first reading of it, which initialises it, may fall together with
  an advance or another first reading (`NTPClient.c:14-17`), and of two concurrent advances, each a
  read and a write (`NTPClient.c:81`), one may be lost. In the model a first reading and an advance are single
  steps, though either may fall between the readings of a critical section.
* Starvation at a mutex (section 3, fairness).
* Thread handles that are overwritten are not counted, and how long a key may be handed out
  after it has expired is not measured (`ExpiredIsRetired` only says that it ends).
* A `KeyManager_Stop` while other calls are in progress (`KeyManager.c:90` frees the list
  without the mutex): no program in the repository does so.

## 6. Plan

Done: the event scheduler as a whole, with its order, exclusion, initialisation and
pipeline theorems; the life of an event as an abstract specification, checked and proved to be
implemented, preemption included; the wait heap and the condition variable down to array and system call, checked and
proved to implement what the scheduler's model assumes; the key pool with its
growing list and failing allocations, its keys' statuses, numbers and memory proved for every
configuration and any advance of the clock between two of its readings.

What is left is small:

1. `KeyManager_Stop` racing with calls, should a program ever do that.
2. `Shutdown` with the race of `Interrupted` included. `ShutdownCompletes` holds there too, for the same
   workload under `FairSpec` (2.2 million states), but takes longer than a run is meant to.
3. The peer: when the radio becomes more than a placeholder, the ACT that a later preemption
   cannot take back (`scheduler.c:138`) becomes a property of two processes.
