------------------------------ MODULE KeyPool -------------------------------
(***************************************************************************)
(* The key pool at run time: the threads that call qks_keypool_update and  *)
(* qks_keypool_execute, the poll thread of the key manager, the simulated  *)
(* clock of NTPClient.c, and the calls that only the test programs make.   *)
(*                                                                         *)
(* The manager's mutex protects single critical sections that never block. *)
(* Nobody sees the list in between, so each of them is one step here; the  *)
(* clock has no lock, and the advances that fall between a section's       *)
(* readings of it are part of the section's step.  init_mutex is held over *)
(* several steps and is a variable.  A call's read of is_inited and its    *)
(* critical section are one step: only KeyManager_Stop resets the flag,    *)
(* and it is called when the other threads are out of the pool.            *)
(***************************************************************************)
EXTENDS KeyList

CONSTANTS
    Clients,         \* the threads that call the key pool
    None,            \* no client
    Advances,        \* the seconds by which a test advances the clock
    MaxOverlaps,     \* bound on the advances that fall into one critical section
    Expiries,        \* the numbers of keys that a test expires by hand
    CanFail,         \* TRUE: pthread_create may fail
    MaxWall,         \* bound on the seconds that pass
    MaxTime,         \* bound on the clock
    MaxExternal      \* bound on the number of external keys

ASSUME BoundsAssumption ==
    /\ None \notin Clients
    /\ Advances \subseteq Nat \ {0} /\ Expiries \subseteq Nat \ {0}
    /\ CanFail \in BOOLEAN /\ MaxExternal \in Nat /\ MaxOverlaps \in Nat
    /\ MaxWall \in Nat \ {0} /\ MaxTime \in Nat /\ MaxTime >= MaxWall

VARIABLES
    wall,            \* the system's time(NULL)
    clock,           \* g_simulated_time, 0 until it is first read
    local_keys,      \* the list of keys
    seq,             \* how many external keys were added
    manager,         \* g_key_manager: "null" or "set"
    is_inited, is_running,
    init_called,     \* keypool_init_if_needed has run
    init_mutex,      \* the client that holds it
    poll,            \* where the poll thread is, "none" if there is none
    threads,         \* auxiliary: how many poll threads were created
    client           \* where each client is

timeVars == <<wall, clock>>
listVars == <<local_keys, seq>>
initVars == <<manager, is_inited, is_running, init_called, init_mutex, threads>>
vars     == <<timeVars, listVars, initVars, poll, client>>

ClientPC == {"idle", "init_lock", "start", "ready", "publish", "op", "join"}
PollPC   == {"none", "test", "sleep", "exit"}

Init ==
    /\ wall = 1 /\ clock = 0
    /\ local_keys = KeyInfoList_Init /\ seq = 0
    /\ manager = "null" /\ is_inited = FALSE /\ is_running = FALSE
    /\ init_called = FALSE /\ init_mutex = None
    /\ poll = "none" /\ threads = 0
    /\ client = [c \in Clients |-> "idle"]

\* What C says of the program ends when it touches memory that is not its own.
Defined == local_keys.sound

-----------------------------------------------------------------------------
(* NTPClient.c.  The clock is set when it is first read and stands still   *)
(* until a test advances it.                                               *)

CurrentTime == IF clock = 0 THEN wall ELSE clock

Second ==
    /\ wall < MaxWall /\ wall' = wall + 1
    /\ UNCHANGED <<clock, listVars, initVars, poll, client>>

NTPClient_AdvanceSimulatedTime(s) ==
    /\ CurrentTime + s <= MaxTime /\ clock' = CurrentTime + s
    /\ UNCHANGED <<wall, listVars, initVars, poll, client>>

\* What R readings, one after the other, may show: each advance of the clock
\* that falls between two of them is seen by all readings from some one on.
Readings(R) ==
    LET upto[a \in 0 .. MaxOverlaps] ==
            IF a = 0 THEN {[i \in 1 .. R |-> CurrentTime]}
            ELSE upto[a - 1] \union
                 {[i \in 1 .. R |-> IF i < from THEN now[i] ELSE now[i] + s] :
                  now \in upto[a - 1], from \in 2 .. R, s \in Advances}
    IN  {now \in upto[MaxOverlaps] : now[R] <= MaxTime}

-----------------------------------------------------------------------------
(* The key manager's critical sections. *)

\* It reads the clock for each key in the list and each key it requests.
KeyManager_CheckAllKeys ==
    LET R == Len(local_keys.keys) + Threshold
    IN  /\ \E now \in Readings(R) :
              local_keys' \in Maintain(local_keys, now) /\ clock' = now[R]
        /\ UNCHANGED <<wall, seq>>

KeyManager_AddExternalKey ==
    /\ seq < MaxExternal /\ seq' = seq + 1
    /\ \E now \in Readings(2) :
          local_keys' \in AddExternal(local_keys, now, seq' % ExtIdModulus) /\ clock' = now[2]
    /\ UNCHANGED wall

-----------------------------------------------------------------------------
(* A client: keypool_init_if_needed, KeyManager_Init, then the call.       *)

Step(c, from, to) == client[c] = from /\ client' = [client EXCEPT ![c] = to]

NobodyStops == \A c \in Clients : client[c] # "join"

\* init_called is read without the lock.
ClientCall(c) ==
    /\ NobodyStops
    /\ Step(c, "idle", IF init_called THEN "op" ELSE "init_lock")
    /\ UNCHANGED <<timeVars, listVars, initVars, poll>>

\* A bug: the lock is not taken.
ClientInitLock_NoLock(c) ==
    /\ \/ init_called /\ Step(c, "init_lock", "op")
       \/ ~init_called /\ Step(c, "init_lock", "start")
    /\ UNCHANGED <<timeVars, listVars, initVars, poll>>

ClientInitLock(c) ==
    /\ init_mutex = None
    /\ \/ init_called /\ Step(c, "init_lock", "op") /\ UNCHANGED init_mutex
       \/ ~init_called /\ Step(c, "init_lock", "start") /\ init_mutex' = c
    /\ UNCHANGED <<timeVars, listVars, manager, is_inited, is_running, init_called,
                   threads, poll>>

\* The first request of keys.
RequestFirstKeys ==
    \E now \in Readings(Threshold) :
        /\ local_keys' \in CheckAndRequestKeys(KeyInfoList_Init, now)
        /\ clock' = now[Threshold]

\* A bug: init_called is set before the manager is initialised.
ClientStart_PublishFirst(c) ==
    /\ ~is_inited /\ Step(c, "start", "ready")
    /\ RequestFirstKeys
    /\ manager' = "set" /\ is_running' = TRUE /\ init_called' = TRUE
    /\ poll' = "test" /\ threads' = threads + 1
    /\ UNCHANGED <<wall, seq, is_inited, init_mutex>>

\* KeyManager_Init: the first keys, then the poll thread.  The lock and
\* init_called see to it that the manager is not initialised already.
ClientStart(c) ==
    /\ ~is_inited /\ Step(c, "start", "ready")
    /\ RequestFirstKeys
    /\ manager' = "set" /\ is_running' = TRUE
    /\ poll' = "test" /\ threads' = threads + 1
    /\ UNCHANGED <<wall, seq, is_inited, init_called, init_mutex>>

\* pthread_create fails: what was done is undone.
ClientStartFails(c) ==
    /\ CanFail /\ ~is_inited /\ Step(c, "start", "publish")
    /\ local_keys' = KeyInfoList_Init
    /\ \E now \in Readings(Threshold) : clock' = now[Threshold]
    /\ manager' = "null" /\ is_running' = FALSE
    /\ UNCHANGED <<wall, seq, is_inited, init_called, init_mutex, threads, poll>>

ClientReady(c) ==
    /\ Step(c, "ready", "publish") /\ is_inited' = TRUE
    /\ UNCHANGED <<timeVars, listVars, manager, is_running, init_called, init_mutex,
                   threads, poll>>

ClientPublish(c) ==
    /\ Step(c, "publish", "op")
    /\ init_called' = TRUE /\ init_mutex' = None
    /\ UNCHANGED <<timeVars, listVars, manager, is_inited, is_running, threads, poll>>

\* The call proper, or its rejection.
ClientOp(c) ==
    /\ Step(c, "op", "idle")
    /\ \/ /\ manager = "set" /\ is_inited
          /\ (KeyManager_AddExternalKey \/ KeyManager_CheckAllKeys)
       \/ /\ manager = "null" \/ ~is_inited
          /\ UNCHANGED <<timeVars, listVars>>
    /\ UNCHANGED <<initVars, poll>>

Client(c) ==
    \/ ClientCall(c) \/ ClientInitLock(c) \/ ClientStart(c)
    \/ ClientStartFails(c) \/ ClientReady(c) \/ ClientPublish(c) \/ ClientOp(c)

-----------------------------------------------------------------------------
(* What the test programs do, or may do, when no call is in progress. *)

Quiet == \A c \in Clients : client[c] = "idle"

KeyManager_SimulateKeyExpiry(m) ==
    /\ Quiet /\ is_inited
    /\ local_keys' = SimulateExpiry(local_keys, m)
    /\ UNCHANGED <<timeVars, seq, initVars, poll, client>>

\* The list is emptied; the configuration is the default one anyway.
KeyManager_Reset ==
    /\ Quiet
    /\ local_keys' = KeyInfoList_Free(local_keys)
    /\ UNCHANGED <<timeVars, seq, initVars, poll, client>>

KeyManager_Stop(c) ==
    /\ Quiet /\ is_inited /\ Step(c, "idle", "join")
    /\ is_running' = FALSE
    /\ UNCHANGED <<timeVars, listVars, manager, is_inited, init_called, init_mutex,
                   threads, poll>>

\* The join returns; the list is freed.
KeyManager_Stopped(c) ==
    /\ poll = "exit" /\ Step(c, "join", "idle")
    /\ local_keys' = KeyInfoList_Free(local_keys) /\ is_inited' = FALSE
    /\ UNCHANGED <<timeVars, seq, manager, is_running, init_called, init_mutex,
                   threads, poll>>

Stop(c) == KeyManager_Stop(c) \/ KeyManager_Stopped(c)

-----------------------------------------------------------------------------
(* The poll thread. *)

\* A bug: the loop does not look at is_running.
PollTest_Forever ==
    /\ poll = "test" /\ poll' = "sleep"
    /\ UNCHANGED <<timeVars, listVars, initVars, client>>

PollTest ==
    /\ poll = "test"
    /\ poll' = IF is_running THEN "sleep" ELSE "exit"
    /\ UNCHANGED <<timeVars, listVars, initVars, client>>

\* The sleep is over, or cut short by a stop: the keys are checked once more.
PollCheck ==
    /\ poll = "sleep" /\ poll' = "test"
    /\ \/ is_inited /\ KeyManager_CheckAllKeys
       \/ ~is_inited /\ UNCHANGED <<timeVars, listVars>>
    /\ UNCHANGED <<initVars, client>>

Poll == PollTest \/ PollCheck

-----------------------------------------------------------------------------
Next ==
    /\ Defined
    /\ \/ Second \/ Poll \/ KeyManager_Reset
       \/ \E s \in Advances : NTPClient_AdvanceSimulatedTime(s)
       \/ \E m \in Expiries : KeyManager_SimulateKeyExpiry(m)
       \/ \E c \in Clients : (Client(c) \/ Stop(c))

Spec == Init /\ [][Next]_vars

\* The poll thread runs, and a call that has begun ends.  Nobody need call,
\* stop or expire anything, and time need not pass.
FairSpec ==
    /\ Spec
    /\ WF_vars(Defined /\ Poll)
    /\ \A c \in Clients :
          /\ WF_vars(Defined /\ client[c] # "idle" /\ Client(c))
          /\ WF_vars(Defined /\ KeyManager_Stopped(c))

=============================================================================
