--------------------------- MODULE KeyPool_proofs ---------------------------
(***************************************************************************)
(* Theorems about the initialisation of the key pool and about its keys,   *)
(* for any set of calling threads and any use of the pool by them.         *)
(***************************************************************************)
EXTENDS KeyPoolProperties, KeyList_proofs

\* A client between the lock and the unlock of keypool_init_if_needed.
Initialising(c) == client[c] \in {"start", "ready", "publish"}

\* Only the holder of init_mutex initialises, and only until init_called is
\* set; what is published by init_called is a manager that is ready, unless
\* its initialisation failed or it is being stopped.
InitInv ==
    /\ threads \in {0, 1} /\ client \in [Clients -> ClientPC]
    /\ ~init_called /\ init_mutex = None => threads = 0
    /\ is_inited => init_called \/ \E c \in Clients : client[c] = "publish"
    /\ init_called => (is_running => manager = "set" /\ is_inited)
    /\ \A c \in Clients :
          /\ Initialising(c) => init_mutex = c /\ ~init_called
          /\ client[c] = "start" => threads = 0
          /\ client[c] = "ready" => manager = "set"
          /\ client[c] = "publish" => (is_running => manager = "set" /\ is_inited)
          /\ client[c] = "op" => init_called
          /\ client[c] = "join" => init_called /\ ~is_running

LEMMA InitInvInit == Init => InitInv
  BY DEF Init, InitInv, Initialising, ClientPC

\* Steps of one client: the others stay where they are.
LEMMA InitInvClient ==
  ASSUME InitInv, NEW c \in Clients, Client(c) \/ Stop(c)
  PROVE  InitInv'
  <1> USE BoundsAssumption DEF InitInv, Initialising, Step, ClientPC, initVars
  <1>1. CASE ClientCall(c)
    BY <1>1 DEF ClientCall
  <1>2. CASE ClientInitLock(c)
    BY <1>2 DEF ClientInitLock
  <1>3. CASE ClientStart(c)
    BY <1>3 DEF ClientStart
  <1>4. CASE ClientStartFails(c)
    BY <1>4 DEF ClientStartFails
  <1>5. CASE ClientReady(c)
    BY <1>5 DEF ClientReady
  <1>6. CASE ClientPublish(c)
    BY <1>6 DEF ClientPublish
  <1>7. CASE ClientOp(c)
    BY <1>7 DEF ClientOp
  <1>8. CASE KeyManager_Stop(c)
    BY <1>8 DEF KeyManager_Stop, Quiet
  <1>9. CASE KeyManager_Stopped(c)
    BY <1>9 DEF KeyManager_Stopped
  <1> QED
    BY <1>1, <1>2, <1>3, <1>4, <1>5, <1>6, <1>7, <1>8, <1>9 DEF Client, Stop

LEMMA InitInvStep == InitInv /\ [Next]_vars => InitInv'
  <1> SUFFICES ASSUME InitInv, [Next]_vars PROVE InitInv'
    OBVIOUS
  <1>1. ASSUME UNCHANGED <<initVars, client>> PROVE InitInv'
    BY <1>1 DEF InitInv, Initialising, initVars
  <1>2. ASSUME NEW c \in Clients, Client(c) \/ Stop(c) PROVE InitInv'
    BY <1>2, InitInvClient
  <1>3. Second \/ Poll \/ (\E s \in Advances : NTPClient_AdvanceSimulatedTime(s))
        \/ (\E m \in Expiries : KeyManager_SimulateKeyExpiry(m)) \/ KeyManager_Reset
        \/ UNCHANGED vars
        => UNCHANGED <<initVars, client>>
    BY DEF Second, Poll, PollTest, PollCheck, NTPClient_AdvanceSimulatedTime,
       KeyManager_SimulateKeyExpiry, KeyManager_Reset, vars
  <1> QED
    BY <1>1, <1>2, <1>3 DEF Next

LEMMA InitInvAlways == Spec => []InitInv
  BY InitInvInit, InitInvStep, PTL DEF Spec

\* However many threads make the first call at once, one poll thread starts.
THEOREM PollThreadIsUnique == Spec => []OnePollThread
  <1>1. InitInv => OnePollThread
    BY DEF InitInv, OnePollThread
  <1> QED
    BY <1>1, InitInvAlways, PTL

\* No call overtakes the initialisation, although it reads init_called
\* without the lock.
THEOREM CallsFindThePoolReady == Spec => []ReadyWhenCalled
  <1>1. InitInv => ReadyWhenCalled
    BY DEF InitInv, ReadyWhenCalled
  <1> QED
    BY <1>1, InitInvAlways, PTL

-----------------------------------------------------------------------------
(* The keys.  What holds of them whatever fails, and what their statuses   *)
(* say.                                                                    *)

\* Before the poll thread exists there are no keys.
StartInv ==
    local_keys.keys # <<>> \/ is_inited \/ (\E c \in Clients : client[c] = "ready")
        => threads = 1

\* A status that is no longer valid was given to the key by the clock.
StatusInv ==
    LET ks == local_keys.keys
    IN  Expiries = {} =>
            \A i \in 1 .. Len(ks) :
                /\ ks[i].status # "VALID" => KeyInfo_GetExpireTime(ks[i]) <= clock
                /\ ks[i].status = "DELETED" => KeyInfo_GetDeleteTime(ks[i]) <= clock

-----------------------------------------------------------------------------
(* What the steps of the pool do to the list and to the clock.             *)

\* The clock as a section may read it is not behind what it was.
LEMMA Now ==
  ASSUME PoolTypeOK
  PROVE  /\ CurrentTime \in Nat \ {0} /\ CurrentTime <= MaxTime /\ clock <= CurrentTime
         /\ clock \in Nat /\ seq \in Nat /\ MaxTime \in Nat
  BY BoundsAssumption DEF PoolTypeOK, CurrentTime

\* Readings, each advance of the clock seen by the last of them.
Advancing(R) ==
    {now \in [1 .. R -> Nat] : \A i \in 1 .. R : CurrentTime <= now[i] /\ now[i] <= now[R]}

Advanced(R, now, from, s) == [i \in 1 .. R |-> IF i < from THEN now[i] ELSE now[i] + s]

LEMMA AdvancedOnce ==
  ASSUME CurrentTime \in Nat, NEW R \in Nat \ {0}, NEW now \in Advancing(R),
         NEW from \in 2 .. R, NEW s \in Advances
  PROVE  Advanced(R, now, from, s) \in Advancing(R)
  <1>1. s \in Nat /\ R \in 1 .. R /\ ~(R < from)
    BY BoundsAssumption
  <1>2. \A i \in 1 .. R : now[i] \in Nat /\ CurrentTime <= now[i] /\ now[i] <= now[R]
    BY DEF Advancing
  <1> DEFINE new == Advanced(R, now, from, s)
  <1>3. \A i \in 1 .. R : new[i] = IF i < from THEN now[i] ELSE now[i] + s
    BY DEF Advanced
  <1>4. new \in [1 .. R -> Nat]
    BY <1>1, <1>2 DEF Advanced
  <1> HIDE DEF new
  <1>5. \A i \in 1 .. R : CurrentTime <= new[i] /\ new[i] <= new[R]
    BY <1>1, <1>2, <1>3
  <1> QED
    BY <1>4, <1>5 DEF Advancing, new

\* The readings of a section start at the clock and go on to its new value.
LEMMA ReadingsRange ==
  ASSUME CurrentTime \in Nat, NEW R \in Nat \ {0}, NEW now \in Readings(R)
  PROVE  /\ now \in [1 .. R -> CurrentTime .. now[R]]
         /\ now[R] \in Nat /\ CurrentTime <= now[R] /\ now[R] <= MaxTime
  <1> DEFINE N == MaxOverlaps
             V == SUBSET Advancing(R)
             one == [i \in 1 .. R |-> CurrentTime]
             Then(L) == L \union {Advanced(R, old, from, s) :
                                     old \in L, from \in 2 .. R, s \in Advances}
             G == [a \in 1 .. N |-> [L \in V |-> Then(L)]]
             Eq(f) == f = [a \in 0 .. N |-> IF a = 0 THEN {one} ELSE Then(f[a - 1])]
             g == CHOOSE f : Eq(f)
  <1>1. N \in Nat
    BY BoundsAssumption
  <1>2. {one} \in V
    BY DEF Advancing
  <1>3. \A L \in V : Then(L) \in V
    BY AdvancedOnce
  <1>4. now \in g[N] /\ now[R] <= MaxTime
    BY DEF Readings, Advanced
  <1> HIDE DEF Then, V, one
  <1>5. G \in [1 .. N -> [V -> V]]
    BY <1>3
  <1> HIDE DEF N
  <1>6. \E f : Eq(f)
    <2>1. PICK F \in [0 .. N -> V] :
             F[0] = {one} /\ \A a \in 1 .. N : F[a] = G[a][F[a - 1]]
      <3> HIDE DEF G
      <3>1. HasRecursion(N, V, {one}, G)
        BY <1>1, <1>2, <1>5, Recursion
      <3> QED
        BY <3>1 DEF HasRecursion
    <2>2. \A a \in 1 .. N : F[a] = Then(F[a - 1])
      <3>1. \A a \in 1 .. N : F[a - 1] \in V
        BY <1>1
      <3> QED
        BY <2>1, <3>1
    <2>3. Eq(F)
      BY <1>1, <2>1, <2>2
    <2> HIDE DEF Eq
    <2> QED
      BY <2>3
  <1>7. Eq(g)
    <2> HIDE DEF Eq
    <2> QED
      BY <1>6
  <1> HIDE DEF g
  <1>8. g[0] = {one} /\ \A a \in 1 .. N : g[a] = Then(g[a - 1])
    <2>1. 0 \in 0 .. N /\ \A a \in 1 .. N : a \in 0 .. N /\ a # 0
      BY <1>1
    <2> QED
      BY <1>7, <2>1
  <1>9. g = [a \in 0 .. N |-> g[a]]
    BY <1>7
  <1>10. g \in [0 .. N -> V]
    <2>1. g[0] \in V /\ \A a \in 1 .. N : g[a - 1] \in V => g[a] \in V
      BY <1>2, <1>3, <1>8
    <2> QED
      BY <1>1, <1>9, <2>1, RecursionType
  <1>11. now \in Advancing(R)
    <2>1. N \in 0 .. N
      BY <1>1
    <2> QED
      BY <1>4, <1>10, <2>1 DEF V
  <1> QED
    BY <1>4, <1>11 DEF Advancing

KindIdle ==
    /\ local_keys' = local_keys /\ seq' = seq
    /\ clock' = clock \/ clock' \in CurrentTime .. MaxTime

KindCheck ==
    /\ \E now \in [1 .. Len(local_keys.keys) + Threshold -> CurrentTime .. clock'] :
          local_keys' \in Maintain(local_keys, now)
    /\ clock' \in CurrentTime .. MaxTime /\ seq' = seq /\ is_inited

KindExternal ==
    /\ \E now \in [1 .. 2 -> CurrentTime .. clock'] :
          local_keys' \in AddExternal(local_keys, now, seq' % ExtIdModulus)
    /\ clock' \in CurrentTime .. MaxTime /\ seq' = seq + 1 /\ seq < MaxExternal /\ is_inited

KindFirst ==
    /\ \E now \in [1 .. Threshold -> CurrentTime .. clock'] :
          local_keys' \in CheckAndRequestKeys(KeyInfoList_Init, now)
    /\ clock' \in CurrentTime .. MaxTime /\ seq' = seq
    /\ \E c \in Clients : client[c] = "start"

KindEmpty ==
    /\ local_keys' \in {KeyInfoList_Init, KeyInfoList_Free(local_keys)}
    /\ clock' = clock \/ clock' \in CurrentTime .. MaxTime
    /\ seq' = seq

KindMarked ==
    /\ \E n \in Expiries : local_keys' = SimulateExpiry(local_keys, n)
    /\ clock' = clock /\ seq' = seq /\ is_inited

LEMMA CheckIsKind ==
  ASSUME PoolTypeOK, KeyManager_CheckAllKeys, is_inited
  PROVE  KindCheck
  <1> DEFINE R == Len(local_keys.keys) + Threshold
  <1>1. PICK now \in Readings(R) : local_keys' \in Maintain(local_keys, now) /\ clock' = now[R]
    BY DEF KeyManager_CheckAllKeys
  <1>2. R \in Nat \ {0}
    <2>1. Len(local_keys.keys) \in Nat
      BY LenProperties DEF PoolTypeOK, KeyInfoList
    <2> QED
      BY <2>1, ConfigAssumption
  <1> HIDE DEF R
  <1>3. now \in [1 .. R -> CurrentTime .. clock'] /\ clock' \in CurrentTime .. MaxTime
    BY <1>1, <1>2, Now, ReadingsRange
  <1> QED
    BY <1>1, <1>3 DEF KindCheck, KeyManager_CheckAllKeys, R

LEMMA ExternalIsKind ==
  ASSUME PoolTypeOK, KeyManager_AddExternalKey, is_inited
  PROVE  KindExternal
  <1>1. PICK now \in Readings(2) :
           local_keys' \in AddExternal(local_keys, now, seq' % ExtIdModulus) /\ clock' = now[2]
    BY DEF KeyManager_AddExternalKey
  <1>2. 2 \in Nat \ {0} /\ CurrentTime \in Nat /\ MaxTime \in Nat
    BY Now
  <1>3. /\ now \in [1 .. 2 -> CurrentTime .. now[2]]
        /\ now[2] \in Nat /\ CurrentTime <= now[2] /\ now[2] <= MaxTime
    BY <1>2, ReadingsRange
  <1> QED
    BY <1>1, <1>2, <1>3 DEF KindExternal, KeyManager_AddExternalKey

\* Every step of the pool is of one of these kinds.
LEMMA StepKinds ==
  ASSUME [Next]_vars, PoolTypeOK
  PROVE  KindIdle \/ KindCheck \/ KindExternal \/ KindFirst \/ KindEmpty \/ KindMarked
  <1> USE DEF timeVars, listVars, initVars
  <1>1. CASE UNCHANGED vars
    BY <1>1 DEF vars, KindIdle
  <1>2. CASE Second
    BY <1>2 DEF Second, KindIdle
  <1>3. CASE Poll
    BY <1>3, CheckIsKind DEF Poll, PollTest, PollCheck, KindIdle
  <1>4. CASE KeyManager_Reset
    BY <1>4 DEF KeyManager_Reset, KindEmpty
  <1>5. ASSUME NEW s \in Advances, NTPClient_AdvanceSimulatedTime(s) PROVE KindIdle
    <2>1. CurrentTime \in Nat /\ s \in Nat \ {0}
      BY Now, BoundsAssumption
    <2> QED
      BY <1>5, <2>1, Now DEF NTPClient_AdvanceSimulatedTime, KindIdle
  <1>6. ASSUME NEW n \in Expiries, KeyManager_SimulateKeyExpiry(n) PROVE KindMarked
    BY <1>6 DEF KeyManager_SimulateKeyExpiry, KindMarked
  <1>7. ASSUME NEW c \in Clients, Client(c)
        PROVE  KindIdle \/ KindCheck \/ KindExternal \/ KindFirst \/ KindEmpty
    <2>0. ASSUME NEW now \in Readings(Threshold)
          PROVE  /\ now \in [1 .. Threshold -> CurrentTime .. now[Threshold]]
                 /\ now[Threshold] \in CurrentTime .. MaxTime
      BY Now, ReadingsRange, ConfigAssumption
    <2>1. CASE ClientStart(c)
      <3>1. PICK now \in Readings(Threshold) :
               /\ local_keys' \in CheckAndRequestKeys(KeyInfoList_Init, now)
               /\ clock' = now[Threshold]
        BY <2>1 DEF ClientStart, RequestFirstKeys
      <3> QED
        BY <2>0, <2>1, <3>1 DEF ClientStart, Step, KindFirst
    <2>2. CASE ClientStartFails(c)
      BY <2>0, <2>2 DEF ClientStartFails, KindEmpty
    <2>3. CASE ClientOp(c)
      BY <2>3, CheckIsKind, ExternalIsKind DEF ClientOp, KindIdle
    <2>4. CASE ClientCall(c) \/ ClientInitLock(c) \/ ClientReady(c) \/ ClientPublish(c)
      BY <2>4 DEF ClientCall, ClientInitLock, ClientReady, ClientPublish, KindIdle
    <2> QED
      BY <1>7, <2>1, <2>2, <2>3, <2>4 DEF Client
  <1>8. ASSUME NEW c \in Clients, Stop(c) PROVE KindIdle \/ KindEmpty
    BY <1>8 DEF Stop, KeyManager_Stop, KeyManager_Stopped, KindIdle, KindEmpty
  <1> QED
    BY <1>1, <1>2, <1>3, <1>4, <1>5, <1>6, <1>7, <1>8 DEF Next

\* The clock never goes back.
LEMMA Clocks ==
  ASSUME [Next]_vars, PoolTypeOK
  PROVE  /\ CurrentTime \in Nat \ {0} /\ clock <= CurrentTime
         /\ clock \in Nat /\ seq \in Nat
         /\ clock' \in Nat /\ clock <= clock' /\ clock' <= MaxTime
  <1>1. clock' = clock \/ clock' \in CurrentTime .. MaxTime
    BY StepKinds DEF KindIdle, KindCheck, KindExternal, KindFirst, KindEmpty, KindMarked
  <1> QED
    BY <1>1, Now

\* In each case the list remains a list that fits its block.
LEMMA ListStep ==
  ASSUME [Next]_vars, PoolTypeOK
  PROVE  local_keys' \in KeyInfoList /\ (Fits(local_keys) => Fits(local_keys'))
  <1>1. local_keys \in KeyInfoList
    BY DEF PoolTypeOK
  <1>2. CASE KindIdle
    BY <1>1, <1>2 DEF KindIdle
  <1>3. CASE KindCheck
    BY <1>1, <1>3, Clocks, Maintained DEF KindCheck
  <1>4. CASE KindExternal
    <2>1. seq' % ExtIdModulus \in Nat
      BY <1>4, Clocks, ConfigAssumption DEF KindExternal
    <2>2. PICK now \in [1 .. 2 -> CurrentTime .. clock'] :
             local_keys' \in AddExternal(local_keys, now, seq' % ExtIdModulus)
      BY <1>4 DEF KindExternal
    <2>3. now \in [1 .. 2 -> Nat]
      BY Clocks
    <2> QED
      BY <1>1, <2>1, <2>2, <2>3, AddedExternal
  <1>5. CASE KindFirst
    <2>1. PICK now \in [1 .. Threshold -> CurrentTime .. clock'] :
             local_keys' \in CheckAndRequestKeys(KeyInfoList_Init, now)
      BY <1>5 DEF KindFirst
    <2>2. \A i \in 1 .. Threshold : now[i] \in CurrentTime .. clock'
      OBVIOUS
    <2> QED
      BY <1>1, <2>1, <2>2, Clocks, Emptied, Requested
  <1>6. CASE KindEmpty
    BY <1>1, <1>6, Emptied DEF KindEmpty
  <1>7. CASE KindMarked
    <2>1. PICK n \in Expiries : local_keys' = SimulateExpiry(local_keys, n)
      BY <1>7 DEF KindMarked
    <2>2. n \in Nat
      BY BoundsAssumption
    <2> QED
      BY <1>1, <2>1, <2>2, Simulated, SameFits DEF SameButStatus
  <1> QED
    BY <1>2, <1>3, <1>4, <1>5, <1>6, <1>7, StepKinds

-----------------------------------------------------------------------------
(* Types. *)

LEMMA PoolTypeInit == Init => PoolTypeOK
  <1>1. KeyInfoList_Init \in KeyInfoList
    BY EmptySeq DEF KeyInfoList_Init, KeyInfoList
  <1>2. Init => wall \in 1 .. MaxWall /\ clock \in 0 .. MaxTime /\ seq \in 0 .. MaxExternal
    BY BoundsAssumption DEF Init
  <1>3. Init => client \in [Clients -> ClientPC]
    BY DEF Init, ClientPC
  <1>4. Init => /\ manager \in {"null", "set"} /\ is_inited \in BOOLEAN
                /\ is_running \in BOOLEAN /\ init_called \in BOOLEAN
    BY Zenon DEF Init
  <1>5. Init => init_mutex \in Clients \union {None} /\ poll \in PollPC /\ threads \in Nat
    BY DEF Init, PollPC
  <1>6. Init => local_keys \in KeyInfoList
    BY <1>1 DEF Init
  <1> QED
    BY <1>2, <1>3, <1>4, <1>5, <1>6 DEF PoolTypeOK

LEMMA PoolTypeStep == PoolTypeOK /\ [Next]_vars => PoolTypeOK'
  <1> SUFFICES ASSUME PoolTypeOK, [Next]_vars PROVE PoolTypeOK'
    OBVIOUS
  <1> USE DEF timeVars, listVars, initVars, PollPC, ClientPC
  <1>1. local_keys' \in KeyInfoList
    BY ListStep
  <1>2. clock' \in 0 .. MaxTime
    BY Clocks, BoundsAssumption
  <1>3. seq' \in 0 .. MaxExternal
    <2>1. seq' = seq \/ (seq' = seq + 1 /\ seq < MaxExternal)
      BY StepKinds DEF KindIdle, KindCheck, KindExternal, KindFirst, KindEmpty, KindMarked
    <2> QED
      BY <2>1, BoundsAssumption DEF PoolTypeOK
  <1>4. wall' \in 1 .. MaxWall
    <2>1. wall' = wall \/ (wall' = wall + 1 /\ wall < MaxWall)
      BY DEF Next, vars, Second, Poll, PollTest, PollCheck, KeyManager_CheckAllKeys,
         NTPClient_AdvanceSimulatedTime, KeyManager_AddExternalKey, KeyManager_Reset,
         KeyManager_SimulateKeyExpiry, Client, ClientCall, ClientInitLock, ClientStart,
         ClientStartFails, RequestFirstKeys, ClientReady, ClientPublish, ClientOp, Stop,
         KeyManager_Stop, KeyManager_Stopped
    <2> QED
      BY <2>1, BoundsAssumption DEF PoolTypeOK
  <1>5. /\ manager' \in {"null", "set"} /\ is_inited' \in BOOLEAN /\ is_running' \in BOOLEAN
        /\ init_called' \in BOOLEAN /\ init_mutex' \in Clients \union {None}
        /\ poll' \in PollPC /\ threads' \in Nat /\ client' \in [Clients -> ClientPC]
    <2>1. ASSUME NEW c \in Clients, Client(c)
          PROVE  /\ manager' \in {"null", "set"} /\ is_inited' \in BOOLEAN
                 /\ is_running' \in BOOLEAN /\ init_called' \in BOOLEAN
                 /\ init_mutex' \in Clients \union {None} /\ poll' \in PollPC /\ threads' \in Nat
      <3>1. CASE ClientCall(c) \/ ClientInitLock(c)
        BY <3>1 DEF PoolTypeOK, ClientCall, ClientInitLock
      <3>2. CASE ClientStart(c) \/ ClientStartFails(c)
        <4>1. threads' \in Nat
          BY <3>2 DEF PoolTypeOK, ClientStart, ClientStartFails
        <4>2. /\ manager' \in {"null", "set"} /\ is_running' \in BOOLEAN
              /\ is_inited' = is_inited /\ init_called' = init_called
              /\ init_mutex' = init_mutex /\ poll' \in {poll, "test"}
          BY <3>2, Zenon DEF ClientStart, ClientStartFails
        <4> QED
          BY <4>1, <4>2 DEF PoolTypeOK
      <3>3. CASE ClientReady(c) \/ ClientPublish(c)
        BY <3>3 DEF PoolTypeOK, ClientReady, ClientPublish
      <3>4. CASE ClientOp(c)
        BY <3>4 DEF PoolTypeOK, ClientOp
      <3> QED
        BY <2>1, <3>1, <3>2, <3>3, <3>4 DEF Client
    <2>2. ASSUME NEW c \in Clients, Client(c) PROVE client' \in [Clients -> ClientPC]
      BY <2>2 DEF PoolTypeOK, Client, Step, ClientCall, ClientInitLock, ClientStart,
         ClientStartFails, ClientReady, ClientPublish, ClientOp
    <2>3. ASSUME NEW c \in Clients, Stop(c)
          PROVE  /\ is_inited' \in BOOLEAN /\ is_running' \in BOOLEAN
                 /\ UNCHANGED <<manager, init_called, init_mutex, threads, poll>>
                 /\ client' \in [Clients -> ClientPC]
      BY <2>3 DEF PoolTypeOK, Stop, Step, KeyManager_Stop, KeyManager_Stopped
    <2>4. Poll => poll' \in PollPC /\ UNCHANGED <<initVars, client>>
      BY DEF Poll, PollTest, PollCheck
    <2>5. Second \/ KeyManager_Reset
          \/ (\E s \in Advances : NTPClient_AdvanceSimulatedTime(s))
          \/ (\E m \in Expiries : KeyManager_SimulateKeyExpiry(m)) \/ UNCHANGED vars
          => UNCHANGED <<initVars, poll, client>>
      BY DEF Second, KeyManager_Reset, NTPClient_AdvanceSimulatedTime,
         KeyManager_SimulateKeyExpiry, vars
    <2> QED
      BY <2>1, <2>2, <2>3, <2>4, <2>5 DEF Next, PoolTypeOK
  <1> QED
    BY <1>1, <1>2, <1>3, <1>4, <1>5 DEF PoolTypeOK

\* The pool's variables keep their types; the clock its bound.
THEOREM PoolTypeCorrect == Spec => []PoolTypeOK
  BY PoolTypeInit, PoolTypeStep, PTL DEF Spec

-----------------------------------------------------------------------------
(* Where the keys come from and which of them stay.                        *)

LEMMA FitsInit == Init => Fits(local_keys)
  BY Emptied, EmptySeq DEF Init, KeyInfoList_Init, Fits

LEMMA StartInvInit == Init => StartInv
  BY DEF Init, StartInv, KeyInfoList_Init

LEMMA StartInvStep == PoolTypeOK /\ InitInv /\ StartInv /\ [Next]_vars => StartInv'
  <1> SUFFICES ASSUME PoolTypeOK, InitInv, StartInv, [Next]_vars PROVE StartInv'
    OBVIOUS
  <1> USE DEF timeVars, listVars, initVars
  <1> DEFINE Begun == local_keys.keys # <<>> \/ is_inited \/ \E c \in Clients : client[c] = "ready"
  <1>1. Begun => threads = 1
    BY DEF StartInv
  <1>2. ASSUME UNCHANGED <<local_keys, initVars, client>> PROVE StartInv'
    BY <1>2 DEF StartInv
  <1>3. ASSUME UNCHANGED <<initVars, client>>, is_inited PROVE StartInv'
    BY <1>1, <1>3 DEF StartInv
  <1>4. Second \/ PollTest \/ UNCHANGED vars
        \/ (\E s \in Advances : NTPClient_AdvanceSimulatedTime(s))
        => UNCHANGED <<local_keys, initVars, client>>
    BY DEF Second, PollTest, NTPClient_AdvanceSimulatedTime, vars
  <1>5. PollCheck => \/ UNCHANGED <<local_keys, initVars, client>>
                     \/ UNCHANGED <<initVars, client>> /\ is_inited
    BY DEF PollCheck
  <1>6. CASE KeyManager_Reset
    <2>1. local_keys'.keys = <<>>
      BY <1>6, Emptied DEF KeyManager_Reset, PoolTypeOK
    <2> QED
      BY <1>1, <1>6, <2>1 DEF KeyManager_Reset, StartInv
  <1>7. (\E m \in Expiries : KeyManager_SimulateKeyExpiry(m))
        => UNCHANGED <<initVars, client>> /\ is_inited
    BY DEF KeyManager_SimulateKeyExpiry
  <1>8. ASSUME NEW c \in Clients, Client(c) PROVE StartInv'
    <2>1. CASE ClientCall(c) \/ ClientInitLock(c)
      BY <1>1, <2>1 DEF ClientCall, ClientInitLock, Step, StartInv, InitInv, ClientPC
    <2>2. CASE ClientStart(c)
      BY <2>2 DEF ClientStart, Step, StartInv, InitInv
    <2>3. CASE ClientStartFails(c)
      <3>1. local_keys'.keys = <<>>
        BY <2>3 DEF ClientStartFails, KeyInfoList_Init
      <3> QED
        BY <1>1, <2>3, <3>1 DEF ClientStartFails, Step, StartInv, InitInv, ClientPC
    <2>4. CASE ClientReady(c) \/ ClientPublish(c)
      BY <1>1, <2>4 DEF ClientReady, ClientPublish, Step, StartInv, InitInv, ClientPC
    <2>5. CASE ClientOp(c)
      BY <1>1, <2>5 DEF ClientOp, Step, StartInv, InitInv, ClientPC
    <2> QED
      BY <1>8, <2>1, <2>2, <2>3, <2>4, <2>5 DEF Client
  <1>9. ASSUME NEW c \in Clients, Stop(c) PROVE StartInv'
    <2>1. CASE KeyManager_Stop(c)
      BY <1>1, <2>1 DEF KeyManager_Stop, Step, StartInv, InitInv, ClientPC
    <2>2. CASE KeyManager_Stopped(c)
      <3>1. local_keys'.keys = <<>>
        BY <2>2, Emptied DEF KeyManager_Stopped, PoolTypeOK
      <3> QED
        BY <1>1, <2>2, <3>1 DEF KeyManager_Stopped, Step, StartInv, InitInv, ClientPC
    <2> QED
      BY <1>9, <2>1, <2>2 DEF Stop
  <1> QED
    BY <1>2, <1>3, <1>4, <1>5, <1>6, <1>7, <1>8, <1>9 DEF Next, Poll

\* The first keys are put into an empty list.
LEMMA FirstIsFirst ==
  ASSUME KindFirst, InitInv, StartInv
  PROVE  local_keys.keys = <<>>
  BY DEF KindFirst, InitInv, StartInv

\* The status of the key was given to it by the clock in this step.
Given(k) == \E r \in CurrentTime .. clock' : Current(k, r)

\* A key in the list was there before, with its old status or with one that
\* the clock gives, or it was made in this step; only by hand is it given
\* another status.
LEMMA Origins ==
  ASSUME [Next]_vars, PoolTypeOK, NEW i \in 1 .. Len(local_keys'.keys)
  PROVE  LET ks == local_keys.keys
             l  == local_keys'.keys[i]
         IN  /\ l \in Keys
             /\ \/ \E j \in 1 .. Len(ks) :
                      /\ ks[j] \in Keys /\ IdOf(l) = IdOf(ks[j]) /\ l.ts = ks[j].ts
                      /\ l = ks[j] \/ Given(l) \/ Expiries # {}
                \/ l.ts \in CurrentTime .. clock' /\ Given(l)
  <1> DEFINE ks == local_keys.keys
             ls == local_keys'.keys
             Old == \E j \in 1 .. Len(ks) :
                       /\ ks[j] \in Keys /\ IdOf(ls[i]) = IdOf(ks[j]) /\ ls[i].ts = ks[j].ts
                       /\ ls[i] = ks[j] \/ Given(ls[i]) \/ Expiries # {}
             New == ls[i].ts \in CurrentTime .. clock' /\ Given(ls[i])
             Times == CurrentTime .. clock'
  <1>1. local_keys \in KeyInfoList /\ ks \in Seq(Keys) /\ Len(ks) \in Nat
    BY LenProperties DEF PoolTypeOK, KeyInfoList
  <1>2. \A j \in 1 .. Len(ks) : ks[j] \in Keys
    BY <1>1, ElementOfSeq
  <1>3. CurrentTime \in Nat /\ clock' \in Nat /\ \A r \in Times : r \in Nat
    BY Clocks
  <1>4. ls[i] \in Keys
    BY ListStep, ElementOfSeq DEF KeyInfoList
  <1>5. ASSUME NEW j \in 1 .. Len(ks), NEW r \in Times, ls[i] = UpdateKeyStatus(ks[j], r)
        PROVE  Old
    <2>1. /\ IdOf(ls[i]) = IdOf(ks[j]) /\ ls[i].ts = ks[j].ts
          /\ Current(ls[i], r)
      BY <1>2, <1>3, <1>5, Updated
    <2>2. Given(ls[i])
      BY <2>1 DEF Given
    <2> QED
      BY <1>2, <2>1, <2>2
  <1>6. ASSUME NEW r \in Times, NEW n \in Nat, ls[i] = KeyInfo_Init("key", r, n)
        PROVE  New
    <2>1. "key" \in {"key", "ext"}
      OBVIOUS
    <2>2. ls[i].ts = r /\ Current(ls[i], r)
      BY <1>3, <1>6, <2>1, NewKey
    <2> QED
      BY <2>2 DEF Given
  <1>7. CASE KindIdle
    BY <1>2, <1>4, <1>7 DEF KindIdle
  <1>8. CASE KindCheck
    <2>1. PICK now \in [1 .. Len(ks) + Threshold -> Times] :
             local_keys' \in Maintain(local_keys, now)
      BY <1>8 DEF KindCheck
    <2>2. \/ \E j \in 1 .. Len(ks), r \in Times : ls[i] = UpdateKeyStatus(ks[j], r)
          \/ \E r \in Times, n \in Nat : ls[i] = KeyInfo_Init("key", r, n)
      BY <1>1, <1>3, <2>1, Maintained
    <2> HIDE DEF Old, New
    <2>3. Old \/ New
      BY <1>5, <1>6, <2>2
    <2> QED
      BY <1>4, <2>3 DEF Old, New
  <1>9. CASE KindExternal
    <2> DEFINE x == seq' % ExtIdModulus
    <2>1. PICK now \in [1 .. 2 -> Times] : local_keys' \in AddExternal(local_keys, now, x)
      BY <1>9 DEF KindExternal
    <2>2. x \in Nat
      BY <1>9, Clocks, ConfigAssumption DEF KindExternal
    <2>3. now \in [1 .. 2 -> Nat] /\ now[1] \in Times /\ now[2] \in Times
      BY <1>3
    <2> HIDE DEF x
    <2> DEFINE k == KeyInfo_Init("ext", now[1], x)
    <2>0. /\ i \in 1 .. Len(ks) => ls[i] \in {ks[i], UpdateKeyStatus(ks[i], now[2])}
          /\ i \in 1 .. Len(ks) \/ ls[i] = UpdateKeyStatus(k, now[2])
      <3> HIDE DEF Old, New, Times
      <3> QED
        BY <1>1, <2>1, <2>2, <2>3, AddedExternal
    <2>4. CASE i \in 1 .. Len(ks)
      <3>1. ls[i] \in {ks[i], UpdateKeyStatus(ks[i], now[2])}
        BY <2>0, <2>4
      <3>2. CASE ls[i] = ks[i]
        BY <1>2, <1>4, <2>4, <3>2
      <3>3. CASE ls[i] = UpdateKeyStatus(ks[i], now[2])
        <4> HIDE DEF Old
        <4>1. Old
          BY <1>5, <2>3, <2>4, <3>3
        <4> QED
          BY <1>4, <4>1 DEF Old
      <3> QED
        BY <3>1, <3>2, <3>3
    <2>5. CASE i \notin 1 .. Len(ks)
      <3>1. ls[i] = UpdateKeyStatus(k, now[2])
        BY <2>0, <2>5
      <3>2. k \in Keys /\ k.ts = now[1]
        <4>1. "ext" \in {"key", "ext"} /\ now[1] \in Nat
          BY <1>3, <2>3
        <4> QED
          BY <2>2, <4>1, NewKey
      <3> HIDE DEF k
      <3>3. ls[i].ts \in Times /\ Current(ls[i], now[2])
        <4>1. now[2] \in Nat
          BY <1>3, <2>3
        <4> QED
          BY <2>3, <3>1, <3>2, <4>1, Updated
      <3> QED
        BY <1>4, <2>3, <3>3 DEF Given
    <2> QED
      BY <2>4, <2>5
  <1>10. CASE KindFirst
    <2>1. PICK now \in [1 .. Threshold -> Times] :
             local_keys' \in CheckAndRequestKeys(KeyInfoList_Init, now)
      BY <1>10 DEF KindFirst
    <2>2. \A h \in 1 .. Threshold : now[h] \in Times
      OBVIOUS
    <2>3. Refilled(<<>>, ls, CurrentTime, clock')
      BY <1>1, <1>3, <2>1, <2>2, Emptied, Requested
    <2>4. \E r \in Times, n \in Nat : ls[i] = KeyInfo_Init("key", r, n)
      BY <2>3, EmptySeq DEF Refilled
    <2> HIDE DEF New
    <2>5. New
      BY <1>6, <2>4
    <2> QED
      BY <1>4, <2>5 DEF New
  <1>11. CASE KindEmpty
    <2>1. ls = <<>>
      BY <1>1, <1>11, Emptied DEF KindEmpty
    <2> QED
      BY <2>1, EmptySeq
  <1>12. CASE KindMarked
    <2>1. PICK n \in Expiries : local_keys' = SimulateExpiry(local_keys, n)
      BY <1>12 DEF KindMarked
    <2>2. n \in Nat
      BY BoundsAssumption
    <2>3. SameButStatus(local_keys, local_keys')
      BY <1>1, <2>1, <2>2, Simulated
    <2> QED
      BY <1>2, <1>4, <2>1, <2>3 DEF SameButStatus
  <1> QED
    BY <1>7, <1>8, <1>9, <1>10, <1>11, <1>12, StepKinds

\* The inductive invariant of the list.
PoolInv == PoolTypeOK /\ InitInv /\ StartInv /\ Fits(local_keys)

LEMMA PoolInvAlways == Spec => []PoolInv
  <1>1. Init => PoolInv
    BY PoolTypeInit, InitInvInit, StartInvInit, FitsInit DEF PoolInv
  <1>2. PoolInv /\ [Next]_vars => PoolInv'
    BY PoolTypeStep, InitInvStep, StartInvStep, ListStep DEF PoolInv
  <1> QED
    BY <1>1, <1>2, PTL DEF Spec

\* Whatever the sequence of growing, shrinking and failing allocations, the
\* list does not believe in more room than its block has.
THEOREM BufferIsTrue == Spec => []BufferHoldsKeys
  <1>1. PoolInv => BufferHoldsKeys
    <2> SUFFICES ASSUME PoolInv PROVE BufferHoldsKeys
      OBVIOUS
    <2>1. /\ local_keys.keys \in Seq(Keys) /\ local_keys.block \in Nat /\ local_keys.capacity \in Nat
          /\ Fits(local_keys)
      BY DEF PoolInv, PoolTypeOK, KeyInfoList
    <2>2. Len(local_keys.keys) \in Nat
          /\ (Len(local_keys.keys) = 0 => local_keys.keys = <<>>)
      BY <2>1, LenProperties, EmptySeq
    <2> QED
      BY <2>1, <2>2 DEF Fits, BufferHoldsKeys
  <1> QED
    BY <1>1, PoolInvAlways, PTL

\* Which keys stay: all but the old ones, unless the list becomes empty.
LEMMA Stays ==
  ASSUME PoolInv, [Next]_vars, local_keys'.keys # <<>>, NEW j \in 1 .. Len(local_keys.keys),
         clock' < KeyInfo_GetDeleteTime(local_keys.keys[j])
  PROVE  \E i \in 1 .. Len(local_keys'.keys) :
            IdOf(local_keys'.keys[i]) = IdOf(local_keys.keys[j])
  <1> DEFINE ks == local_keys.keys
             ls == local_keys'.keys
  <1>1. /\ local_keys \in KeyInfoList /\ ks[j] \in Keys
        /\ CurrentTime \in Nat /\ clock' \in Nat /\ local_keys' \in KeyInfoList
    BY Clocks, ListStep, ElementOfSeq DEF PoolInv, PoolTypeOK, KeyInfoList
  <1>2. CASE KindIdle
    BY <1>2 DEF KindIdle
  <1>3. CASE KindCheck
    <2>1. PICK now \in [1 .. Len(ks) + Threshold -> CurrentTime .. clock'] :
             local_keys' \in Maintain(local_keys, now)
      BY <1>3 DEF KindCheck
    <2>2. PICK i \in 1 .. Len(ls), r \in CurrentTime .. clock' : ls[i] = UpdateKeyStatus(ks[j], r)
      BY <1>1, <2>1, Maintained
    <2>3. r \in Nat
      BY <1>1
    <2> QED
      BY <1>1, <2>2, <2>3, Updated
  <1>4. CASE KindExternal
    <2> DEFINE x == seq' % ExtIdModulus
    <2>1. PICK now \in [1 .. 2 -> CurrentTime .. clock'] :
             local_keys' \in AddExternal(local_keys, now, x)
      BY <1>4 DEF KindExternal
    <2>2. x \in Nat
      BY <1>4, Clocks, ConfigAssumption DEF KindExternal, PoolInv
    <2> HIDE DEF x
    <2>3. Len(ks) <= Len(ls) /\ ls[j] \in {ks[j], UpdateKeyStatus(ks[j], now[2])}
      <3>1. now \in [1 .. 2 -> Nat]
        BY <1>1
      <3> QED
        BY <1>1, <2>1, <2>2, <3>1, AddedExternal
    <2>4. Len(ks) \in Nat /\ Len(ls) \in Nat
      BY <1>1, LenProperties DEF KeyInfoList
    <2>5. j \in 1 .. Len(ls)
      BY <2>3, <2>4
    <2>6. IdOf(UpdateKeyStatus(ks[j], now[2])) = IdOf(ks[j])
      <3>1. now[2] \in Nat
        BY <1>1
      <3> QED
        BY <1>1, <3>1, Updated
    <2> QED
      BY <2>3, <2>5, <2>6
  <1>5. CASE KindFirst
    <2>1. ks = <<>>
      BY <1>5, FirstIsFirst DEF PoolInv
    <2> QED
      BY <2>1, EmptySeq
  <1>6. CASE KindEmpty
    BY <1>1, <1>6, Emptied DEF KindEmpty
  <1>7. CASE KindMarked
    <2>1. PICK n \in Expiries : local_keys' = SimulateExpiry(local_keys, n)
      BY <1>7 DEF KindMarked
    <2>2. n \in Nat
      BY BoundsAssumption
    <2> QED
      BY <1>1, <2>1, <2>2, Simulated DEF SameButStatus
  <1> QED
    BY <1>2, <1>3, <1>4, <1>5, <1>6, <1>7, StepKinds DEF PoolInv

\* No step but a stop or a reset takes a key from the list before its freeze
\* period is over, whatever status it was given by hand.
THEOREM OldKeysOnly == Spec => OnlyOldKeysRemoved
  <1> DEFINE Removed == local_keys'.keys # <<>> =>
                \A k \in ToSet(local_keys.keys) : IdOf(k) \notin IdsOf(local_keys'.keys)
                    => KeyInfo_GetDeleteTime(k) <= clock'
  <1>1. PoolInv /\ [Next]_vars => Removed
    <2> SUFFICES ASSUME PoolInv, [Next]_vars, local_keys'.keys # <<>>,
                        NEW k \in ToSet(local_keys.keys),
                        IdOf(k) \notin IdsOf(local_keys'.keys)
                 PROVE  KeyInfo_GetDeleteTime(k) <= clock'
      OBVIOUS
    <2>1. /\ local_keys.keys \in Seq(Keys) /\ local_keys'.keys \in Seq(Keys) /\ clock' \in Nat
      BY ListStep, Clocks DEF PoolInv, PoolTypeOK, KeyInfoList
    <2>2. PICK j \in 1 .. Len(local_keys.keys) : k = local_keys.keys[j]
      BY <2>1, Elements
    <2>3. KeyInfo_GetDeleteTime(k) \in Nat
      <3>1. k \in Keys
        BY <2>1, <2>2, ElementOfSeq
      <3> QED
        BY <3>1, ConfigAssumption DEF Keys, KeyInfo_GetDeleteTime, KeyInfo_GetExpireTime
    <2>4. \A i \in 1 .. Len(local_keys'.keys) : IdOf(local_keys'.keys[i]) # IdOf(k)
      BY <2>1, Elements DEF IdsOf
    <2>5. ~(clock' < KeyInfo_GetDeleteTime(k))
      BY <2>2, <2>4, Stays
    <2> QED
      BY <2>1, <2>3, <2>5
  <1>2. PoolInv /\ [Next]_vars => [Removed]_vars
    BY <1>1
  <1> QED
    BY <1>2, PoolInvAlways, PTL DEF Spec, OnlyOldKeysRemoved

\* Every round of the poll thread ends with enough valid keys, if there is
\* memory for them.
THEOREM ThresholdRestored == Spec => PollRestoresThreshold
  <1> DEFINE Restored == poll = "sleep" /\ poll' = "test" /\ is_inited /\ ~AllocCanFail
                           => Cardinality(ValidKeys(local_keys')) >= Threshold
  <1>1. PoolTypeOK /\ [Next]_vars => Restored
    <2> SUFFICES ASSUME PoolTypeOK, [Next]_vars, poll = "sleep", poll' = "test", is_inited,
                        ~AllocCanFail
                 PROVE  Cardinality(ValidKeys(local_keys')) >= Threshold
      OBVIOUS
    <2>1. PollCheck
      <3>1. ASSUME NEW c \in Clients, Client(c) \/ Stop(c) PROVE poll' = poll
        <4>1. ~ClientStart(c)
          BY DEF ClientStart
        <4> QED
          BY <3>1, <4>1 DEF Client, ClientCall, ClientInitLock, ClientStartFails, ClientReady,
             ClientPublish, ClientOp, Stop, KeyManager_Stop, KeyManager_Stopped
      <3>2. Second \/ KeyManager_Reset \/ UNCHANGED vars
            \/ (\E s \in Advances : NTPClient_AdvanceSimulatedTime(s))
            \/ (\E n \in Expiries : KeyManager_SimulateKeyExpiry(n))
            => poll' = poll
        BY DEF Second, KeyManager_Reset, NTPClient_AdvanceSimulatedTime,
           KeyManager_SimulateKeyExpiry, vars
      <3> QED
        BY <3>1, <3>2 DEF Next, Poll, PollTest
    <2>2. PICK now \in [1 .. Len(local_keys.keys) + Threshold -> CurrentTime .. clock'] :
             local_keys' \in Maintain(local_keys, now)
      BY <2>1, CheckIsKind DEF PollCheck, KindCheck
    <2>3. local_keys \in KeyInfoList /\ CurrentTime \in Nat /\ clock' \in Nat
      BY Clocks DEF PoolTypeOK
    <2>4. Cardinality(Valid(local_keys'.keys)) >= Threshold /\ local_keys' \in KeyInfoList
      BY <2>2, <2>3, Maintained
    <2>5. ValidKeys(local_keys') = Valid(local_keys'.keys)
      BY <2>4, Positions DEF KeyInfoList
    <2> QED
      BY <2>4, <2>5
  <1>2. PoolTypeOK /\ [Next]_vars => [Restored]_vars
    BY <1>1
  <1> QED
    BY <1>2, PoolTypeCorrect, PTL DEF Spec, PollRestoresThreshold

-----------------------------------------------------------------------------
(* The statuses. *)

LEMMA StatusInvStep == PoolInv /\ StatusInv /\ [Next]_vars => StatusInv'
  <1> DEFINE ks == local_keys.keys
             ls == local_keys'.keys
  <1> SUFFICES ASSUME PoolInv, StatusInv, [Next]_vars, Expiries = {}, NEW i \in 1 .. Len(ls)
               PROVE  /\ ls[i].status # "VALID" => KeyInfo_GetExpireTime(ls[i]) <= clock'
                      /\ ls[i].status = "DELETED" => KeyInfo_GetDeleteTime(ls[i]) <= clock'
    BY DEF StatusInv
  <1>1. clock \in Nat /\ clock' \in Nat /\ clock <= clock' /\ CurrentTime \in Nat
    BY Clocks DEF PoolInv
  <1>2. ls[i] \in Keys /\ ((\E j \in 1 .. Len(ks) : ls[i] = ks[j]) \/ Given(ls[i]))
    BY Origins DEF PoolInv
  <1>3. KeyInfo_GetExpireTime(ls[i]) \in Nat /\ KeyInfo_GetDeleteTime(ls[i]) \in Nat
    BY <1>2, ConfigAssumption DEF Keys, KeyInfo_GetDeleteTime, KeyInfo_GetExpireTime
  <1>4. CASE \E j \in 1 .. Len(ks) : ls[i] = ks[j]
    BY <1>1, <1>3, <1>4 DEF StatusInv
  <1>5. CASE Given(ls[i])
    BY <1>1, <1>3, <1>5 DEF Given, Current
  <1> QED
    BY <1>2, <1>4, <1>5

LEMMA StatusInvAlways == Spec => []StatusInv
  <1>1. Init => StatusInv
    <2>1. KeyInfoList_Init.keys = <<>>
      BY DEF KeyInfoList_Init
    <2> QED
      BY <2>1, EmptySeq DEF Init, StatusInv
  <1> QED
    BY <1>1, StatusInvStep, PoolInvAlways, PTL DEF Spec

\* Unless keys are expired by hand, no key becomes valid again, and no key
\* comes back from the dead, as long as its id tells it from the others.
THEOREM StatusOnlyForward == Spec => StatusNeverBack
  <1> DEFINE Forward ==
                \A k \in ToSet(local_keys.keys), l \in ToSet(local_keys'.keys) :
                  IdOf(k) = IdOf(l) /\ Unambiguous(k) /\ Expiries = {} =>
                      /\ l.status = "VALID" => k.status = "VALID"
                      /\ k.status = "DELETED" => l.status = "DELETED"
  <1>1. PoolInv /\ StatusInv /\ [Next]_vars => Forward
    <2> SUFFICES ASSUME PoolInv, StatusInv, [Next]_vars, Expiries = {},
                        NEW k \in ToSet(local_keys.keys), NEW l \in ToSet(local_keys'.keys),
                        IdOf(k) = IdOf(l), Unambiguous(k)
                 PROVE  /\ l.status = "VALID" => k.status = "VALID"
                        /\ k.status = "DELETED" => l.status = "DELETED"
      OBVIOUS
    <2> DEFINE ks == local_keys.keys
               ls == local_keys'.keys
    <2>1. ks \in Seq(Keys) /\ ls \in Seq(Keys)
      BY ListStep DEF PoolInv, PoolTypeOK, KeyInfoList
    <2>2. PICK h \in 1 .. Len(ks) : k = ks[h]
      BY <2>1, Elements
    <2>3. PICK i \in 1 .. Len(ls) : l = ls[i]
      BY <2>1, Elements
    <2>4. clock \in Nat /\ clock' \in Nat /\ CurrentTime \in Nat /\ clock <= CurrentTime /\ k \in Keys
      <3>1. k \in Keys
        BY <2>1, <2>2, ElementOfSeq
      <3>2. clock \in Nat /\ clock' \in Nat /\ CurrentTime \in Nat /\ clock <= CurrentTime
        BY Clocks DEF PoolInv
      <3> QED
        BY <3>1, <3>2
    <2>5. /\ KeyInfo_GetExpireTime(k) \in Nat /\ KeyInfo_GetDeleteTime(k) \in Nat
          /\ k.status # "VALID" => KeyInfo_GetExpireTime(k) <= clock
          /\ k.status = "DELETED" => KeyInfo_GetDeleteTime(k) <= clock
      <3>1. KeyInfo_GetExpireTime(k) \in Nat /\ KeyInfo_GetDeleteTime(k) \in Nat
        BY <2>4, ConfigAssumption DEF Keys, KeyInfo_GetDeleteTime, KeyInfo_GetExpireTime
      <3>2. /\ k.status # "VALID" => KeyInfo_GetExpireTime(k) <= clock
            /\ k.status = "DELETED" => KeyInfo_GetDeleteTime(k) <= clock
        BY <2>2 DEF StatusInv
      <3> QED
        BY <3>1, <3>2
    <2>6. \/ \E j \in 1 .. Len(ks) : IdOf(l) = IdOf(ks[j]) /\ (l = ks[j] \/ Given(l))
          \/ l.ts \in CurrentTime .. clock' /\ Given(l)
      BY <2>3, Origins DEF PoolInv
    <2>7. KeyInfo_GetExpireTime(l) = KeyInfo_GetExpireTime(k)
          /\ KeyInfo_GetDeleteTime(l) = KeyInfo_GetDeleteTime(k) /\ l.ts = k.ts
      BY DEF IdOf, KeyInfo_GetExpireTime, KeyInfo_GetDeleteTime
    <2>8. CASE \E j \in 1 .. Len(ks) : IdOf(l) = IdOf(ks[j]) /\ l = ks[j]
      <3>1. l = k
        BY <2>1, <2>8, Elements DEF Unambiguous
      <3> QED
        BY <3>1
    <2>9. CASE Given(l)
      <3>1. PICK r \in CurrentTime .. clock' : Current(l, r)
        BY <2>9 DEF Given
      <3>2. /\ l.status = "VALID" <=> r < KeyInfo_GetExpireTime(k)
            /\ l.status = "DELETED" <=> KeyInfo_GetDeleteTime(k) <= r
        BY <2>7, <3>1 DEF Current
      <3> QED
        BY <2>4, <2>5, <3>2
    <2> QED
      BY <2>6, <2>8, <2>9
  <1>2. PoolInv /\ StatusInv /\ [Next]_vars => [Forward]_vars
    BY <1>1
  <1> QED
    BY <1>2, PoolInvAlways, StatusInvAlways, PTL DEF Spec, StatusNeverBack

-----------------------------------------------------------------------------
(* The memory of the list. *)

\* Whatever allocations fail, memory that is not the list's is touched only
\* when no key is left in it, or none that is still in use.
THEOREM MemoryIsKeptWhileKeysLast == Spec => OnlyEmptyListGoesWrong
  <1> DEFINE Harmless == local_keys.sound /\ ~local_keys'.sound =>
                \A k \in ToSet(local_keys.keys) : KeyInfo_GetDeleteTime(k) <= clock'
  <1>1. PoolInv /\ [Next]_vars => Harmless
    <2> SUFFICES ASSUME PoolInv, [Next]_vars, local_keys.sound,
                        NEW k \in ToSet(local_keys.keys),
                        ~(KeyInfo_GetDeleteTime(k) <= clock')
                 PROVE  local_keys'.sound
      OBVIOUS
    <2> DEFINE ks == local_keys.keys
    <2>1. local_keys \in KeyInfoList /\ ks \in Seq(Keys) /\ Fits(local_keys)
      BY DEF PoolInv, PoolTypeOK, KeyInfoList
    <2>2. PICK j \in 1 .. Len(ks) : k = ks[j]
      BY <2>1, Elements
    <2>3. ks # <<>> /\ k \in Keys
      BY <2>1, <2>2, EmptySeq, ElementOfSeq
    <2>4. Safe(local_keys) /\ ~Dangling(local_keys)
      BY <2>1, <2>3, NonEmptySafe
    <2>5. CurrentTime \in Nat /\ clock' \in Nat /\ KeyInfo_GetDeleteTime(k) \in Nat
      BY <2>3, Clocks, ConfigAssumption
         DEF PoolInv, Keys, KeyInfo_GetDeleteTime, KeyInfo_GetExpireTime
    <2>6. clock' < KeyInfo_GetDeleteTime(ks[j])
      BY <2>2, <2>5
    <2>7. CASE KindIdle
      BY <2>7 DEF KindIdle
    <2>8. CASE KindCheck
      <3>1. PICK now \in [1 .. Len(ks) + Threshold -> CurrentTime .. clock'] :
               local_keys' \in Maintain(local_keys, now)
        BY <2>8 DEF KindCheck
      <3>2. Safe(local_keys')
        BY <2>1, <2>2, <2>4, <2>5, <2>6, <3>1, Maintained
      <3> QED
        BY <3>2 DEF Safe
    <2>9. CASE KindExternal
      <3>1. seq' % ExtIdModulus \in Nat
        BY <2>9, Clocks, ConfigAssumption DEF KindExternal, PoolInv
      <3>2. PICK now \in [1 .. 2 -> CurrentTime .. clock'] :
               local_keys' \in AddExternal(local_keys, now, seq' % ExtIdModulus)
        BY <2>9 DEF KindExternal
      <3>3. now \in [1 .. 2 -> Nat]
        BY <2>5
      <3> QED
        BY <2>1, <2>3, <2>4, <3>1, <3>2, <3>3, AddedExternal
    <2>10. CASE KindFirst
      BY <2>3, <2>10, FirstIsFirst DEF PoolInv
    <2>11. CASE KindEmpty
      <3>1. KeyInfoList_Init.sound
        BY DEF KeyInfoList_Init
      <3>2. KeyInfoList_Free(local_keys).sound = (local_keys.sound /\ ~Dangling(local_keys))
        BY DEF KeyInfoList_Init, KeyInfoList_Free
      <3>3. KeyInfoList_Free(local_keys).sound
        BY <2>4, <3>2, Zenon DEF Safe
      <3> QED
        BY <2>11, <3>1, <3>3 DEF KindEmpty
    <2>12. CASE KindMarked
      <3>1. PICK n \in Expiries : local_keys' = SimulateExpiry(local_keys, n)
        BY <2>12 DEF KindMarked
      <3>2. n \in Nat
        BY BoundsAssumption
      <3> QED
        BY <2>1, <3>1, <3>2, Simulated
    <2> QED
      BY <2>7, <2>8, <2>9, <2>10, <2>11, <2>12, StepKinds DEF PoolInv
  <1>2. PoolInv /\ [Next]_vars => [Harmless]_vars
    BY <1>1
  <1> QED
    BY <1>2, PoolInvAlways, PTL DEF Spec, OnlyEmptyListGoesWrong

=============================================================================
