--------------------------- MODULE CondVar_proofs ---------------------------
(***************************************************************************)
(* No wake-up is lost, on either platform, for any number of signalling    *)
(* threads.                                                                *)
(***************************************************************************)
EXTENDS CondVar, TLAPS

\* Who holds the mutex.
HolderInv ==
    /\ mu = "waiter" <=> waiter \in {"test", "unlock_wait", "take"}
    /\ mu = "stopper" <=> stopper \in {"broadcast", "unlock"}
    /\ \A s \in Signallers : mu = s <=> signaller[s] \in {"put", "signal", "unlock"}

\* What the waiter knows: past the loop there is a reason to be there, and
\* the event object and the sleep of pthread_cond_wait belong to one
\* platform each.
WaiterInv ==
    /\ waiter = "take" => items > 0 \/ stop
    /\ waiter = "asleep" => platform = "posix"
    /\ waiter \in {"unlock_wait", "wait", "reset"} => platform = "windows"
    /\ stopper = "run" <=> ~stop

CondInv == CondTypeOK /\ HolderInv /\ WaiterInv /\ WakeupPending

LEMMA CondInit == Init => CondInv
  <1> SUFFICES ASSUME Init PROVE CondInv
    OBVIOUS
  <1>1. CondTypeOK
    BY DEF Init, CondTypeOK, WaiterPC, SignalPC, StopPC
  <1>2. HolderInv
    BY ThreadsAssumption DEF Init, HolderInv
  <1>3. WaiterInv /\ WakeupPending
    BY DEF Init, WaiterInv, WakeupPending
  <1> QED
    BY <1>1, <1>2, <1>3 DEF CondInv

LEMMA CondWaiter == ASSUME CondInv, Waiter \/ SpuriousWakeup PROVE CondInv'
  <1> USE ThreadsAssumption DEF CondInv, Waiter, WaitStep, qks_mutex_lock, qks_mutex_unlock
  <1>1. CondTypeOK'
    <2>1. ev' \in BOOLEAN
      BY DEF CondTypeOK, SpuriousWakeup, WaiterLock, WaiterTest, WaiterUnlocks, WaiterWakes,
         WaiterResets, WaiterRelocks, WaiterTakes
    <2>2. UNCHANGED <<platform, puts, stop, signaller, stopper>>
      BY DEF SpuriousWakeup
    <2>3. items' \in Nat /\ waiter' \in WaiterPC
          /\ mu' \in Signallers \union {"waiter", "stopper", None}
      BY DEF CondTypeOK, WaiterInv, WaiterPC, SpuriousWakeup, WaiterLock, WaiterTest,
         WaiterUnlocks, WaiterWakes, WaiterResets, WaiterRelocks, WaiterTakes
    <2> QED
      BY <2>1, <2>2, <2>3 DEF CondTypeOK
  <1>2. HolderInv'
    BY DEF HolderInv, SpuriousWakeup, WaiterLock, WaiterTest, WaiterUnlocks, WaiterWakes,
       WaiterResets, WaiterRelocks, WaiterTakes
  <1>3. WaiterInv'
    BY DEF CondTypeOK, WaiterInv, SpuriousWakeup, WaiterLock, WaiterTest, WaiterUnlocks,
       WaiterWakes, WaiterResets, WaiterRelocks, WaiterTakes
  <1>4. WakeupPending'
    BY DEF CondTypeOK, WaiterInv, WakeupPending, SpuriousWakeup, WaiterLock, WaiterTest,
       WaiterUnlocks, WaiterWakes, WaiterResets, WaiterRelocks, WaiterTakes
  <1> QED
    BY <1>1, <1>2, <1>3, <1>4

LEMMA CondSignaller == ASSUME CondInv, NEW s \in Signallers, Signaller(s) PROVE CondInv'
  <1> USE ThreadsAssumption DEF CondInv, Signaller, SignalStep, qks_mutex_lock,
          qks_mutex_unlock, qks_cond_signal
  <1>1. CondTypeOK'
    <2>1. ev' \in BOOLEAN
      BY DEF CondTypeOK, SignallerLock, SignallerPut, SignallerSignal, SignallerUnlock
    <2>2. UNCHANGED <<platform, stop, stopper>>
      BY DEF SignallerLock, SignallerPut, SignallerSignal, SignallerUnlock
    <2>3. items' \in Nat /\ puts' \in Nat /\ waiter' \in WaiterPC
      BY DEF CondTypeOK, WaiterPC, SignallerLock, SignallerPut, SignallerSignal,
         SignallerUnlock
    <2>4. signaller' \in [Signallers -> SignalPC]
          /\ mu' \in Signallers \union {"waiter", "stopper", None}
      BY DEF CondTypeOK, SignalPC, SignallerLock, SignallerPut, SignallerSignal,
         SignallerUnlock
    <2> QED
      BY <2>1, <2>2, <2>3, <2>4 DEF CondTypeOK
  <1>2. HolderInv'
    BY DEF CondTypeOK, HolderInv, SignallerLock, SignallerPut, SignallerSignal, SignallerUnlock
  <1>3. WaiterInv'
    BY DEF CondTypeOK, WaiterInv, SignallerLock, SignallerPut, SignallerSignal,
       SignallerUnlock
  <1>4. WakeupPending'
    BY DEF CondTypeOK, HolderInv, WaiterInv, WakeupPending, SignallerLock, SignallerPut,
       SignallerSignal, SignallerUnlock
  <1> QED
    BY <1>1, <1>2, <1>3, <1>4

LEMMA CondStopper == ASSUME CondInv, Stopper PROVE CondInv'
  <1> USE ThreadsAssumption DEF CondInv, Stopper, StopStep, qks_mutex_lock,
          qks_mutex_unlock, qks_cond_signal
  <1>1. CondTypeOK'
    BY DEF CondTypeOK, WaiterPC, StopPC, StopperSets, StopperLock, StopperBroadcast,
       StopperUnlock
  <1>2. HolderInv'
    BY DEF HolderInv, StopperSets, StopperLock, StopperBroadcast, StopperUnlock
  <1>3. WaiterInv'
    BY DEF WaiterInv, StopperSets, StopperLock, StopperBroadcast, StopperUnlock
  <1>4. WakeupPending'
    BY DEF WaiterInv, WakeupPending, StopperSets, StopperLock, StopperBroadcast, StopperUnlock
  <1> QED
    BY <1>1, <1>2, <1>3, <1>4

LEMMA CondStep == CondInv /\ [Next]_vars => CondInv'
  <1> SUFFICES ASSUME CondInv, [Next]_vars PROVE CondInv'
    OBVIOUS
  <1>1. CASE UNCHANGED vars
    BY <1>1 DEF vars, CondInv, CondTypeOK, HolderInv, WaiterInv, WakeupPending
  <1> QED
    BY <1>1, CondWaiter, CondSignaller, CondStopper DEF Next

LEMMA CondAlways == Spec => []CondInv
  BY CondInit, CondStep, PTL DEF Spec

\* Every variable keeps its type; in particular, no more is ever taken than
\* was put in.
THEOREM CondTypeCorrect == Spec => []CondTypeOK
  BY CondAlways, PTL DEF CondInv

\* A waiting thread with a reason to wake up always has a wake-up coming,
\* although leaving the mutex, waiting, resetting the event and entering the
\* mutex again are not atomic, and although stop is set without the mutex.
THEOREM NoLostWakeup == Spec => []WakeupPending
  BY CondAlways, PTL DEF CondInv

\* Only what was put in is taken, and only a stopped thread ends.
THEOREM TakesWhatIsThere == Spec => Box!Safety
  <1>1. Init => Box!Init
    BY DEF Init, Box!Init
  <1>2. CondInv /\ [Next]_vars => [Box!Next]_<<items, stop, waiter = "exit">>
    <2> SUFFICES ASSUME CondInv, [Next]_vars
                 PROVE  [Box!Next]_<<items, stop, waiter = "exit">>
      OBVIOUS
    <2> USE DEF CondInv, Box!Next, Box!Put, Box!Take, Box!Stop, Box!Quit
    <2>1. CASE Waiter \/ SpuriousWakeup
      BY <2>1 DEF CondTypeOK, WaiterInv, Waiter, WaitStep, SpuriousWakeup, WaiterLock,
         WaiterTest, WaiterUnlocks, WaiterWakes, WaiterResets, WaiterRelocks, WaiterTakes
    <2>2. ASSUME NEW s \in Signallers, Signaller(s)
          PROVE  [Box!Next]_<<items, stop, waiter = "exit">>
      BY <2>2 DEF Signaller, SignalStep, SignallerLock, SignallerPut, SignallerSignal,
         SignallerUnlock, qks_cond_signal
    <2>3. CASE Stopper
      BY <2>3 DEF WaiterInv, Stopper, StopStep, StopperSets, StopperLock, StopperBroadcast,
         StopperUnlock, qks_cond_signal
    <2>4. CASE UNCHANGED vars
      BY <2>4 DEF vars
    <2> QED
      BY <2>1, <2>2, <2>3, <2>4 DEF Next
  <1> QED
    BY <1>1, <1>2, CondAlways, PTL DEF Spec, Box!Safety

=============================================================================
