------------------------- MODULE KeyPoolProperties --------------------------
(***************************************************************************)
(* What the key pool must and must not do.                                 *)
(***************************************************************************)
EXTENDS KeyPool

\* Type invariant.
PoolTypeOK ==
    /\ wall \in 1 .. MaxWall /\ clock \in 0 .. MaxTime
    /\ local_keys \in KeyInfoList
    /\ seq \in 0 .. MaxExternal
    /\ manager \in {"null", "set"} /\ is_inited \in BOOLEAN /\ is_running \in BOOLEAN
    /\ init_called \in BOOLEAN /\ init_mutex \in Clients \union {None}
    /\ poll \in PollPC /\ threads \in Nat /\ client \in [Clients -> ClientPC]

-----------------------------------------------------------------------------
(* Initialisation. *)

\* However many threads make the first call at once, the manager is
\* initialised once and has one poll thread.
OnePollThread == threads <= 1

\* A call that has passed keypool_init_if_needed, whether through its
\* unlocked read or through the lock, finds the pool ready: it is rejected
\* only if the initialisation failed or the pool has been stopped since.
ReadyWhenCalled ==
    \A c \in Clients : client[c] = "op" =>
        init_called /\ (is_running => manager = "set" /\ is_inited)

-----------------------------------------------------------------------------
(* Keys. *)

\* A key leaves the list only when its freeze period is over, even if a test
\* had marked it deleted before, or when the list is given up as a whole, by
\* a stop or a reset.
OnlyOldKeysRemoved ==
    [][ local_keys'.keys # <<>> =>
          \A k \in ToSet(local_keys.keys) : IdOf(k) \notin IdsOf(local_keys'.keys)
              => KeyInfo_GetDeleteTime(k) <= clock' ]_vars

\* Every round of the poll thread ends with enough valid keys, if there is
\* memory for them.
PollRestoresThreshold ==
    [][ poll = "sleep" /\ poll' = "test" /\ is_inited /\ ~AllocCanFail
          => Cardinality(ValidKeys(local_keys')) >= Threshold ]_vars

\* The list never believes in more room than its block has, whichever of its
\* allocations fails; the exception is the empty list whose block was freed
\* behind its back.
BufferHoldsKeys ==
    local_keys.sound =>
        /\ Len(local_keys.keys) <= local_keys.block
        /\ local_keys.capacity <= local_keys.block \/ local_keys.keys = <<>>

\* Memory that is not the list's is touched only when the list is empty, or
\* when a check finds every key past its freeze period: as long as one key
\* is left, no failure of any allocation does harm.
OnlyEmptyListGoesWrong ==
    [][ local_keys.sound /\ ~local_keys'.sound =>
          \A k \in ToSet(local_keys.keys) : KeyInfo_GetDeleteTime(k) <= clock' ]_vars

\* No other key in the list goes by the same id.
Unambiguous(k) == \A m \in ToSet(local_keys.keys) : IdOf(m) = IdOf(k) => m = k

\* As long as nobody expires keys by hand, a key's status never goes back:
\* a key that can no longer encrypt never can again, not even when the
\* failure to add another key brings it a status out of turn.
StatusNeverBack ==
    [][ \A k \in ToSet(local_keys.keys), l \in ToSet(local_keys'.keys) :
          IdOf(k) = IdOf(l) /\ Unambiguous(k) /\ Expiries = {} =>
              /\ l.status = "VALID" => k.status = "VALID"
              /\ k.status = "DELETED" => l.status = "DELETED" ]_vars

-----------------------------------------------------------------------------
(* Liveness, under FairSpec. *)

\* A key in the list is called valid although it has expired.
Stale == \E k \in ToSet(local_keys.keys) :
    k.status = "VALID" /\ KeyInfo_GetExpireTime(k) <= clock

\* While the pool runs, expired keys do not stay valid.
ExpiredIsRetired == Stale ~> (~Stale \/ ~Defined)

\* KeyManager_Stop returns.
StopReturns == (\E c \in Clients : client[c] = "join") ~> (Quiet \/ ~Defined)

-----------------------------------------------------------------------------
(* What the comments and the tests say and the code does not do. *)

\* GatewayComm.h: capacity is what has been allocated.  No key is written
\* outside of the allocated block.
KeysInLiveBuffer == local_keys.sound

=============================================================================
