------------------------------ MODULE KeyList -------------------------------
(***************************************************************************)
(* The key pool's data: keys, the list that holds them, and the operations *)
(* that KeyManager.c performs on that list under the manager's mutex.      *)
(* Memory may run out on the way, so that an operation that allocates is   *)
(* the set of its possible outcomes.  The clock may be advanced on the way *)
(* as well: an operation that reads it is given now, its readings in the   *)
(* order in which it makes them.                                           *)
(***************************************************************************)
EXTENDS Integers, Sequences, SequencesExt

CONSTANTS
    Validity,        \* config.key_validity, 60 s
    Freeze,          \* KeyConfig_GetFreezeDuration, 30 % of that: 18 s
    Threshold,       \* config.valid_threshold, 3 keys
    ExtIdModulus,    \* 1000: how many numbers the ids of external keys use
    AllocCanFail     \* TRUE: malloc and realloc may fail

ASSUME ConfigAssumption ==
    /\ Validity \in Nat \ {0} /\ Freeze \in Nat /\ Threshold \in Nat \ {0}
    /\ ExtIdModulus \in Nat \ {0} /\ AllocCanFail \in BOOLEAN

(***************************************************************************)
(* A key.  Its id is the text made of kind, ts and n; ts is the creation   *)
(* time as well.  The key's value is left out: nothing depends on it.      *)
(***************************************************************************)
KeyStatus == {"VALID", "FROZEN", "DELETED"}
Keys == [kind : {"key", "ext"}, ts : Nat, n : Nat, status : KeyStatus]

IdOf(k) == <<k.kind, k.ts, k.n>>
IdsOf(ks) == {IdOf(k) : k \in ToSet(ks)}

\* A bug: the status of a new key is not set.
KeyInfo_Init_NoStatus(kind, ts, n) ==
    [kind |-> kind, ts |-> ts, n |-> n, status |-> "UNSET"]

KeyInfo_Init(kind, ts, n) == [kind |-> kind, ts |-> ts, n |-> n, status |-> "VALID"]

KeyInfo_GetExpireTime(k) == k.ts + Validity
KeyInfo_GetDeleteTime(k) == KeyInfo_GetExpireTime(k) + Freeze

\* A bug: a key past its freeze period is not given its last status.
UpdateKeyStatus_NoDelete(k, t) ==
    [k EXCEPT !.status =
        IF KeyInfo_GetExpireTime(k) <= t /\ t < KeyInfo_GetDeleteTime(k)
        THEN "FROZEN" ELSE "VALID"]

\* The status is computed from the clock alone, whatever it was before.
UpdateKeyStatus(k, t) ==
    [k EXCEPT !.status =
        CASE t < KeyInfo_GetExpireTime(k) -> "VALID"
          [] KeyInfo_GetExpireTime(k) <= t /\ t < KeyInfo_GetDeleteTime(k) -> "FROZEN"
          [] OTHER -> "DELETED"]

-----------------------------------------------------------------------------
(***************************************************************************)
(* KeyInfoList, a growing array: its keys, the capacity it believes in and *)
(* the number of keys that its memory block really has room for, which is  *)
(* 0 if there is no block.  sound becomes FALSE when memory is touched     *)
(* that is not the list's.                                                 *)
(***************************************************************************)
KeyInfoList == [keys : Seq(Keys), capacity : Nat, block : Nat, sound : BOOLEAN]

KeyInfoList_Init == [keys |-> <<>>, capacity |-> 0, block |-> 0, sound |-> TRUE]

\* The pointer is kept although its block was freed.
Dangling(list) == list.block = 0 /\ list.capacity > 0

KeyInfoList_Free(list) == [KeyInfoList_Init EXCEPT !.sound = list.sound /\ ~Dangling(list)]

Resized(list, n) == [list EXCEPT !.capacity = n, !.block = n]

Stored(list, k) ==
    [list EXCEPT !.keys = Append(@, k), !.sound = @ /\ Len(list.keys) < list.block]

\* A bug: the failure of realloc is not looked at.
KeyInfoList_Add_Unchecked(list, k) ==
    IF Len(list.keys) < list.capacity THEN {Stored(list, k)}
    ELSE LET new_cap == IF list.capacity = 0 THEN 4 ELSE 2 * list.capacity
         IN  {Stored(Resized(list, new_cap), k)}
             \union (IF AllocCanFail THEN {Stored(list, k)} ELSE {})

KeyInfoList_Add(list, k) ==
    IF Len(list.keys) < list.capacity THEN {Stored(list, k)}
    ELSE LET new_cap == IF list.capacity = 0 THEN 4 ELSE 2 * list.capacity
         IN  {Stored(Resized(list, new_cap), k)} \union (IF AllocCanFail THEN {list} ELSE {})

\* One key after the other; a failure does not end the loop.
AddEach(list, new) ==
    LET after[i \in 0 .. Len(new)] ==
            IF i = 0 THEN {list}
            ELSE UNION {KeyInfoList_Add(l, new[i]) : l \in after[i - 1]}
    IN  after[Len(new)]

-----------------------------------------------------------------------------
(* The operations of KeyManager.c. *)

\* The clock is read for each key.
UpdateAll(list, now) ==
    [list EXCEPT !.keys = [i \in DOMAIN @ |-> UpdateKeyStatus(@[i], now[i])]]

ValidKeys(list) == {i \in DOMAIN list.keys : list.keys[i].status = "VALID"}

\* A bug: the capacity is not adjusted to the shrunk block.
Shrunk_KeepsCapacity(list, kept) ==
    {[list EXCEPT !.keys = kept, !.block = Len(kept)]}

\* realloc to the number of keys kept.  For 0 keys it frees the block and
\* returns NULL, which is taken for a failure: pointer and capacity stay.
\* After a real failure the block stays as well.
Shrunk(list, kept) ==
    LET same == [list EXCEPT !.keys = kept]
    IN  IF kept = <<>> THEN {[same EXCEPT !.block = 0]}
        ELSE {Resized(same, Len(kept))} \union (IF AllocCanFail THEN {same} ELSE {})

\* The keys that are not deleted move up.
Kept(keys) ==
    LET kept[i \in 0 .. Len(keys)] ==
            IF i = 0 THEN <<>>
            ELSE IF keys[i].status = "DELETED" THEN kept[i - 1]
            ELSE Append(kept[i - 1], keys[i])
    IN  kept[Len(keys)]

DeleteExpiredKeys(list) ==
    IF Len(Kept(list.keys)) = Len(list.keys) THEN {list}
    ELSE Shrunk(list, Kept(list.keys))

\* The keys of one request are numbered from 1, and the clock is read for
\* each.  If one cannot be stored, none is returned.
RequestNewKeys(need, now) ==
    {[i \in 1 .. need |-> KeyInfo_Init("key", now[i], i)]}
        \union (IF AllocCanFail THEN {<<>>} ELSE {})

\* As many keys are requested as valid ones are missing.
CheckAndRequestKeys(list, now) ==
    LET need == Threshold - Cardinality(ValidKeys(list))
    IN  IF need <= 0 THEN {list}
        ELSE UNION {AddEach(list, new) : new \in RequestNewKeys(need, now)}

\* The readings that follow the first n.
Following(now, n) == [i \in 1 .. Threshold |-> now[n + i]]

\* A bug: the missing keys are requested before the statuses are updated.
Maintain_RequestFirst(list, now) ==
    UNION {DeleteExpiredKeys(UpdateAll(l, now)) : l \in CheckAndRequestKeys(list, now)}

\* A bug: the deleted keys are removed before the statuses are updated.
Maintain_DeleteFirst(list, now) ==
    UNION {CheckAndRequestKeys(UpdateAll(l, now), Following(now, Len(list.keys))) :
           l \in DeleteExpiredKeys(list)}

\* The critical section of KeyManager_CheckAllKeys.
Maintain(list, now) ==
    UNION {CheckAndRequestKeys(l, Following(now, Len(list.keys))) :
           l \in DeleteExpiredKeys(UpdateAll(list, now))}

\* data[size - 1] is the new key, unless there was no room for it; then it is
\* the last of the others, or what lies before the block.
UpdateLast(list, t) ==
    IF list.keys = <<>> THEN [list EXCEPT !.sound = FALSE]
    ELSE [list EXCEPT !.keys[Len(list.keys)] = UpdateKeyStatus(@, t)]

\* The critical section of KeyManager_AddExternalKey: the clock is read for
\* the key and again for its status.  A failure is ignored.
AddExternal(list, now, n) ==
    {UpdateLast(l, now[2]) : l \in KeyInfoList_Add(list, KeyInfo_Init("ext", now[1], n))}

\* KeyManager_SimulateKeyExpiry: the first m valid keys are marked deleted.
SimulateExpiry(list, m) ==
    LET first == {i \in ValidKeys(list) : Cardinality({j \in ValidKeys(list) : j < i}) < m}
    IN  [list EXCEPT !.keys = [i \in DOMAIN @ |->
            IF i \in first THEN [@[i] EXCEPT !.status = "DELETED"] ELSE @[i]]]

=============================================================================
