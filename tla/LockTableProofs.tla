-------------------------- MODULE LockTableProofs --------------------------
(***************************************************************************)
(* Lemmas on the lock table, for every set of transactions and keys; the   *)
(* proofs about LockManager and about KeyVDB rest on them.                 *)
(***************************************************************************)
EXTENDS LockTable, TLAPS

(* What the table's operations preserve together.                          *)
LockInv == LockTypeOK /\ LockExclusion /\ HoldersRecorded /\ EntriesAreHeld

(* What lock() records is in the sequence afterwards, and what was         *)
(* recorded before stays.                                                  *)
LEMMA RangeAppend ==
  ASSUME NEW s \in Seq(Key), NEW k \in Key
  PROVE  /\ Append(s, k) \in Seq(Key)
         /\ Range(Append(s, k)) = Range(s) \cup {k}
<1>1. Append(s, k) \in Seq(Key)
  OBVIOUS
<1>2. DOMAIN Append(s, k) = 1 .. (Len(s) + 1) /\ DOMAIN s = 1 .. Len(s) /\ Len(s) \in Nat
  OBVIOUS
<1>3. Append(s, k)[Len(s) + 1] = k /\ \A i \in 1 .. Len(s) : Append(s, k)[i] = s[i]
  OBVIOUS
<1>4. \A i : i \in DOMAIN Append(s, k) <=> i \in DOMAIN s \/ i = Len(s) + 1
  BY <1>2
<1>5. Range(Append(s, k)) = Range(s) \cup {k}
  BY <1>2, <1>3, <1>4 DEF Range
<1> QED BY <1>1, <1>5

(* A transaction with an empty record list holds nothing to release.       *)
LEMMA RangeEmpty == Range(<<>>) = {}
  BY DEF Range

(* The table that a fresh LockManager starts with satisfies LockInv.       *)
LEMMA LockInitInv == LockInit => LockInv
  BY NoTxnAssumption, RangeEmpty
  DEF LockInit, LockInv, LockTypeOK, LockExclusion, HoldersRecorded,
      EntriesAreHeld, HeldKeys, RecordedKeys, holds_lock, holds_exclusive

(* Any grant preserves LockInv: the reader that comes in while the key is  *)
(* held exclusively, and the writer while it is shared, are kept out by    *)
(* can_grant, and the upgrade leaves the shared set.                       *)
LEMMA GrantInv ==
  ASSUME NEW t \in TxnId, NEW k \in Key, NEW mode \in LockMode,
         LockInv, Grant(t, k, mode)
  PROVE  LockInv'
<1> USE NoTxnAssumption
<1>1. t # NoTxn
  OBVIOUS
<1>2. CASE mode = SHARED /\ holds_exclusive(t, k) /\ GrantNothing(t, k)
  BY <1>1, <1>2 DEF GrantNothing, LockInv, LockTypeOK, LockExclusion, HoldersRecorded,
     EntriesAreHeld, HeldKeys, RecordedKeys, holds_lock, holds_exclusive
<1>3. CASE mode = SHARED /\ ~holds_exclusive(t, k) /\ GrantShared(t, k)
  <2>1. LockTypeOK'
    BY <1>3, RangeAppend DEF GrantShared, LockInv, LockTypeOK
  <2>2. exclusive_holder[k] = NoTxn
    BY <1>3 DEF Grant, can_grant
  <2>3. LockExclusion'
    BY <1>3, <2>2 DEF GrantShared, LockInv, LockTypeOK, LockExclusion
  <2>4. \A u \in TxnId : RecordedKeys(u)' =
          IF u = t THEN RecordedKeys(u) \cup {k} ELSE RecordedKeys(u)
    BY <1>3, RangeAppend DEF GrantShared, LockInv, LockTypeOK, RecordedKeys
  <2>5. HoldersRecorded'
    BY <1>3, <2>4
    DEF GrantShared, LockInv, LockTypeOK, HoldersRecorded, HeldKeys, holds_lock,
        holds_exclusive
  <2>6. EntriesAreHeld'
    BY <1>3 DEF GrantShared, LockInv, LockTypeOK, EntriesAreHeld
  <2> QED BY <2>1, <2>3, <2>5, <2>6 DEF LockInv
<1>4. CASE mode = EXCLUSIVE /\ GrantExclusive(t, k)
  <2>1. LockTypeOK'
    BY <1>4, RangeAppend DEF GrantExclusive, LockInv, LockTypeOK
  <2>2. shared_holders[k] \subseteq {t}
    BY <1>1, <1>4 DEF Grant, can_grant, holds_exclusive, LockInv, LockExclusion
  <2>3. LockExclusion'
    BY <1>4, <2>2 DEF GrantExclusive, LockInv, LockTypeOK, LockExclusion
  <2>4. \A u \in TxnId : RecordedKeys(u)' =
          IF u = t THEN RecordedKeys(u) \cup {k} ELSE RecordedKeys(u)
    BY <1>4, RangeAppend DEF GrantExclusive, LockInv, LockTypeOK, RecordedKeys
  <2>5. HoldersRecorded'
    BY <1>4, <2>4
    DEF GrantExclusive, LockInv, LockTypeOK, HoldersRecorded, HeldKeys, holds_lock,
        holds_exclusive
  <2>6. EntriesAreHeld'
    BY <1>1, <1>4 DEF GrantExclusive, LockInv, LockTypeOK, EntriesAreHeld
  <2> QED BY <2>1, <2>3, <2>5, <2>6 DEF LockInv
<1> QED BY <1>2, <1>3, <1>4 DEF Grant

(* release_all preserves LockInv and leaves the transaction no lock.       *)
LEMMA ReleaseInv ==
  ASSUME NEW t \in TxnId, LockInv, ReleaseKeys(t)
  PROVE  LockInv' /\ HeldKeys(t)' = {}
<1> USE NoTxnAssumption
<1>1. LockTypeOK'
  <2>1. lock_table' \in SUBSET Key
    BY DEF ReleaseKeys, LockInv, LockTypeOK
  <2>2. shared_holders' \in [Key -> SUBSET TxnId]
    BY DEF ReleaseKeys, LockInv, LockTypeOK
  <2>3. exclusive_holder' \in [Key -> TxnId \cup {NoTxn}]
    BY DEF ReleaseKeys, LockInv, LockTypeOK
  <2>4. txn_locks' \in [TxnId -> Seq(Key)]
    BY DEF ReleaseKeys, LockInv, LockTypeOK
  <2> QED BY <2>1, <2>2, <2>3, <2>4 DEF LockTypeOK
<1>2. LockExclusion'
  BY DEF ReleaseKeys, LockInv, LockTypeOK, LockExclusion
<1>3. \A u \in TxnId : RecordedKeys(u)' = IF u = t THEN {} ELSE RecordedKeys(u)
  BY RangeEmpty DEF ReleaseKeys, LockInv, LockTypeOK, RecordedKeys
<1>4. \A k \in Key : k \notin HeldKeys(t)'
  BY DEF ReleaseKeys, LockInv, LockTypeOK, HoldersRecorded, HeldKeys, holds_lock,
         holds_exclusive
<1>5. HeldKeys(t)' = {}
  BY <1>4 DEF HeldKeys
<1>6. \A u \in TxnId : HeldKeys(u)' \subseteq HeldKeys(u)
  BY DEF ReleaseKeys, LockInv, LockTypeOK, HeldKeys, holds_lock, holds_exclusive
<1>7. HoldersRecorded'
  BY <1>3, <1>5, <1>6 DEF LockInv, HoldersRecorded
<1>8. EntriesAreHeld'
  BY DEF ReleaseKeys, LockInv, LockTypeOK, EntriesAreHeld
<1> QED BY <1>1, <1>2, <1>5, <1>7, <1>8 DEF LockInv

(* A grant takes no lock from anybody, and gives the one asked for.        *)
LEMMA GrantKeepsLocks ==
  ASSUME NEW t \in TxnId, NEW k \in Key, NEW mode \in LockMode,
         LockInv, Grant(t, k, mode)
  PROVE  /\ \A u \in TxnId : /\ HeldKeys(u) \subseteq HeldKeys(u)'
                             /\ ExclusiveKeys(u) \subseteq ExclusiveKeys(u)'
         /\ holds_lock(t, k)'
         /\ mode = EXCLUSIVE => holds_exclusive(t, k)'
<1> USE NoTxnAssumption DEF HeldKeys, ExclusiveKeys, holds_lock, holds_exclusive
<1>1. CASE mode = SHARED /\ holds_exclusive(t, k) /\ GrantNothing(t, k)
  BY <1>1 DEF GrantNothing, SHARED, EXCLUSIVE
<1>2. CASE mode = SHARED /\ ~holds_exclusive(t, k) /\ GrantShared(t, k)
  BY <1>2 DEF GrantShared, LockInv, LockTypeOK, SHARED, EXCLUSIVE
<1>3. CASE mode = EXCLUSIVE /\ GrantExclusive(t, k)
  BY <1>3 DEF GrantExclusive, Grant, can_grant, LockInv, LockTypeOK
<1> QED BY <1>1, <1>2, <1>3 DEF Grant

(* release_all of one transaction takes no lock from another one.          *)
LEMMA ReleaseKeepsOthers ==
  ASSUME NEW t \in TxnId, NEW u \in TxnId, u # t, LockInv, ReleaseKeys(t)
  PROVE  HeldKeys(u) \subseteq HeldKeys(u)' /\ ExclusiveKeys(u) \subseteq ExclusiveKeys(u)'
  BY DEF ReleaseKeys, HeldKeys, ExclusiveKeys, holds_lock, holds_exclusive, LockInv, LockTypeOK
=============================================================================
