----------------------------- MODULE LockTable -----------------------------
(***************************************************************************)
(* The state that LockManager's mutex guards (txn/lock_manager.h): which   *)
(* transaction holds which key, and for each transaction the keys to give  *)
(* back.  The operators are what lock() and release_all() do while they    *)
(* own that mutex.  LockManager adds the callers that block on it; KeyVDB  *)
(* uses the same table under the transactions of the database.             *)
(***************************************************************************)
EXTENDS Sequences, Functions

CONSTANTS
  TxnId,     \* transaction ids
  Key,       \* keys of the store
  NoTxn      \* INVALID_TXN_ID

ASSUME NoTxnAssumption == NoTxn \notin TxnId

VARIABLES
  lock_table,        \* keys that have a LockState in the map lock_table_
  shared_holders,    \* LockState::shared_holders (default where there is none)
  exclusive_holder,  \* LockState::exclusive_holder (default where there is none)
  txn_locks          \* txn_locks_: the keys recorded for each transaction;
                     \* the empty sequence stands for no map entry

lockVars == <<lock_table, shared_holders, exclusive_holder, txn_locks>>

SHARED    == "SHARED"
EXCLUSIVE == "EXCLUSIVE"
LockMode  == {SHARED, EXCLUSIVE}

LockTypeOK ==
  /\ lock_table \in SUBSET Key
  /\ shared_holders \in [Key -> SUBSET TxnId]
  /\ exclusive_holder \in [Key -> TxnId \cup {NoTxn}]
  /\ txn_locks \in [TxnId -> Seq(Key)]

LockInit ==
  /\ lock_table = {}
  /\ shared_holders = [k \in Key |-> {}]
  /\ exclusive_holder = [k \in Key |-> NoTxn]
  /\ txn_locks = [t \in TxnId |-> <<>>]

(* The LockManager of a new process. *)
LockReset ==
  /\ lock_table' = {}
  /\ shared_holders' = [k \in Key |-> {}]
  /\ exclusive_holder' = [k \in Key |-> NoTxn]
  /\ txn_locks' = [t \in TxnId |-> <<>>]

(***************************************************************************)
(* holds_lock and holds_exclusive.                                         *)
(***************************************************************************)
holds_exclusive(t, k) == exclusive_holder[k] = t
holds_lock(t, k) == t \in shared_holders[k] \/ holds_exclusive(t, k)

HeldKeys(t) == {k \in Key : holds_lock(t, k)}
ExclusiveKeys(t) == {k \in Key : holds_exclusive(t, k)}

(* The keys release_all(t) walks over. *)
RecordedKeys(t) == Range(txn_locks[t])

-----------------------------------------------------------------------------
(***************************************************************************)
(* can_grant: a shared request only minds another transaction's exclusive  *)
(* lock; an exclusive request must find no other holder at all.            *)
(***************************************************************************)
UpgradePastReaders(t, k, mode) ==
  \/ holds_exclusive(t, k)
  \/ /\ exclusive_holder[k] = NoTxn
     /\ mode = EXCLUSIVE => shared_holders[k] = {} \/ t \in shared_holders[k]

can_grant(t, k, mode) ==
  \/ holds_exclusive(t, k)
  \/ /\ exclusive_holder[k] = NoTxn
     /\ mode = EXCLUSIVE => shared_holders[k] \subseteq {t}

(***************************************************************************)
(* The tail of lock(), once can_grant holds.  The holder of the exclusive  *)
(* lock that asks for a shared one returns early and nothing is recorded;  *)
(* every other grant appends the key to txn_locks_, one that repeats an    *)
(* earlier grant too.                                                      *)
(***************************************************************************)
GrantNothing(t, k) ==
  /\ lock_table' = lock_table \cup {k}
  /\ UNCHANGED <<shared_holders, exclusive_holder, txn_locks>>

GrantShared(t, k) ==
  /\ lock_table' = lock_table \cup {k}
  /\ shared_holders' = [shared_holders EXCEPT ![k] = @ \cup {t}]
  /\ txn_locks' = [txn_locks EXCEPT ![t] = Append(@, k)]
  /\ UNCHANGED exclusive_holder

UpgradeNotRecorded(t, k) ==
  /\ lock_table' = lock_table \cup {k}
  /\ shared_holders' = [shared_holders EXCEPT ![k] = @ \ {t}]
  /\ exclusive_holder' = [exclusive_holder EXCEPT ![k] = t]
  /\ UNCHANGED txn_locks

GrantExclusive(t, k) ==
  /\ lock_table' = lock_table \cup {k}
  /\ shared_holders' = [shared_holders EXCEPT ![k] = @ \ {t}]
  /\ exclusive_holder' = [exclusive_holder EXCEPT ![k] = t]
  /\ txn_locks' = [txn_locks EXCEPT ![t] = Append(@, k)]

Grant(t, k, mode) ==
  /\ can_grant(t, k, mode)
  /\ \/ mode = SHARED /\ holds_exclusive(t, k) /\ GrantNothing(t, k)
     \/ mode = SHARED /\ ~holds_exclusive(t, k) /\ GrantShared(t, k)
     \/ mode = EXCLUSIVE /\ GrantExclusive(t, k)

(***************************************************************************)
(* The state changes of release_all(t): t leaves every key recorded for    *)
(* it, and a LockState that has become empty is erased.  A key recorded    *)
(* twice is found released, or erased, the second time.                    *)
(***************************************************************************)
ReleaseFirstOnly(t) ==
  LET keys == IF txn_locks[t] = <<>> THEN {} ELSE {Head(txn_locks[t])}
      S(k) == IF k \in keys THEN shared_holders[k] \ {t} ELSE shared_holders[k]
      X(k) == IF k \in keys /\ exclusive_holder[k] = t
              THEN NoTxn ELSE exclusive_holder[k]
  IN  /\ shared_holders' = [k \in Key |-> S(k)]
      /\ exclusive_holder' = [k \in Key |-> X(k)]
      /\ lock_table' = {k \in lock_table : k \in keys => S(k) # {} \/ X(k) # NoTxn}
      /\ txn_locks' = [txn_locks EXCEPT ![t] = <<>>]

ReleaseWithoutPruning(t) ==
  LET keys == RecordedKeys(t) IN
  /\ shared_holders' =
       [k \in Key |-> IF k \in keys THEN shared_holders[k] \ {t}
                      ELSE shared_holders[k]]
  /\ exclusive_holder' =
       [k \in Key |-> IF k \in keys /\ exclusive_holder[k] = t THEN NoTxn
                      ELSE exclusive_holder[k]]
  /\ txn_locks' = [txn_locks EXCEPT ![t] = <<>>]
  /\ UNCHANGED lock_table

ReleaseKeys(t) ==
  LET keys == RecordedKeys(t) IN
  /\ shared_holders' =
       [k \in Key |-> IF k \in keys THEN shared_holders[k] \ {t}
                      ELSE shared_holders[k]]
  /\ exclusive_holder' =
       [k \in Key |-> IF k \in keys /\ exclusive_holder[k] = t THEN NoTxn
                      ELSE exclusive_holder[k]]
  /\ lock_table' =
       {k \in lock_table : k \in keys => \/ shared_holders'[k] # {}
                                         \/ exclusive_holder'[k] # NoTxn}
  /\ txn_locks' = [txn_locks EXCEPT ![t] = <<>>]

-----------------------------------------------------------------------------
(***************************************************************************)
(* What the table promises.                                                *)
(***************************************************************************)

(* The compatibility matrix of lock_manager.h: while one transaction holds *)
(* a key exclusively nobody holds it in shared mode, after any sequence of *)
(* grants, upgrades, repeated requests and releases.                       *)
LockExclusion ==
  \A k \in Key : exclusive_holder[k] # NoTxn => shared_holders[k] = {}

(* release_all only visits the keys in txn_locks_, so no lock may be held  *)
(* that is not recorded there: an unrecorded one would be held forever.    *)
HoldersRecorded ==
  \A t \in TxnId : HeldKeys(t) \subseteq RecordedKeys(t)

(* lock_table_ stays compact: the entry that operator[] creates for a      *)
(* request never outlives the request without a holder, and the entry of a *)
(* held key is always there.                                               *)
EntriesAreHeld ==
  lock_table = {k \in Key : shared_holders[k] # {} \/ exclusive_holder[k] # NoTxn}

(* Two-phase locking: a transaction gives nothing back, and weakens no     *)
(* exclusive lock to a shared one, except by giving back everything.       *)
TwoPhaseStep ==
  \A t \in TxnId :
    \/ HeldKeys(t) \subseteq HeldKeys(t)' /\ ExclusiveKeys(t) \subseteq ExclusiveKeys(t)'
    \/ HeldKeys(t)' = {}
=============================================================================
