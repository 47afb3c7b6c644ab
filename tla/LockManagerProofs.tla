------------------------- MODULE LockManagerProofs -------------------------
(***************************************************************************)
(* The lock manager's invariants, for every set of transactions and keys.  *)
(* The inductive invariant is the type invariant with LockExclusion,       *)
(* HoldersRecorded, EntriesAreHeld and NoLostWakeup: the wake-up property  *)
(* needs HoldersRecorded, because release_all signals only when something  *)
(* is recorded, and the table's own properties need each other.            *)
(***************************************************************************)
EXTENDS LockManager, LockTableProofs

(***************************************************************************)
(* The invariant with the blocked callers.                                 *)
(***************************************************************************)
IInv == TypeOK /\ LockInv /\ NoLostWakeup

(* Replacing or dropping one waiter keeps one call per transaction.        *)
LEMMA ReplaceWaiter ==
  ASSUME TypeOK, NEW w \in waiters, NEW v \in Waiter, v.txn = w.txn,
         waiters' = (waiters \ {w}) \cup {v}
  PROVE  /\ waiters' \in SUBSET Waiter
         /\ \A x, y \in waiters' : x.txn = y.txn => x = y
  BY DEF TypeOK

(* A grant to one transaction makes no other one's request grantable: a    *)
(* sleeping thread stays rightly asleep.                                   *)
LEMMA GrantKeepsOthersWaiting ==
  ASSUME NEW t \in TxnId, NEW k \in Key, NEW mode \in LockMode,
         LockInv, Grant(t, k, mode),
         NEW u \in TxnId \ {t}, NEW l \in Key, NEW m \in LockMode,
         ~can_grant(u, l, m)
  PROVE  ~can_grant(u, l, m)'
<1> USE NoTxnAssumption
<1>1. CASE mode = SHARED /\ holds_exclusive(t, k) /\ GrantNothing(t, k)
  BY <1>1 DEF GrantNothing, can_grant, holds_exclusive
<1>2. CASE mode = SHARED /\ ~holds_exclusive(t, k) /\ GrantShared(t, k)
  BY <1>2 DEF GrantShared, can_grant, holds_exclusive, LockInv, LockTypeOK
<1>3. CASE mode = EXCLUSIVE /\ GrantExclusive(t, k)
  BY <1>3 DEF GrantExclusive, can_grant, holds_exclusive, LockInv, LockTypeOK
<1> QED BY <1>1, <1>2, <1>3 DEF Grant

(* The initial state satisfies the invariant.                              *)
LEMMA InitInv == Init => IInv
<1> SUFFICES ASSUME Init PROVE IInv
  OBVIOUS
<1>1. LockInv
  BY LockInitInv DEF Init
<1>2. TypeOK /\ NoLostWakeup
  BY <1>1 DEF Init, TypeOK, NoLostWakeup, LockInv
<1> QED BY <1>1, <1>2 DEF IInv

(* Every step of every thread preserves the invariant.                     *)
LEMMA NextInv == IInv /\ [Next]_vars => IInv'
<1> SUFFICES ASSUME IInv, [Next]_vars PROVE IInv'
  OBVIOUS
<1> USE DEF IInv
<1>0. LockInv' => LockTypeOK'
  BY DEF LockInv
<1>1. ASSUME NEW t \in TxnId, NEW k \in Key, NEW mode \in LockMode,
             LockGranted(t, k, mode)
      PROVE  IInv'
  <2>1. LockInv'
    BY <1>1, GrantInv DEF LockGranted
  <2>2. TypeOK'
    BY <1>0, <1>1, <2>1 DEF LockGranted, TypeOK
  <2>3. ASSUME NEW w \in waiters, ~w.woken
        PROVE  ~can_grant(w.txn, w.key, w.mode)'
    <3>1. w \in Waiter /\ w.txn # t
      BY <1>1 DEF LockGranted, Blocked, TypeOK
    <3> QED
      BY <1>1, <2>3, <3>1, GrantKeepsOthersWaiting
      DEF LockGranted, Waiter, NoLostWakeup
  <2>4. NoLostWakeup'
    BY <1>1, <2>3 DEF LockGranted, NoLostWakeup
  <2> QED BY <2>1, <2>2, <2>4
<1>2. ASSUME NEW t \in TxnId, NEW k \in Key, NEW mode \in LockMode,
             LockBlocks(t, k, mode)
      PROVE  IInv'
  <2> DEFINE v == [txn |-> t, key |-> k, mode |-> mode,
                   woken |-> FALSE, expired |-> FALSE]
  <2>1. v \in Waiter
    BY DEF Waiter
  <2>2. k \in lock_table
    BY <1>2 DEF LockBlocks, can_grant, LockInv, EntriesAreHeld
  <2>3. LockInv'
    BY <1>2, <2>2 DEF LockBlocks, LockInv, LockTypeOK, LockExclusion, HoldersRecorded,
       EntriesAreHeld, HeldKeys, RecordedKeys, holds_lock, holds_exclusive
  <2>4. TypeOK'
    <3>1. waiters' = waiters \cup {v} /\ \A w \in waiters : w.txn # v.txn
      BY <1>2 DEF LockBlocks, Blocked
    <3>2. waiters' \in SUBSET Waiter
      BY <2>1, <3>1 DEF TypeOK
    <3>3. \A x, y \in waiters' : x.txn = y.txn => x = y
      <4> HIDE DEF v
      <4> QED BY <3>1 DEF TypeOK
    <3> QED BY <1>0, <2>3, <3>2, <3>3 DEF TypeOK
  <2>5. \A w \in waiters : can_grant(w.txn, w.key, w.mode)' = can_grant(w.txn, w.key, w.mode)
    BY <1>2 DEF LockBlocks, can_grant, holds_exclusive
  <2>6. ~can_grant(v.txn, v.key, v.mode)'
    BY <1>2 DEF LockBlocks, can_grant, holds_exclusive
  <2>7. NoLostWakeup'
    BY <1>2, <2>5, <2>6 DEF LockBlocks, NoLostWakeup
  <2> QED BY <2>3, <2>4, <2>7
<1>3. ASSUME NEW t \in TxnId, release_all(t)
      PROVE  IInv'
  <2>1. LockInv'
    BY <1>3, ReleaseInv DEF release_all
  <2>2. \A w \in waiters : [w EXCEPT !.woken = TRUE] \in Waiter
                           /\ [w EXCEPT !.woken = TRUE].txn = w.txn
                           /\ [w EXCEPT !.woken = TRUE].woken
    BY DEF TypeOK, Waiter
  <2>3. ASSUME NEW x \in waiters'
        PROVE  \E w \in waiters : x = [w EXCEPT !.woken = TRUE]
    BY <1>3, <2>3 DEF release_all
  <2>4. waiters' \in SUBSET Waiter /\ \A x \in waiters' : x.woken
    BY <2>2, <2>3
  <2>5. ASSUME NEW x \in waiters', NEW y \in waiters', x.txn = y.txn
        PROVE  x = y
    <3>1. PICK v \in waiters : x = [v EXCEPT !.woken = TRUE]
      BY <2>3
    <3>2. PICK w \in waiters : y = [w EXCEPT !.woken = TRUE]
      BY <2>3
    <3>3. v = w
      BY <2>2, <2>5, <3>1, <3>2 DEF TypeOK
    <3> QED BY <3>1, <3>2, <3>3
  <2>6. TypeOK'
    BY <1>0, <2>1, <2>4, <2>5 DEF TypeOK
  <2>7. NoLostWakeup'
    BY <2>4 DEF NoLostWakeup
  <2> QED BY <2>1, <2>6, <2>7
<1>4. ASSUME NEW w \in waiters, ResumeGranted(w)
      PROVE  IInv'
  <2>1. w.txn \in TxnId /\ w.key \in Key /\ w.mode \in LockMode
    BY DEF TypeOK, Waiter
  <2>2. LockInv'
    BY <1>4, <2>1, GrantInv DEF ResumeGranted
  <2>3. TypeOK'
    BY <1>0, <1>4, <2>2 DEF ResumeGranted, TypeOK
  <2>4. ASSUME NEW v \in waiters', ~v.woken
        PROVE  ~can_grant(v.txn, v.key, v.mode)'
    <3>1. v \in waiters /\ v \in Waiter /\ v.txn # w.txn
      BY <1>4, <2>4 DEF ResumeGranted, TypeOK
    <3>2. v.txn \in TxnId \ {w.txn} /\ v.key \in Key /\ v.mode \in LockMode
      BY <3>1 DEF Waiter
    <3>3. ~can_grant(v.txn, v.key, v.mode)
      BY <2>4, <3>1 DEF NoLostWakeup
    <3> QED
      BY <1>4, <2>1, <3>2, <3>3, GrantKeepsOthersWaiting DEF ResumeGranted
  <2>5. NoLostWakeup'
    BY <2>4 DEF NoLostWakeup
  <2> QED BY <2>2, <2>3, <2>5
<1>5. ASSUME NEW w \in waiters, ResumeBlocks(w)
      PROVE  IInv'
  <2> DEFINE v == [w EXCEPT !.woken = FALSE]
  <2>1. /\ v \in Waiter /\ v.txn = w.txn /\ v.key = w.key /\ v.mode = w.mode
        /\ w.key \in Key
    BY DEF TypeOK, Waiter
  <2>2. w.key \in lock_table
    BY <1>5, <2>1 DEF ResumeBlocks, can_grant, LockInv, EntriesAreHeld
  <2>3. LockInv'
    BY <1>5, <2>2 DEF ResumeBlocks, LockInv, LockTypeOK, LockExclusion, HoldersRecorded,
       EntriesAreHeld, HeldKeys, RecordedKeys, holds_lock, holds_exclusive
  <2>4. TypeOK'
    BY <1>0, <1>5, <2>1, <2>3, ReplaceWaiter DEF ResumeBlocks, TypeOK
  <2>5. \A x \in Waiter : can_grant(x.txn, x.key, x.mode)' = can_grant(x.txn, x.key, x.mode)
    BY <1>5 DEF ResumeBlocks, can_grant, holds_exclusive
  <2>6. waiters' = (waiters \ {w}) \cup {v} /\ ~can_grant(v.txn, v.key, v.mode)
    BY <1>5, <2>1 DEF ResumeBlocks
  <2>7. NoLostWakeup'
    <3> HIDE DEF v
    <3> QED BY <2>1, <2>5, <2>6 DEF NoLostWakeup, TypeOK
  <2> QED BY <2>3, <2>4, <2>7
<1>6. ASSUME NEW w \in waiters, NEW v \in Waiter, UNCHANGED lockVars,
             v.txn = w.txn, v.key = w.key, v.mode = w.mode, w.woken => v.woken,
             waiters' = (waiters \ {w}) \cup {v}
      PROVE  IInv'
  <2>1. LockInv'
    BY <1>6 DEF lockVars, LockInv, LockTypeOK, LockExclusion, HoldersRecorded,
       EntriesAreHeld, HeldKeys, RecordedKeys, holds_lock, holds_exclusive
  <2>2. TypeOK'
    BY <1>0, <1>6, <2>1, ReplaceWaiter DEF TypeOK
  <2>3. \A x \in Waiter : can_grant(x.txn, x.key, x.mode)' = can_grant(x.txn, x.key, x.mode)
    BY <1>6 DEF lockVars, can_grant, holds_exclusive
  <2>4. NoLostWakeup'
    BY <1>6, <2>3 DEF NoLostWakeup, TypeOK
  <2> QED BY <2>1, <2>2, <2>4
<1>7. ASSUME NEW w \in waiters, DeadlinePasses(w)
      PROVE  IInv'
  <2> DEFINE v == [w EXCEPT !.expired = TRUE]
  <2>1. /\ v \in Waiter /\ v.txn = w.txn /\ v.key = w.key /\ v.mode = w.mode
        /\ v.woken = w.woken
    BY DEF TypeOK, Waiter
  <2> QED BY <1>6, <1>7, <2>1 DEF DeadlinePasses
<1>8. ASSUME NEW w \in waiters, SpuriousWakeup(w)
      PROVE  IInv'
  <2> DEFINE v == [w EXCEPT !.woken = TRUE]
  <2>1. /\ v \in Waiter /\ v.txn = w.txn /\ v.key = w.key /\ v.mode = w.mode
        /\ v.woken
    BY DEF TypeOK, Waiter
  <2> QED BY <1>6, <1>8, <2>1 DEF SpuriousWakeup
<1>9. ASSUME NEW w \in waiters, TimeoutThrows(w)
      PROVE  IInv'
  <2>1. lock_table' = lock_table
    BY <1>9 DEF TimeoutThrows, LockInv, EntriesAreHeld
  <2>2. LockInv'
    BY <1>9, <2>1 DEF TimeoutThrows, LockInv, LockTypeOK, LockExclusion, HoldersRecorded,
       EntriesAreHeld, HeldKeys, RecordedKeys, holds_lock, holds_exclusive
  <2>3. TypeOK'
    BY <1>0, <1>9, <2>2 DEF TimeoutThrows, TypeOK
  <2>4. NoLostWakeup'
    BY <1>9 DEF TimeoutThrows, NoLostWakeup, can_grant, holds_exclusive
  <2> QED BY <2>2, <2>3, <2>4
<1>10. CASE UNCHANGED vars
  BY <1>10 DEF vars, TypeOK, LockInv, LockTypeOK, LockExclusion, HoldersRecorded,
     EntriesAreHeld, NoLostWakeup, HeldKeys, RecordedKeys, holds_lock, holds_exclusive,
     can_grant
<1> QED BY <1>1, <1>2, <1>3, <1>4, <1>5, <1>7, <1>8, <1>9, <1>10 DEF Next

(* The invariant holds throughout.                                         *)
LEMMA SpecInv == Spec => []IInv
  BY InitInv, NextInv, PTL DEF Spec

-----------------------------------------------------------------------------
(* The lock manager's state always has its type, and each thread waits in  *)
(* at most one lock() call.                                                *)
THEOREM TypeCorrect == Spec => []TypeOK
  BY SpecInv, PTL DEF IInv

(* lock() never lets a reader and a writer hold one key together.          *)
THEOREM Exclusion == Spec => []LockExclusion
<1>1. IInv => LockExclusion
  BY DEF IInv, LockInv
<1> QED BY <1>1, SpecInv, PTL

(* release_all finds every lock of its transaction in txn_locks_.          *)
THEOREM NothingLeaks == Spec => []HoldersRecorded
<1>1. IInv => HoldersRecorded
  BY DEF IInv, LockInv
<1> QED BY <1>1, SpecInv, PTL

(* lock_table_ holds an entry exactly for each held key.                   *)
THEOREM TableIsCompact == Spec => []EntriesAreHeld
<1>1. IInv => EntriesAreHeld
  BY DEF IInv, LockInv
<1> QED BY <1>1, SpecInv, PTL

(* notify_all reaches every thread whose request has become grantable.     *)
THEOREM WakeupsArrive == Spec => []NoLostWakeup
<1>1. IInv => NoLostWakeup
  BY DEF IInv
<1> QED BY <1>1, SpecInv, PTL

(* Locking is two-phase: no step of any thread takes back a lock, or       *)
(* weakens one, except release_all, which takes back all of them.          *)
THEOREM LockingIsTwoPhase == Spec => TwoPhase
<1>1. IInv /\ [Next]_vars => [TwoPhaseStep]_vars
  <2> SUFFICES ASSUME IInv, Next PROVE TwoPhaseStep
    OBVIOUS
  <2>1. ASSUME NEW t \in TxnId, NEW k \in Key, NEW mode \in LockMode,
               LockGranted(t, k, mode)
        PROVE  TwoPhaseStep
    BY <2>1, GrantKeepsLocks DEF LockGranted, IInv, TwoPhaseStep
  <2>2. ASSUME NEW w \in waiters, ResumeGranted(w)
        PROVE  TwoPhaseStep
    BY <2>2, GrantKeepsLocks DEF ResumeGranted, IInv, TypeOK, Waiter, TwoPhaseStep
  <2>3. ASSUME NEW t \in TxnId, release_all(t)
        PROVE  TwoPhaseStep
    <3>1. ReleaseKeys(t) /\ LockInv
      BY <2>3 DEF release_all, IInv
    <3> QED BY <3>1, ReleaseInv, ReleaseKeepsOthers DEF TwoPhaseStep
  <2>4. ASSUME UNCHANGED <<shared_holders, exclusive_holder>>
        PROVE  TwoPhaseStep
    BY <2>4 DEF TwoPhaseStep, HeldKeys, ExclusiveKeys, holds_lock, holds_exclusive
  <2> QED
    BY <2>1, <2>2, <2>3, <2>4
    DEF Next, LockBlocks, ResumeBlocks, DeadlinePasses, SpuriousWakeup, TimeoutThrows,
        lockVars
<1> QED BY <1>1, SpecInv, PTL DEF Spec, TwoPhase
=============================================================================
