---------------------------- MODULE LockManager ----------------------------
(***************************************************************************)
(* LockManager (txn/lock_manager.cpp) with the threads that call it: each  *)
(* transaction is driven by one thread, which is either outside the lock   *)
(* manager or blocked in the wait_until of one lock() call.  Each action   *)
(* is what one thread does between taking mu_ and letting it go.           *)
(***************************************************************************)
EXTENDS LockTable, Naturals

CONSTANT MaxRecorded   \* bound: keys recorded for one transaction

ASSUME MaxRecordedAssumption == MaxRecorded \in Nat

VARIABLE waiters   \* the lock() calls blocked on cv_

vars == <<lock_table, shared_holders, exclusive_holder, txn_locks, waiters>>

(***************************************************************************)
(* woken: the condition variable has been signalled and the thread has yet *)
(* to get mu_ back.  expired: the deadline, computed once when lock() was  *)
(* entered, has passed.                                                    *)
(***************************************************************************)
Waiter == [txn: TxnId, key: Key, mode: LockMode,
           woken: BOOLEAN, expired: BOOLEAN]

Blocked(t) == \E w \in waiters : w.txn = t

TypeOK ==
  /\ LockTypeOK
  /\ waiters \in SUBSET Waiter
  /\ \A v, w \in waiters : v.txn = w.txn => v = w

Init == LockInit /\ waiters = {}

-----------------------------------------------------------------------------
(***************************************************************************)
(* lock(): the first pass through the loop either grants or starts the     *)
(* wait.  lock_table_[key] creates the entry it looks at.                  *)
(***************************************************************************)
LockGranted(t, k, mode) ==
  /\ ~Blocked(t)
  /\ Len(txn_locks[t]) < MaxRecorded
  /\ Grant(t, k, mode)
  /\ UNCHANGED waiters

LockBlocks(t, k, mode) ==
  /\ ~Blocked(t)
  /\ Len(txn_locks[t]) < MaxRecorded
  /\ ~can_grant(t, k, mode)
  /\ lock_table' = lock_table \cup {k}
  /\ waiters' = waiters \cup {[txn |-> t, key |-> k, mode |-> mode,
                               woken |-> FALSE, expired |-> FALSE]}
  /\ UNCHANGED <<shared_holders, exclusive_holder, txn_locks>>

(* A later pass: a woken thread looks at the entry afresh. *)
ResumeGranted(w) ==
  /\ w.woken
  /\ Grant(w.txn, w.key, w.mode)
  /\ waiters' = waiters \ {w}

ResumeWithNewDeadline(w) ==
  /\ w.woken
  /\ ~can_grant(w.txn, w.key, w.mode)
  /\ lock_table' = lock_table \cup {w.key}
  /\ waiters' = (waiters \ {w}) \cup {[w EXCEPT !.woken = FALSE, !.expired = FALSE]}
  /\ UNCHANGED <<shared_holders, exclusive_holder, txn_locks>>

ResumeBlocks(w) ==
  /\ w.woken
  /\ ~can_grant(w.txn, w.key, w.mode)
  /\ lock_table' = lock_table \cup {w.key}
  /\ waiters' = (waiters \ {w}) \cup {[w EXCEPT !.woken = FALSE]}
  /\ UNCHANGED <<shared_holders, exclusive_holder, txn_locks>>

(* The clock, and the wake-ups that the C++ standard allows at any time. *)
DeadlinePasses(w) ==
  /\ ~w.expired
  /\ waiters' = (waiters \ {w}) \cup {[w EXCEPT !.expired = TRUE]}
  /\ UNCHANGED lockVars

SpuriousWakeup(w) ==
  /\ ~w.woken
  /\ waiters' = (waiters \ {w}) \cup {[w EXCEPT !.woken = TRUE]}
  /\ UNCHANGED lockVars

(***************************************************************************)
(* wait_until reports a timeout, to a thread that was signalled too late   *)
(* as well; lock() drops an empty entry and throws DeadlockException       *)
(* without asking can_grant again.                                         *)
(***************************************************************************)
TimeoutThrows(w) ==
  /\ w.expired
  /\ lock_table' =
       {k \in lock_table : k = w.key => \/ shared_holders[k] # {}
                                        \/ exclusive_holder[k] # NoTxn}
  /\ waiters' = waiters \ {w}
  /\ UNCHANGED <<shared_holders, exclusive_holder, txn_locks>>

(***************************************************************************)
(* release_all(): notify_all is reached only when there was a txn_locks_   *)
(* entry to walk.                                                          *)
(***************************************************************************)
ReleaseNotifyFirst(t) ==
  /\ ~Blocked(t)
  /\ txn_locks[t] # <<>>
  /\ ReleaseKeys(t)
  /\ waiters' = {IF w.key = Head(txn_locks[t]) THEN [w EXCEPT !.woken = TRUE]
                 ELSE w : w \in waiters}

release_all(t) ==
  /\ ~Blocked(t)
  /\ txn_locks[t] # <<>>
  /\ ReleaseKeys(t)
  /\ waiters' = {[w EXCEPT !.woken = TRUE] : w \in waiters}

Next ==
  \/ \E t \in TxnId :
       \/ \E k \in Key, mode \in LockMode :
            LockGranted(t, k, mode) \/ LockBlocks(t, k, mode)
       \/ release_all(t)
  \/ \E w \in waiters :
       \/ ResumeGranted(w) \/ ResumeBlocks(w)
       \/ DeadlinePasses(w) \/ SpuriousWakeup(w) \/ TimeoutThrows(w)

Spec == Init /\ [][Next]_vars

(***************************************************************************)
(* Only what the platform guarantees is fair: time passes, and a thread    *)
(* whose wait has timed out gets to run.  Nothing obliges a holder to      *)
(* release, or a signal to arrive.                                         *)
(***************************************************************************)
Expires(t)  == \E w \in waiters : w.txn = t /\ DeadlinePasses(w)
TimesOut(t) == \E w \in waiters : w.txn = t /\ TimeoutThrows(w)

FairSpec ==
  /\ Spec
  /\ \A t \in TxnId : WF_vars(Expires(t)) /\ WF_vars(TimesOut(t))

-----------------------------------------------------------------------------
(* No wake-up is lost: a thread that sleeps without a pending signal could *)
(* not be granted its lock, so only its deadline bounds the wait.  It      *)
(* rests on release_all's early return being taken only by a transaction   *)
(* that holds nothing.                                                     *)
NoLostWakeup ==
  \A w \in waiters : ~w.woken => ~can_grant(w.txn, w.key, w.mode)

(* Two-phase locking holds of every step of every thread (see              *)
(* TwoPhaseStep): locks go only by release_all, and all together.          *)
TwoPhase == [][TwoPhaseStep]_vars

(* Every lock() call returns, granted or by DeadlockException, although    *)
(* cycles of waiting transactions form and holders may never release: the  *)
(* claim behind "any cycle of waiting transactions will eventually break". *)
LockReturns == \A t \in TxnId : Blocked(t) ~> ~Blocked(t)
=============================================================================
