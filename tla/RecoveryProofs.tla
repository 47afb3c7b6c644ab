-------------------------- MODULE RecoveryProofs ---------------------------
(***************************************************************************)
(* Recovery restores what was committed, for every set of threads, keys    *)
(* and values.  The steps that append a record are in AppendProofs; here   *)
(* are the others (what a thread does besides, recovery itself, and the    *)
(* failures that make it necessary) and the theorem.                       *)
(***************************************************************************)
EXTENDS KeyVDBProofs, AppendProofs

(* Some steps carry many definitions: the solver gets the time they need.  *)
USE SMTT(60)

(***************************************************************************)
(* Steps that leave the log alone while the database serves.               *)
(***************************************************************************)
(* Steps that leave the log, the tree and the history alone: a lock is     *)
(* granted, the log or the pages are flushed, a page is evicted, a         *)
(* transaction lets go of its locks, or fails.                             *)
LEMMA QuietStep ==
  ASSUME IInv, IInv', RInv,
         UNCHANGED <<wal, tree, committed, residue, db, rpos>>, wal_synced <= wal_synced',
         \A k \in Key : disk'[k] \in {disk[k], tree[k]} /\ synced'[k] \in {synced[k], tree[k]},
         \A c \in Conn : pc'[c] # "idle" =>
           /\ pc[c] # "idle" /\ txn_id'[c] = txn_id[c] /\ write_set'[c] = write_set[c]
           /\ pc'[c] \in {"open", "append_abort", "release_abort"} => pc[c] = pc'[c],
         \A k \in Key : \A i \in WritesOf(k) : holds_exclusive(wal[i].txn, k) =>
           \/ exclusive_holder'[k] = wal[i].txn
           \/ IsAborted(wal[i].txn) \/ IsSynced(wal[i].txn)
  PROVE  RInv'
<1>1. TypeOK /\ TypeOK'
  BY Zenon DEF IInv
<1>2. LogOrder' /\ Chain' /\ \A t : IsSynced(t) => IsSynced(t)'
  BY Zenon, <1>1, LogKept DEF RInv
<1>3. /\ \A k : WritesOf(k)' = WritesOf(k) /\ Unfinished(k)' = Unfinished(k) /\ Live(k)' = Live(k)
      /\ \A s, t : InLog(s, t)' <=> InLog(s, t)
  BY Zenon DEF WritesOf, Unfinished, Live, IsEnded, IsCommitted, IsAborted, InLog
<1>4. History'
  BY DEF RInv, History, NewestIs, OldestIs, IsLastCommitted, WritesOf, IsCommitted, InLog
<1>5. Serving'
  BY DEF RInv, Serving, NewestIs, OldestIs, IsLastCommitted, Unfinished, WritesOf,
         IsEnded, IsCommitted, IsAborted, InLog
<1>6. Held'
  BY Zenon, <1>2, <1>3 DEF RInv, Held, holds_exclusive, IsAborted
<1>7. ASSUME NEW c \in Conn, pc'[c] # "idle" PROVE OwnRecords(c)'
  <2>1. /\ OwnRecords(c) /\ txn_id'[c] = txn_id[c] /\ write_set'[c] = write_set[c]
        /\ pc'[c] \in {"open", "append_abort", "release_abort"} => pc[c] = pc'[c]
    BY Zenon, <1>7 DEF RInv, Owners
  <2> QED BY <2>1, <1>3 DEF OwnRecords, Touched, IsEnded, IsCommitted, IsAborted
<1>8. Untouched'
  BY Zenon, <1>3 DEF RInv, Untouched, Settled
<1>9. Recovering'
  BY Zenon, <1>3 DEF RInv, Recovering, Restorable, Redone, Undone, Settled
<1> QED BY Zenon, <1>2, <1>4, <1>5, <1>6, <1>7, <1>8, <1>9 DEF RInv, Owners

(* A lock is granted only where no other transaction has the key.          *)
LEMMA LockForKeeps ==
  ASSUME IInv, IInv', RInv, NEW c \in Conn, NEW o, NEW k \in Key, NEW v, NEW mode \in LockMode,
         LockFor(c, o, k, v, mode)
  PROVE  RInv'
<1>1. TypeOK /\ txn_id[c] \in TxnId
  BY Zenon DEF IInv, LockFor, Sessions, TypeOK
<1>2. /\ UNCHANGED <<wal, tree, committed, residue, db, rpos>> /\ wal_synced' = wal_synced
      /\ disk' = disk /\ synced' = synced /\ pc' = pc /\ txn_id' = txn_id /\ write_set' = write_set
  BY Zenon DEF LockFor, fileVars, history
<1>3. \A u \in TxnId : ExclusiveKeys(u) \subseteq ExclusiveKeys(u)'
  BY Zenon, <1>1, GrantKeepsLocks DEF LockFor, IInv
<1>4. \A l \in Key : \A i \in WritesOf(l) : holds_exclusive(wal[i].txn, l) =>
        exclusive_holder'[l] = wal[i].txn
  BY Zenon, <1>1, <1>3, Positions DEF ExclusiveKeys, holds_exclusive
<1>5. wal_synced <= wal_synced'
  BY <1>1, <1>2 DEF TypeOK
<1> QED BY Zenon, <1>2, <1>4, <1>5, QuietStep

(* The locks that are given back are those of a transaction whose COMMIT   *)
(* is synced or whose ABORT is in the log.                                 *)
LEMMA ReleaseKeeps ==
  ASSUME IInv, IInv', RInv, NEW c \in Conn, release_all(c)
  PROVE  RInv'
<1>1. /\ TypeOK /\ txn_id[c] \in TxnId /\ pc[c] \in {"release", "release_abort"}
      /\ ReleaseKeys(txn_id[c]) /\ OwnRecords(c)
  BY Zenon DEF IInv, release_all, Sessions, TypeOK, RInv, Owners
<1>2. /\ UNCHANGED <<wal, tree, committed, residue, db, rpos>> /\ wal_synced' = wal_synced
      /\ disk' = disk /\ synced' = synced /\ pc'[c] = "idle"
      /\ \A d \in Conn : d # c => pc'[d] = pc[d] /\ txn_id'[d] = txn_id[d] /\ write_set'[d] = write_set[d]
  BY Zenon, <1>1 DEF release_all, fileVars, TypeOK
<1>3. IsAborted(txn_id[c]) \/ IsSynced(txn_id[c])
  <2>1. CASE pc[c] = "release_abort"
    BY Zenon, <1>1, <2>1 DEF OwnRecords
  <2>2. CASE pc[c] = "release"
    <3>1. PICK i \in 1 .. wal_synced : wal[i] = [type |-> "COMMIT", txn |-> txn_id[c]]
      BY Zenon, <2>2 DEF IInv, Logged, LoggedUpTo
    <3>2. wal[i].type = "COMMIT" /\ wal[i].txn = txn_id[c]
      BY <3>1
    <3> QED BY Zenon, <3>2 DEF IsSynced
  <2> QED BY Zenon, <1>1, <2>1, <2>2
<1>4. \A u \in TxnId : u # txn_id[c] => ExclusiveKeys(u) \subseteq ExclusiveKeys(u)'
  BY Zenon, <1>1, ReleaseKeepsOthers DEF IInv
<1>5. \A l \in Key : \A i \in WritesOf(l) : holds_exclusive(wal[i].txn, l) =>
        \/ exclusive_holder'[l] = wal[i].txn
        \/ IsAborted(wal[i].txn) \/ IsSynced(wal[i].txn)
  BY <1>1, <1>3, <1>4, Positions DEF ExclusiveKeys, holds_exclusive
<1>6. wal_synced <= wal_synced'
  BY <1>1, <1>2 DEF TypeOK
<1> QED BY Zenon, <1>2, <1>5, <1>6, QuietStep

(* The fsync of the log, the flush of the pages, an eviction, a read, an   *)
(* error: nothing happens to the log, the tree or the locks.               *)
LEMMA StillKeeps ==
  ASSUME IInv, IInv', RInv, exclusive_holder' = exclusive_holder, wal' = wal, tree' = tree,
         committed' = committed, residue' = residue, db' = db, rpos' = rpos,
         wal_synced' \in {wal_synced, Len(wal)},
         \A k \in Key : disk'[k] \in {disk[k], tree[k]},
         synced' \in {synced, tree},
         \A c \in Conn : pc'[c] # "idle" =>
           /\ pc[c] # "idle" /\ txn_id'[c] = txn_id[c] /\ write_set'[c] = write_set[c]
           /\ pc'[c] \in {"open", "append_abort", "release_abort"} => pc[c] = pc'[c]
  PROVE  RInv'
<1>1. TypeOK
  BY Zenon DEF IInv
<1>2. wal_synced <= wal_synced'
  BY <1>1, Positions
<1>3. \A k \in Key : synced'[k] \in {synced[k], tree[k]}
  BY Zenon
<1>4. \A k \in Key : \A i \in WritesOf(k) : holds_exclusive(wal[i].txn, k) =>
        exclusive_holder'[k] = wal[i].txn
  BY Zenon DEF holds_exclusive
<1> QED BY Zenon, <1>2, <1>3, <1>4, QuietStep

LEMMA ThreadStillKeeps ==
  ASSUME IInv, IInv', RInv, NEW c \in Conn,
         \/ get_locked(c) \/ flush(c) \/ flush_all(c) \/ Fails(c)
         \/ delete_locked(c) /\ tree[call[c].key] = Absent
  PROVE  RInv'
<1>1. /\ exclusive_holder' = exclusive_holder /\ wal' = wal /\ tree' = tree
      /\ committed' = committed /\ residue' = residue /\ db' = db /\ rpos' = rpos
      /\ wal_synced' \in {wal_synced, Len(wal)} /\ synced' \in {synced, tree}
      /\ \A k \in Key : disk'[k] \in {disk[k], tree[k]}
  BY Zenon DEF get_locked, flush, flush_all, Fails, delete_locked, lockVars, fileVars, history
<1>2. pc \in [Conn -> {"idle", "open", "wal_flush", "page_flush", "release",
                       "append_abort", "release_abort"}]
  BY Zenon DEF IInv, TypeOK
<1>3. CASE pc' = pc /\ txn_id' = txn_id /\ write_set' = write_set
  BY Zenon, <1>1, <1>3, StillKeeps
<1>4. ASSUME NEW s \in {"page_flush", "release"}, pc[c] # "idle", pc' = [pc EXCEPT ![c] = s],
             txn_id' = txn_id, write_set' = write_set
      PROVE  RInv'
  <2>1. \A d \in Conn : pc'[d] # "idle" =>
          /\ pc[d] # "idle" /\ txn_id'[d] = txn_id[d] /\ write_set'[d] = write_set[d]
          /\ pc'[d] \in {"open", "append_abort", "release_abort"} => pc[d] = pc'[d]
    BY Zenon, <1>2, <1>4
  <2> QED BY Zenon, <1>1, <2>1, StillKeeps
<1>5. CASE Fails(c)
  <2>1. \A d \in Conn : pc'[d] # "idle" =>
          /\ pc[d] # "idle" /\ txn_id'[d] = txn_id[d] /\ write_set'[d] = write_set[d]
          /\ pc'[d] \in {"open", "append_abort", "release_abort"} => pc[d] = pc'[d]
    BY Zenon, <1>2, <1>5 DEF Fails, IInv, TypeOK
  <2> QED BY Zenon, <1>1, <2>1, StillKeeps
<1>6. CASE flush(c)
  BY Zenon, <1>4, <1>6 DEF flush
<1>7. CASE flush_all(c)
  BY Zenon, <1>4, <1>7 DEF flush_all
<1>8. CASE get_locked(c) \/ (delete_locked(c) /\ tree[call[c].key] = Absent)
  BY Zenon, <1>3, <1>8 DEF get_locked, delete_locked
<1> QED BY Zenon, <1>5, <1>6, <1>7, <1>8

LEMMA EvictKeeps ==
  ASSUME IInv, IInv', RInv, NEW k \in Key, evict_frame(k)
  PROVE  RInv'
<1>1. /\ exclusive_holder' = exclusive_holder /\ wal' = wal /\ tree' = tree
      /\ committed' = committed /\ residue' = residue /\ db' = db /\ rpos' = rpos
      /\ wal_synced' = wal_synced /\ disk' = [disk EXCEPT ![k] = tree[k]] /\ synced' = synced
      /\ pc' = pc /\ txn_id' = txn_id /\ write_set' = write_set
  BY Zenon DEF evict_frame, lockVars, connVars, history
<1>2. disk \in [Key -> Stored]
  BY Zenon DEF IInv, TypeOK
<1>3. \A l \in Key : disk'[l] \in {disk[l], tree[l]}
  BY Zenon, <1>1, <1>2
<1> QED BY Zenon, <1>1, <1>3, StillKeeps

(* Rollback's undo: every key its transaction wrote has an unfinished      *)
(* record, so nothing is said of the tree there, and no other thread       *)
(* minds.                                                                  *)
LEMMA UndoAllKeeps ==
  ASSUME IInv, IInv', RInv, NEW c \in Conn, undo_all(c)
  PROVE  RInv'
<1>1. /\ TypeOK /\ TypeOK' /\ Sessions /\ Owned /\ db = "up" /\ pc[c] = "open" /\ OwnRecords(c)
      /\ ~IsEnded(txn_id[c])
  BY Zenon DEF IInv, Sessions, undo_all, RInv, Owners, OwnRecords
<1>2. /\ wal' = wal /\ wal_synced' = wal_synced /\ committed' = committed /\ residue' = residue
      /\ UNCHANGED <<exclusive_holder, db, txn_id, write_set, disk, synced>>
      /\ pc'[c] = "append_abort" /\ \A d \in Conn : d # c => pc'[d] = pc[d]
      /\ \A k \in Key : k \in Touched(c) => tree'[k] = write_set[c][k]
      /\ \A k \in Key : k \notin Touched(c) => tree'[k] = tree[k]
  BY Zenon, <1>1 DEF undo_all, TypeOK, lockVars, fileVars, history
<1>3. LogOrder' /\ Chain' /\ \A t : IsSynced(t) => IsSynced(t)'
  <2>1. wal_synced <= wal_synced'
    BY <1>1, <1>2 DEF TypeOK
  <2> QED BY Zenon, <1>1, <1>2, <2>1, LogKept DEF RInv
<1>4. /\ \A k : WritesOf(k)' = WritesOf(k) /\ Unfinished(k)' = Unfinished(k)
      /\ \A s, t : InLog(s, t)' <=> InLog(s, t)
      /\ \A S, b : (NewestIs(S, b)' <=> NewestIs(S, b)) /\ (OldestIs(S, b)' <=> OldestIs(S, b))
  BY Zenon, <1>2, SameLog
<1>5. ASSUME NEW k \in Key
      PROVE  k \in Touched(c) <=> \E i \in WritesOf(k) : wal[i].txn = txn_id[c]
  BY Zenon, <1>1 DEF OwnRecords
<1>6. ASSUME NEW k \in Key, k \in Touched(c) PROVE Unfinished(k) # {}
  BY Zenon, <1>1, <1>5, <1>6 DEF Unfinished
<1>7. History'
  BY Zenon, <1>2, <1>4 DEF RInv, History
<1>8. ASSUME NEW k \in Key
      PROVE  (/\ Unfinished(k) = {} =>
                   /\ NewestIs(WritesOf(k), Encode(tree[k]))
                   /\ OldestIs(WritesOf(k), Encode(tree[k]))
                   /\ residue[k] = "none" => tree[k] = committed[k]
              /\ residue[k] = "none" =>
                   \A i \in Unfinished(k) : wal[i].before = Encode(committed[k]))'
  BY Zenon, <1>1, <1>2, <1>4, <1>6 DEF RInv, Serving
<1>9. Held'
  BY Zenon, <1>2, <1>3, <1>4 DEF RInv, Held, holds_exclusive, IsAborted
<1>10. ASSUME NEW d \in Conn, pc'[d] # "idle" PROVE OwnRecords(d)'
  <2>1. /\ OwnRecords(d) /\ Touched(d)' = Touched(d)
        /\ txn_id'[d] = txn_id[d] /\ write_set'[d] = write_set[d]
    <3>1. pc[d] # "idle"
      BY Zenon, <1>1, <1>2, <1>10
    <3> QED BY Zenon, <1>2, <3>1 DEF RInv, Owners, Touched
  <2>2. InLog("BEGIN", txn_id[d])' /\ (IsAborted(txn_id[d])' <=> IsAborted(txn_id[d]))
        /\ (IsEnded(txn_id[d])' <=> IsEnded(txn_id[d]))
    BY Zenon, <1>4, <2>1 DEF OwnRecords, IsEnded, IsAborted, IsCommitted
  <2>3. ASSUME NEW k \in Key, NEW i \in WritesOf(k)', wal'[i].txn = txn_id[d]
        PROVE  /\ k \in Touched(d) /\ i \in WritesOf(k) /\ wal[i].txn = txn_id[d]
               /\ wal[i].before = Encode(write_set[d][k])
    <3>1. i \in WritesOf(k) /\ wal[i].txn = txn_id[d]
      BY Zenon, <1>2, <1>4, <2>3
    <3> QED BY Zenon, <2>1, <3>1 DEF OwnRecords
  <2>4. \A k \in Key : k \in Touched(d)' <=> \E i \in WritesOf(k)' : wal'[i].txn = txn_id[d]
    <3>1. \A k \in Key : k \in Touched(d) <=> \E i \in WritesOf(k) : wal[i].txn = txn_id[d]
      BY Zenon, <2>1 DEF OwnRecords
    <3> QED BY Zenon, <1>2, <1>4, <2>1, <3>1
  <2>5. CASE d = c
    <3>1. \A k \in Key : \A i \in WritesOf(k)' : wal'[i].txn = txn_id[c] =>
            wal'[i].before = Encode(write_set[c][k]) /\ tree'[k] = write_set[c][k]
      BY Zenon, <1>2, <2>3, <2>5
    <3> QED BY Zenon, <1>1, <1>2, <2>1, <2>2, <2>4, <2>5, <3>1 DEF OwnRecords
  <2>6. CASE d # c
    <3>1. pc'[d] = pc[d] /\ pc[d] # "idle" /\ txn_id[d] # txn_id[c]
      BY Zenon, <1>1, <1>2, <1>10, <2>6 DEF Sessions
    <3>2. \A k \in Key : k \in Touched(d) => tree'[k] = tree[k]
      BY Zenon, <1>1, <1>2, <3>1 DEF Owned, holds_exclusive
    <3>3. ASSUME NEW k \in Key, NEW i \in WritesOf(k)', wal'[i].txn = txn_id[d]
          PROVE  /\ wal'[i].before = Encode(write_set[d][k])
                 /\ pc[d] = "open" /\ (\A m \in WritesOf(k)' : wal'[m].txn = txn_id[d] => m <= i) =>
                      wal'[i].after \in Oversize \cup {Encode(tree'[k])}
                 /\ pc[d] = "append_abort" => tree'[k] = write_set[d][k]
      <4>1. /\ i \in WritesOf(k) /\ wal[i].txn = txn_id[d] /\ tree'[k] = tree[k]
            /\ WritesOf(k)' = WritesOf(k) /\ wal' = wal
        BY Zenon, <1>2, <1>4, <2>3, <3>2, <3>3
      <4> QED BY Zenon, <2>1, <4>1 DEF OwnRecords
    <3> QED BY Zenon, <2>1, <2>2, <2>4, <3>1, <3>3 DEF OwnRecords
  <2> QED BY Zenon, <2>5, <2>6
<1>11. Untouched'
  <2>1. \A k \in Key : WritesOf(k) = {} => k \notin Touched(c)
    BY Zenon, <1>5
  <2> QED BY Zenon, <1>2, <1>4, <2>1 DEF RInv, Untouched, Settled
<1>12. Recovering'
  BY Zenon, <1>1, <1>2 DEF Recovering
<1>13. Serving' /\ Owners'
  BY Zenon, <1>8, <1>10 DEF Serving, Owners
<1> QED BY Zenon, <1>3, <1>7, <1>9, <1>11, <1>12, <1>13 DEF RInv

-----------------------------------------------------------------------------
(* The sets that recovery collects, in terms of the records.               *)
LEMMA EndsOf ==
  ASSUME NEW log \in Seq(LogRecord), NEW t
  PROVE  /\ t \in Committed(log) <=> \E e \in DOMAIN log : log[e].type = "COMMIT" /\ log[e].txn = t
         /\ t \in Aborted(log) <=> \E e \in DOMAIN log : log[e].type = "ABORT" /\ log[e].txn = t
<1>1. ASSUME NEW e \in DOMAIN log
      PROVE  log[e] \in LogRecord /\ log[e].txn \in TxnId
  BY DEF LogRecord
<1>2. ASSUME NEW e \in DOMAIN log, NEW s \in {"COMMIT", "ABORT"}
      PROVE  log[e] = [type |-> s, txn |-> t] <=> log[e].type = s /\ log[e].txn = t
  <2>1. ASSUME log[e].type = s PROVE log[e] = [type |-> s, txn |-> log[e].txn]
    BY Zenon, <1>1, <2>1 DEF LogRecord
  <2> QED BY <2>1
<1> QED BY Zenon, <1>1, <1>2 DEF Committed, Aborted

LEMMA EndRecords ==
  ASSUME TypeOK, NEW t
  PROVE  /\ t \in Committed(wal) <=> IsCommitted(t)
         /\ t \in Aborted(wal) <=> IsAborted(t)
<1>1. wal \in Seq(LogRecord)
  BY Zenon DEF TypeOK
<1> QED BY <1>1, EndsOf DEF IsCommitted, IsAborted, InLog

LEMMA EndRecordsNext ==
  ASSUME TypeOK', NEW t
  PROVE  /\ t \in Committed(wal') <=> IsCommitted(t)'
         /\ t \in Aborted(wal') <=> IsAborted(t)'
<1>1. wal' \in Seq(LogRecord)
  BY Zenon DEF TypeOK
<1> QED BY <1>1, EndsOf DEF IsCommitted, IsAborted, InLog

(* analysis: the writers without an end are the losers.                    *)
LEMMA LosersAreUnfinished ==
  ASSUME TypeOK, EndIsLast, Begun, NEW i \in DOMAIN wal, IsWrite(wal[i])
  PROVE  wal[i].txn \in Losers(wal) <=> ~IsEnded(wal[i].txn)
<1> DEFINE t == wal[i].txn
<1>1. t \in TxnId
  BY Zenon, Positions
<1>2. ASSUME ~IsEnded(t) PROVE t \in Losers(wal)
  <2>1. PICK b \in DOMAIN wal : wal[b].type = "BEGIN" /\ wal[b].txn = t
    BY Zenon DEF Begun
  <2>2. \A j \in DOMAIN wal : wal[j].txn = t => wal[j].type \notin {"COMMIT", "ABORT"}
    BY Zenon, <1>2 DEF IsEnded, IsCommitted, IsAborted, InLog
  <2> QED BY Zenon, <1>1, <2>1, <2>2 DEF Losers
<1>3. ASSUME IsEnded(t), t \in Losers(wal) PROVE FALSE
  <2>1. PICK e \in DOMAIN wal : wal[e].type \in {"COMMIT", "ABORT"} /\ wal[e].txn = t
    BY Zenon, <1>3 DEF IsEnded, IsCommitted, IsAborted, InLog
  <2>2. PICK b \in DOMAIN wal : /\ wal[b].type = "BEGIN" /\ wal[b].txn = t
                                /\ \A j \in DOMAIN wal : j > b /\ wal[j].txn = t =>
                                     wal[j].type \notin {"COMMIT", "ABORT"}
    BY Zenon, <1>3 DEF Losers
  <2>3. b <= e /\ b # e
    BY Zenon, <2>1, <2>2 DEF EndIsLast
  <2>4. e > b
    BY <2>3, Positions
  <2> QED BY Zenon, <2>1, <2>2, <2>4
<1> QED BY Zenon, <1>2, <1>3

-----------------------------------------------------------------------------
(***************************************************************************)
(* Recovery, and the failure of the process: the log is left alone, and    *)
(* nothing runs.                                                           *)
(***************************************************************************)
LEMMA RecoveryFrame ==
  ASSUME TypeOK, TypeOK', RInv, wal' = wal, wal_synced' = wal_synced, committed' = committed,
         db' # "up", \A c \in Conn : pc'[c] = "idle",
         \A k \in Key : residue'[k] = "none" => residue[k] = "none",
         Untouched', Recovering'
  PROVE  RInv'
<1>1. LogOrder' /\ Chain'
  <2>1. wal_synced <= wal_synced'
    BY DEF TypeOK
  <2> QED BY Zenon, <2>1, LogKept DEF RInv
<1>2. /\ \A k : WritesOf(k)' = WritesOf(k)
      /\ \A S, b : (NewestIs(S, b)' <=> NewestIs(S, b)) /\ (OldestIs(S, b)' <=> OldestIs(S, b))
  BY Zenon, SameLog
<1>3. History'
  BY Zenon, <1>2 DEF RInv, History
<1>4. Serving' /\ Held' /\ Owners'
  BY Zenon DEF Serving, Held, Owners
<1> QED BY Zenon, <1>1, <1>3, <1>4 DEF RInv

(* What RecoveryFrame needs to know of an action of recovery.              *)
RecoveryStep ==
  /\ wal' = wal /\ wal_synced' = wal_synced /\ committed' = committed /\ residue' = residue
  /\ db # "up" /\ db' # "up" /\ pc' = pc

LEMMA RecoveryKeeps ==
  ASSUME IInv, IInv', RInv, RecoveryStep, Untouched', Recovering'
  PROVE  RInv'
<1>1. TypeOK /\ TypeOK' /\ \A c \in Conn : pc'[c] = "idle"
  BY Zenon DEF IInv, Sessions, RecoveryStep
<1> QED BY Zenon, <1>1, RecoveryFrame DEF RecoveryStep

(* Recovery changes only keys with a live record: the others stay as the   *)
(* failure has left them.                                                  *)
LEMMA StillRestorable ==
  ASSUME RInv, RecoveryStep,
         \A k \in Key : Live(k) = {} => tree'[k] = tree[k] /\ disk'[k] \in {disk[k], tree[k]}
  PROVE  \A k \in Key : WritesOf(k)' # {} /\ residue'[k] = "none" => Restorable(k)'
<1>1. \A k : WritesOf(k)' = WritesOf(k) /\ Live(k)' = Live(k)
  BY Zenon, SameLog DEF RecoveryStep
<1>2. \A k \in Key : WritesOf(k) # {} /\ residue[k] = "none" => Restorable(k)
  BY Zenon DEF RInv, Recovering, RecoveryStep
<1> QED BY Zenon, <1>1, <1>2 DEF Restorable, RecoveryStep

LEMMA OpenKeeps ==
  ASSUME IInv, IInv', RInv, Open
  PROVE  RInv'
<1>1. RecoveryStep /\ rpos' = 1 /\ db' \in {"redo", "failed"}
      /\ tree' = tree /\ disk' = disk /\ synced' = synced
  BY Zenon DEF Open, RecoveryStep, connVars, fileVars, history
<1>2. \A k : WritesOf(k)' = WritesOf(k) /\ Live(k)' = Live(k)
  BY Zenon, <1>1, SameLog DEF RecoveryStep
<1>3. Untouched'
  BY Zenon, <1>1, <1>2 DEF RInv, Untouched, Settled, RecoveryStep
<1>4. Redone'
  <2>1. \A k \in Key : \A i \in Live(k) : ~(i < 1)
    <3>1. TypeOK
      BY Zenon DEF IInv
    <3>2. \A k \in Key : \A i \in WritesOf(k) : i \in DOMAIN wal
      BY Zenon DEF WritesOf
    <3> QED BY <3>1, <3>2, Positions DEF Live
  <2> QED BY Zenon, <1>1, <1>2, <2>1 DEF Redone
<1>5. Recovering'
  BY Zenon, <1>1, <1>4, StillRestorable DEF Recovering
<1> QED BY Zenon, <1>1, <1>3, <1>5, RecoveryKeeps

(* The record that redo looks at is a live write of k.                     *)
LEMMA ReplayedIsLive ==
  ASSUME TypeOK, NEW i \in DOMAIN wal, NEW k \in Key
  PROVE  i \in Live(k) <=> IsWriteOf(wal[i], k) /\ wal[i].txn \notin Aborted(wal)
  BY Zenon, EndRecords DEF Live, WritesOf

LEMMA RedoKeeps ==
  ASSUME IInv, IInv', RInv, Empty \notin Value, redo
  PROVE  RInv'
<1>1. /\ TypeOK /\ db = "redo" /\ rpos \in DOMAIN wal /\ rpos \in Nat /\ Redone
      /\ rpos' = rpos + 1 /\ RecoveryStep /\ synced' = synced
  <2>1. TypeOK /\ db = "redo" /\ rpos \in 1 .. Len(wal) + 1 /\ rpos <= Len(wal)
    BY Zenon DEF IInv, Position, redo
  <2>2. rpos \in DOMAIN wal /\ rpos \in Nat
    BY <2>1, Positions
  <2>3. rpos' = rpos + 1 /\ RecoveryStep /\ synced' = synced
    BY Zenon, <2>1 DEF redo, RecoveryStep, connVars, history
  <2> QED BY Zenon, <2>1, <2>2, <2>3 DEF RInv, Recovering
<1>2. \A k : WritesOf(k)' = WritesOf(k) /\ Live(k)' = Live(k)
  BY Zenon, <1>1, SameLog DEF RecoveryStep
<1>3. ASSUME NEW k \in Key
      PROVE  rpos \in Live(k) <=> IsWriteOf(wal[rpos], k) /\ wal[rpos].txn \notin Aborted(wal)
  BY Zenon, <1>1, ReplayedIsLive
<1>4. ASSUME NEW k \in Key, NEW i \in Live(k)
      PROVE  i \in Nat /\ i \in WritesOf(k) /\ wal[i].after \in Bytes /\ wal[i].key = k
             /\ IsWrite(wal[i])
  BY Zenon, <1>1, Positions DEF Live, IsWrite
<1>5. CASE \E k \in Key : rpos \in Live(k) /\ wal[rpos].after \in Oversize
  <2>1. db' = "failed" /\ disk' = tree /\ tree' = tree
    BY Zenon, <1>3, <1>5 DEF redo, IsWriteOf
  <2>2. Untouched'
    BY Zenon, <1>1, <1>2, <2>1 DEF RInv, Untouched, Settled, RecoveryStep
  <2>3. Recovering'
    BY Zenon, <1>1, <2>1, StillRestorable DEF Recovering
  <2> QED BY Zenon, <1>1, <2>2, <2>3, RecoveryKeeps
<1>6. CASE \A k \in Key : rpos \notin Live(k)
  <2>1. db' = "redo" /\ disk' = disk /\ tree' = tree
    <3>1. ~(IsWrite(wal[rpos]) /\ wal[rpos].txn \notin Aborted(wal))
      <4>1. wal[rpos] \in LogRecord
        BY Zenon, <1>1, Positions
      <4> QED BY Zenon, <1>3, <1>6, <4>1, WriteRecordType DEF IsWriteOf
    <3> QED BY Zenon, <1>1, <3>1 DEF redo
  <2>2. Untouched'
    BY Zenon, <1>1, <1>2, <2>1 DEF RInv, Untouched, Settled, RecoveryStep
  <2>3. \A k \in Key : \A i \in Live(k) : i < rpos + 1 <=> i < rpos
    BY <1>1, <1>4, <1>6
  <2>4. Redone'
    BY Zenon, <1>1, <1>2, <2>1, <2>3 DEF Redone, RecoveryStep
  <2>5. Recovering'
    BY Zenon, <1>1, <2>1, <2>4, StillRestorable DEF Recovering
  <2> QED BY Zenon, <1>1, <2>2, <2>5, RecoveryKeeps
<1>7. ASSUME NEW l \in Key, rpos \in Live(l), wal[rpos].after \notin Oversize PROVE RInv'
  <2>1. /\ db' = "redo" /\ disk' = disk /\ wal[rpos].key = l /\ wal[rpos].after \in Bytes
        /\ tree' = [tree EXCEPT ![l] = Decode(wal[rpos].after)]
    <3>1. /\ wal[rpos].key = l /\ wal[rpos].after \in Bytes /\ IsWrite(wal[rpos])
          /\ wal[rpos].txn \notin Aborted(wal)
      BY Zenon, <1>3, <1>4, <1>7
    <3> QED BY Zenon, <1>1, <1>7, <3>1 DEF redo
  <2>2. /\ tree'[l] = Decode(wal[rpos].after)
        /\ \A k \in Key : k # l => tree'[k] = tree[k] /\ rpos \notin Live(k)
    BY Zenon, <1>1, <1>4, <2>1 DEF TypeOK
  <2>3. Encode(tree'[l]) = wal[rpos].after
    BY Zenon, <2>1, <2>2, Codec
  <2>4. Untouched'
    <3>1. WritesOf(l) # {}
      BY Zenon, <1>4, <1>7
    <3> QED BY Zenon, <1>1, <1>2, <2>1, <2>2, <3>1 DEF RInv, Untouched, Settled, RecoveryStep
  <2>5. ASSUME NEW k \in Key, NEW i \in Live(k), i < rpos + 1
        PROVE  /\ wal[i].after \notin Oversize
               /\ (\A m \in Live(k) : m < rpos + 1 => m <= i) => wal[i].after = Encode(tree'[k])
    <3>1. CASE i = rpos
      <4>1. k = l
        BY Zenon, <2>2, <3>1
      <4> QED BY Zenon, <1>7, <2>3, <3>1, <4>1
    <3>2. CASE i # rpos
      <4>1. i < rpos
        BY <1>1, <1>4, <2>5, <3>2
      <4>2. CASE k = l
        <5>1. rpos \in Live(k) /\ rpos < rpos + 1 /\ ~(rpos <= i)
          BY <1>1, <1>4, <1>7, <4>1, <4>2
        <5> QED BY Zenon, <1>1, <4>1, <5>1 DEF Redone
      <4>3. CASE k # l
        <5>1. \A m \in Live(k) : m < rpos => m < rpos + 1
          BY <1>1, <1>4
        <5> QED BY Zenon, <1>1, <2>2, <4>1, <4>3, <5>1 DEF Redone
      <4> QED BY Zenon, <4>2, <4>3
    <3> QED BY Zenon, <3>1, <3>2
  <2>6. Redone'
    BY Zenon, <1>1, <1>2, <2>5 DEF Redone, RecoveryStep
  <2>7. Recovering'
    <3>1. \A k \in Key : Live(k) = {} => tree'[k] = tree[k] /\ disk'[k] = disk[k]
      BY Zenon, <1>7, <2>1, <2>2
    <3> QED BY Zenon, <1>1, <2>1, <2>6, <3>1, StillRestorable DEF Recovering
  <2> QED BY Zenon, <1>1, <2>4, <2>7, RecoveryKeeps
<1> QED BY Zenon, <1>5, <1>6, <1>7

LEMMA RedoDoneKeeps ==
  ASSUME IInv, IInv', RInv, RedoDone
  PROVE  RInv'
<1>1. /\ TypeOK /\ db = "redo" /\ db' = "undo" /\ rpos > Len(wal) /\ rpos' = Len(wal) /\ Redone
      /\ RecoveryStep /\ tree' = tree /\ disk' = disk /\ synced' = synced /\ rpos \in Nat
  BY Zenon DEF IInv, TypeOK, RedoDone, RecoveryStep, connVars, fileVars, history, RInv, Recovering
<1>2. \A k : WritesOf(k)' = WritesOf(k) /\ Live(k)' = Live(k) /\ Unfinished(k)' = Unfinished(k)
  BY Zenon, <1>1, SameLog DEF RecoveryStep
<1>3. Untouched'
  BY Zenon, <1>1, <1>2 DEF RInv, Untouched, Settled, RecoveryStep
<1>4. \A k \in Key : \A i \in WritesOf(k) : i < rpos /\ ~(i > Len(wal))
  <2>1. \A k \in Key : \A i \in WritesOf(k) : i \in 1 .. Len(wal)
    BY Zenon, <1>1, Positions
  <2> QED BY <1>1, <2>1, Positions
<1>5. \A k \in Key : /\ \A i \in Live(k) : i \in WritesOf(k)
                     /\ \A i \in Unfinished(k) : i \in WritesOf(k)
  BY Zenon DEF Live, Unfinished
<1>6. Undone'
  BY Zenon, <1>1, <1>2, <1>4, <1>5 DEF Undone, Redone, RecoveryStep
<1>7. Recovering'
  BY Zenon, <1>1, <1>6, StillRestorable DEF Recovering
<1> QED BY Zenon, <1>1, <1>3, <1>7, RecoveryKeeps

LEMMA UndoKeeps ==
  ASSUME IInv, IInv', RInv, Empty \notin Value, undo
  PROVE  RInv'
<1>1. /\ TypeOK /\ db = "undo" /\ db' = "undo" /\ rpos \in DOMAIN wal /\ rpos \in Nat /\ Undone
      /\ rpos' = rpos - 1 /\ RecoveryStep /\ disk' = disk /\ synced' = synced
  <2>1. TypeOK /\ db = "undo" /\ rpos \in 0 .. Len(wal) /\ rpos > 0
    BY Zenon DEF IInv, Position, undo
  <2>2. rpos \in DOMAIN wal /\ rpos \in Nat
    BY <2>1, Positions
  <2>3. db' = "undo" /\ rpos' = rpos - 1 /\ RecoveryStep /\ disk' = disk /\ synced' = synced
    BY Zenon, <2>1 DEF undo, RecoveryStep, connVars, fileVars, history
  <2> QED BY Zenon, <2>1, <2>2, <2>3 DEF RInv, Recovering
<1>2. \A k : WritesOf(k)' = WritesOf(k) /\ Live(k)' = Live(k) /\ Unfinished(k)' = Unfinished(k)
  BY Zenon, <1>1, SameLog DEF RecoveryStep
<1>3. ASSUME NEW k \in Key, NEW i \in Unfinished(k)
      PROVE  i \in Nat /\ i \in WritesOf(k) /\ wal[i].before \in Bytes /\ wal[i].key = k
             /\ IsWrite(wal[i])
  BY Zenon, <1>1, Positions DEF Unfinished, IsWrite
<1>4. ASSUME NEW k \in Key
      PROVE  rpos \in Unfinished(k) <=> IsWriteOf(wal[rpos], k) /\ wal[rpos].txn \in Losers(wal)
  <2>1. IsWrite(wal[rpos]) => (wal[rpos].txn \in Losers(wal) <=> ~IsEnded(wal[rpos].txn))
    BY Zenon, <1>1, LosersAreUnfinished DEF RInv, LogOrder
  <2> QED BY Zenon, <1>1, <2>1 DEF Unfinished, WritesOf, IsWriteOf
<1>5. CASE \A k \in Key : rpos \notin Unfinished(k)
  <2>1. tree' = tree
    <3>1. ~(IsWrite(wal[rpos]) /\ wal[rpos].txn \in Losers(wal))
      <4>1. wal[rpos] \in LogRecord
        BY Zenon, <1>1, Positions
      <4> QED BY Zenon, <1>4, <1>5, <4>1, WriteRecordType DEF IsWriteOf
    <3> QED BY Zenon, <3>1 DEF undo
  <2>2. Untouched'
    BY Zenon, <1>1, <1>2, <2>1 DEF RInv, Untouched, Settled, RecoveryStep
  <2>3. \A k \in Key : \A i \in Unfinished(k) :
          (i > rpos - 1 <=> i > rpos) /\ (i <= rpos - 1 <=> i <= rpos)
    BY <1>1, <1>3, <1>5
  <2>4. Undone'
    BY Zenon, <1>1, <1>2, <2>1, <2>3 DEF Undone, RecoveryStep
  <2>5. Recovering'
    BY Zenon, <1>1, <2>1, <2>4, StillRestorable DEF Recovering
  <2> QED BY Zenon, <1>1, <2>2, <2>5, RecoveryKeeps
<1>6. ASSUME NEW l \in Key, rpos \in Unfinished(l) PROVE RInv'
  <2>1. /\ wal[rpos].key = l /\ wal[rpos].before \in Bytes
        /\ tree' = [tree EXCEPT ![l] = Decode(wal[rpos].before)]
    <3>1. /\ wal[rpos].key = l /\ wal[rpos].before \in Bytes /\ IsWrite(wal[rpos])
          /\ wal[rpos].txn \in Losers(wal)
      BY Zenon, <1>3, <1>4, <1>6
    <3> QED BY Zenon, <3>1 DEF undo
  <2>2. /\ tree'[l] = Decode(wal[rpos].before)
        /\ \A k \in Key : k # l => tree'[k] = tree[k] /\ rpos \notin Unfinished(k)
    BY Zenon, <1>1, <1>3, <2>1 DEF TypeOK
  <2>3. Encode(tree'[l]) = wal[rpos].before
    BY Zenon, <2>1, <2>2, Codec
  <2>4. Untouched'
    <3>1. WritesOf(l) # {}
      BY Zenon, <1>3, <1>6
    <3> QED BY Zenon, <1>1, <1>2, <2>1, <2>2, <3>1 DEF RInv, Untouched, Settled, RecoveryStep
  <2>5. ASSUME NEW i \in Unfinished(l), i > rpos PROVE wal[i].before = wal[rpos].before
    <3>1. i \in WritesOf(l) /\ rpos \in WritesOf(l) /\ rpos < i /\ ~IsEnded(wal[rpos].txn)
      BY Zenon, <1>1, <1>3, <1>6, <2>5 DEF Unfinished
    <3>2. ~EndedBetween(rpos, i)
      BY Zenon, <3>1 DEF EndedBetween, IsEnded, IsCommitted, IsAborted, InLog
    <3>3. wal[i].txn = wal[rpos].txn
      BY Zenon, <3>1, <3>2 DEF RInv, LogOrder, InTurn
    <3> QED BY Zenon, <3>1, <3>3 DEF RInv, LogOrder, OneBefore
  <2>6. ASSUME NEW k \in Key
        PROVE  /\ \A i \in Live(k) : wal[i].after \notin Oversize
               /\ \A i \in Unfinished(k) : i > rpos - 1 => wal[i].before = Encode(tree'[k])
               /\ (\A i \in Unfinished(k) : i <= rpos - 1) =>
                    \A i \in Live(k) : (\A m \in Live(k) : m <= i) => wal[i].after = Encode(tree'[k])
    <3>1. CASE k = l
      <4>1. ASSUME NEW i \in Unfinished(k), i > rpos - 1 PROVE wal[i].before = Encode(tree'[k])
        <5>1. i = rpos \/ i > rpos
          BY <1>1, <1>3, <4>1
        <5> QED BY Zenon, <2>3, <2>5, <3>1, <5>1
      <4>2. rpos \in Unfinished(k) /\ ~(rpos <= rpos - 1)
        BY <1>1, <1>6, <3>1
      <4> QED BY Zenon, <1>1, <4>1, <4>2 DEF Undone
    <3>2. CASE k # l
      <4>1. \A i \in Unfinished(k) : (i > rpos - 1 <=> i > rpos) /\ (i <= rpos - 1 <=> i <= rpos)
        BY <1>1, <1>3, <2>2, <3>2
      <4> QED BY Zenon, <1>1, <2>2, <3>2, <4>1 DEF Undone
    <3> QED BY Zenon, <3>1, <3>2
  <2>7. Undone'
    BY Zenon, <1>1, <1>2, <2>6 DEF Undone, RecoveryStep
  <2>8. Recovering'
    <3>1. rpos \in Live(l)
      BY Zenon, <1>6 DEF Unfinished, Live, IsEnded
    <3>2. \A k \in Key : Live(k) = {} => tree'[k] = tree[k] /\ disk'[k] = disk[k]
      BY Zenon, <1>1, <2>2, <3>1
    <3> QED BY Zenon, <1>1, <2>7, <3>2, StillRestorable DEF Recovering
  <2> QED BY Zenon, <1>1, <2>4, <2>8, RecoveryKeeps
<1> QED BY Zenon, <1>5, <1>6

(* A set of positions that is not empty has a last one.                    *)
LEMMA LastExists ==
  ASSUME TypeOK, NEW S \in SUBSET (DOMAIN wal), S # {}
  PROVE  \E i \in S : \A m \in S : m <= i
<1>1. Len(wal) \in Nat /\ S \in SUBSET Nat /\ \A x \in S : x <= Len(wal)
  BY Positions
<1>2. Max(S) \in S /\ \A x \in S : x <= Max(S)
  BY Zenon, <1>1, MaxExists
<1> QED BY Zenon, <1>2

(* What redo and undo have left of a key is what was committed: where a    *)
(* writer is unfinished its before-image, which rests on the last commit   *)
(* before it, and the after-image of that commit where none is.            *)
LEMMA ReplayIsCommitted ==
  ASSUME TypeOK, RInv, Empty \notin Value, Undone, rpos = 0, NEW k \in Key, residue[k] = "none",
         WritesOf(k) # {}, Live(k) # {}
  PROVE  tree[k] = committed[k]
<1>1. /\ LogOrder /\ NewestIs(WritesOf(k), Encode(committed[k]))
      /\ OldestIs(WritesOf(k), Encode(committed[k]))
  BY Zenon DEF RInv, History
<1>2. \A i \in WritesOf(k) : i \in Nat /\ i \in DOMAIN wal
  BY Zenon, Positions
<1>3. \A i \in WritesOf(k) : IsCommitted(wal[i].txn) => i \in Live(k)
  BY Zenon, <1>1, OneEnd DEF LogOrder, Live
<1>4. \A i \in Live(k) : i \in WritesOf(k) /\ wal[i].after \notin Oversize
  BY Zenon DEF Undone, Live
<1>5. Encode(tree[k]) = Encode(committed[k])
  <2>1. ASSUME NEW j \in Unfinished(k) PROVE Encode(tree[k]) = Encode(committed[k])
    <3>1. j \in WritesOf(k) /\ ~IsEnded(wal[j].txn)
      BY Zenon DEF Unfinished
    <3>2. wal[j].before = Encode(tree[k])
      <4>1. j > rpos
        BY <3>1, Positions
      <4> QED BY Zenon, <4>1 DEF Undone
    <3> DEFINE C == {i \in WritesOf(k) : IsCommitted(wal[i].txn)}
    <3>3. CASE C = {}
      BY Zenon, <1>1, <3>1, <3>2, <3>3 DEF OldestIs
    <3>4. CASE C # {}
      <4>1. C \in SUBSET (DOMAIN wal)
        BY Zenon, <1>2
      <4>2. PICK i \in C : \A m \in C : m <= i
        BY Zenon, <3>4, <4>1, LastExists
      <4>3. /\ i \in WritesOf(k) /\ IsCommitted(wal[i].txn) /\ IsLastCommitted(i, WritesOf(k))
            /\ wal[i].txn # wal[j].txn
        BY Zenon, <3>1, <4>2 DEF IsLastCommitted, IsEnded
      <4>4. ~(j < i)
        <5>1. ASSUME j < i PROVE EndedBetween(j, i)
          BY Zenon, <1>1, <3>1, <4>3, <5>1 DEF LogOrder, InTurn
        <5>2. EndedBetween(j, i) => IsEnded(wal[j].txn)
          BY Zenon DEF EndedBetween, IsEnded, IsCommitted, IsAborted, InLog
        <5> QED BY Zenon, <3>1, <5>1, <5>2
      <4>5. i < j
        BY <1>2, <3>1, <4>3, <4>4
      <4>6. i \in Earlier(k, j) /\ IsLastCommitted(i, Earlier(k, j))
        BY Zenon, <4>3, <4>5 DEF Earlier, IsLastCommitted
      <4>7. wal[i].after \in Oversize \cup {wal[j].before}
        BY Zenon, <3>1, <4>6 DEF RInv, Chain, NewestIs
      <4>8. wal[i].after \in Oversize \cup {Encode(committed[k])} /\ wal[i].after \notin Oversize
        BY Zenon, <1>1, <1>3, <1>4, <4>3 DEF NewestIs
      <4> QED BY Zenon, <3>2, <4>7, <4>8
    <3> QED BY Zenon, <3>3, <3>4
  <2>2. CASE Unfinished(k) = {}
    <3>1. Live(k) \in SUBSET (DOMAIN wal)
      BY Zenon, <1>2, <1>4
    <3>2. PICK i \in Live(k) : \A m \in Live(k) : m <= i
      BY Zenon, <3>1, LastExists
    <3>3. wal[i].after = Encode(tree[k])
      BY Zenon, <2>2, <3>2 DEF Undone
    <3>4. i \in WritesOf(k) /\ IsCommitted(wal[i].txn)
      BY Zenon, <2>2 DEF Live, Unfinished, IsEnded
    <3>5. IsLastCommitted(i, WritesOf(k))
      BY Zenon, <1>3, <3>2, <3>4 DEF IsLastCommitted
    <3>6. wal[i].after \in Oversize \cup {Encode(committed[k])} /\ wal[i].after \notin Oversize
      BY Zenon, <1>1, <1>4, <3>4, <3>5 DEF NewestIs
    <3> QED BY Zenon, <3>3, <3>6
  <2> QED BY Zenon, <2>1, <2>2
<1>6. tree[k] \in Stored /\ committed[k] \in Stored
  BY Zenon DEF TypeOK
<1> QED BY Zenon, <1>5, <1>6, Codec

LEMMA CheckpointKeeps ==
  ASSUME IInv, IInv', RInv, Empty \notin Value, Checkpoint
  PROVE  RInv'
<1>1. /\ TypeOK /\ db = "undo" /\ db' = "truncate" /\ rpos = 0 /\ Undone /\ RecoveryStep
      /\ tree' = tree /\ disk' = tree /\ synced' = tree
  BY Zenon DEF IInv, Checkpoint, RecoveryStep, connVars, history, RInv, Recovering
<1>2. \A k : WritesOf(k)' = WritesOf(k)
  BY Zenon, <1>1, SameLog DEF RecoveryStep
<1>3. ASSUME NEW k \in Key, residue[k] = "none" PROVE tree[k] = committed[k]
  <2>1. CASE WritesOf(k) = {}
    BY Zenon, <1>3, <2>1 DEF RInv, Untouched, Settled
  <2>2. CASE WritesOf(k) # {}
    <3>1. Live(k) # {} \/ tree[k] = committed[k]
      BY Zenon, <1>1, <1>3, <2>2 DEF RInv, Recovering, Restorable
    <3> QED BY Zenon, <1>1, <1>3, <2>2, <3>1, ReplayIsCommitted
  <2> QED BY Zenon, <2>1, <2>2
<1>4. \A k \in Key : residue'[k] = "none" => Settled(k)'
  BY Zenon, <1>1, <1>3 DEF Settled, RecoveryStep
<1>5. Untouched' /\ Recovering'
  BY Zenon, <1>1, <1>4, StillRestorable DEF Untouched, Recovering
<1> QED BY Zenon, <1>1, <1>5, RecoveryKeeps

(* Close, and the end of recovery: the log is empty.                       *)
LEMMA EmptyLog ==
  ASSUME DOMAIN wal' = {}, db' \in {"up", "down"}, \A c \in Conn : pc'[c] = "idle",
         \A k \in Key : residue'[k] = "none" => Settled(k)'
  PROVE  RInv'
<1>1. \A k : WritesOf(k)' = {} /\ Unfinished(k)' = {}
  BY Zenon DEF WritesOf, Unfinished
<1>2. LogOrder' /\ Chain'
  BY Zenon, <1>1 DEF LogOrder, EndIsLast, Begun, OneBefore, InTurn, Chain
<1>4. History' /\ Held' /\ Owners' /\ Untouched'
  BY Zenon, <1>1 DEF History, NewestIs, OldestIs, Held, Owners, Untouched
<1>5. Serving'
  BY Zenon, <1>1 DEF Serving, NewestIs, OldestIs, Settled
<1>6. Recovering'
  BY Zenon, <1>1 DEF Recovering
<1> QED BY Zenon, <1>2, <1>4, <1>5, <1>6 DEF RInv

LEMMA TruncateKeeps ==
  ASSUME IInv, RInv, Truncate
  PROVE  RInv'
<1>1. /\ db = "truncate" /\ db' = "up" /\ wal' = <<>> /\ pc' = pc
      /\ tree' = tree /\ disk' = disk /\ synced' = synced
      /\ committed' = committed /\ residue' = residue
  BY Zenon DEF Truncate, truncate, connVars
<1>2. DOMAIN wal' = {} /\ \A c \in Conn : pc'[c] = "idle"
  BY <1>1 DEF IInv, Sessions
<1>3. \A k \in Key : residue'[k] = "none" => Settled(k)'
  BY Zenon, <1>1 DEF RInv, Recovering, Settled
<1> QED BY Zenon, <1>1, <1>2, <1>3, EmptyLog

LEMMA CloseKeeps ==
  ASSUME IInv, RInv, Close
  PROVE  RInv'
<1>1. /\ db' = "down" /\ wal' = <<>> /\ tree' = tree /\ disk' = tree /\ synced' = tree
      /\ committed' = committed /\ \A c \in Conn : pc'[c] = "idle"
      /\ \A k \in Key : residue'[k] = "none" => tree[k] = committed[k]
  BY Zenon DEF IInv, TypeOK, Close, truncate, MemoryIsLost
<1>2. DOMAIN wal' = {}
  BY <1>1
<1>3. \A k \in Key : residue'[k] = "none" => Settled(k)'
  BY Zenon, <1>1 DEF Settled
<1> QED BY Zenon, <1>1, <1>2, <1>3, EmptyLog

(* What a failure records of a key that it finds in the log.               *)
LEMMA ResidueIs ==
  ASSUME NEW k \in Key
  PROVE  \A log, file, values : ResidueAfter(log, file, values)[k] = "none" =>
           residue[k] = "none" /\ (WritesOf(k) # {} => k \in Usable(log) \/ file[k] = values[k])
<1> SUFFICES ASSUME NEW log, NEW file, NEW values, ResidueAfter(log, file, values)[k] = "none"
             PROVE  /\ residue[k] = "none"
                    /\ WritesOf(k) # {} => k \in Usable(log) \/ file[k] = values[k]
  BY Zenon
<1>1. /\ residue[k] = "none"
      /\ k \notin WrittenIn(wal) \/ k \in Usable(log) \/ file[k] = values[k]
  BY Zenon DEF ResidueAfter, Stranded
<1>2. WritesOf(k) # {} => k \in WrittenIn(wal)
  BY Zenon DEF WritesOf, WrittenIn
<1> QED BY Zenon, <1>1, <1>2

LEMMA ProcessCrashKeeps ==
  ASSUME IInv, IInv', RInv, ProcessCrash
  PROVE  RInv'
<1>1. /\ TypeOK /\ TypeOK' /\ wal' = wal /\ wal_synced' = wal_synced /\ committed' = committed
      /\ db' = "down" /\ (\A c \in Conn : pc'[c] = "idle")
      /\ residue' = ResidueAfter(wal, disk, committed)
      /\ tree' = disk /\ disk' = disk /\ synced' = synced
  BY Zenon DEF IInv, ProcessCrash, MemoryIsLost, fileVars
<1>2. \A k : WritesOf(k)' = WritesOf(k) /\ Live(k)' = Live(k)
  BY Zenon, <1>1, SameLog
<1>3. ASSUME NEW k \in Key, residue'[k] = "none"
      PROVE  residue[k] = "none" /\ (WritesOf(k) # {} => Live(k) # {} \/ disk[k] = committed[k])
  <2>1. k \in Usable(wal) => Live(k) # {}
    BY Zenon, <1>1, ReplayedIsLive DEF Usable
  <2>2. ResidueAfter(wal, disk, committed)[k] = "none"
    BY Zenon, <1>1, <1>3
  <2>3. residue[k] = "none" /\ (WritesOf(k) # {} => k \in Usable(wal) \/ disk[k] = committed[k])
    BY Zenon, <1>1, <2>2, ResidueIs
  <2> QED BY Zenon, <2>1, <2>3
<1>4. Untouched' /\ Recovering'
  BY Zenon, <1>1, <1>2, <1>3 DEF RInv, Untouched, Settled, Recovering, Restorable
<1> QED BY Zenon, <1>1, <1>3, <1>4, RecoveryFrame

-----------------------------------------------------------------------------
(***************************************************************************)
(* A power failure: the log is cut somewhere behind its synced part.       *)
(***************************************************************************)
(* A power failure cuts the log after record n, and may leave the header   *)
(* of the record after it.                                                 *)
CutAt(n) ==
  /\ n \in Nat /\ wal_synced <= n /\ wal_synced' = Len(wal')
  /\ \A i \in DOMAIN wal' : i \in DOMAIN wal /\ wal'[i].txn = wal[i].txn
  /\ \A i \in DOMAIN wal : i <= n => i \in DOMAIN wal' /\ wal'[i] = wal[i]
  /\ \A i \in DOMAIN wal' : ~(i <= n) => wal'[i].type = "TORN"

LEMMA PowerLossCuts ==
  ASSUME TypeOK, TypeOK', PowerLoss
  PROVE  \E n : CutAt(n)
<1>1. PICK n \in wal_synced .. Len(wal) :
        \/ wal' = SubSeq(wal, 1, n)
        \/ n < Len(wal) /\ wal' = Torn(n)
  BY Zenon DEF PowerLoss
<1>2. /\ wal \in Seq(LogRecord) /\ Len(wal) \in Nat /\ DOMAIN wal = 1 .. Len(wal)
      /\ n \in Nat /\ wal_synced \in Nat /\ wal_synced <= n /\ n <= Len(wal)
  BY DEF TypeOK
<1>3. PICK s : s = SubSeq(wal, 1, n)
  BY Zenon
<1>4. s \in Seq(LogRecord) /\ Len(s) = n /\ \A i \in 1 .. n : s[i] = wal[i]
  BY <1>2, <1>3
<1>5. /\ \A i \in DOMAIN wal' : i \in DOMAIN wal /\ wal'[i].txn = wal[i].txn
      /\ wal_synced' = Len(wal')
  <2>1. wal_synced' = Len(wal')
    BY Zenon DEF PowerLoss
  <2> QED BY Zenon, <2>1, PowerLossLog
<1>6. CASE wal' = s
  <2>1. CutAt(n)
    BY <1>2, <1>4, <1>5, <1>6 DEF CutAt
  <2> QED BY Zenon, <2>1
<1>7. CASE n < Len(wal) /\ wal' = Torn(n)
  <2>1. PICK r : r = [type |-> "TORN", txn |-> wal[n + 1].txn]
    BY Zenon
  <2>2. wal' = s \o <<r>> /\ r.type = "TORN"
    BY Zenon, <1>3, <1>7, <2>1 DEF Torn
  <2>3. /\ DOMAIN wal' = 1 .. n + 1 /\ \A i \in 1 .. n : wal'[i] = s[i]
        /\ wal'[n + 1] = r
    BY <1>2, <1>4, <2>2
  <2>4. CutAt(n)
    BY <1>2, <1>4, <1>5, <2>2, <2>3 DEF CutAt
  <2> QED BY Zenon, <2>4
<1> QED BY Zenon, <1>1, <1>3, <1>6, <1>7

(* What is left of the writes, and of the ends.                            *)
LEMMA CutKeeps ==
  ASSUME TypeOK, TypeOK', LogOrder, NEW n, CutAt(n)
  PROVE  /\ \A k \in Key : WritesOf(k)' = {i \in WritesOf(k) : i <= n}
         /\ \A k \in Key : \A i \in WritesOf(k)' : i \in WritesOf(k) /\ i <= n /\ wal'[i] = wal[i]
         /\ \A s, t : s # "TORN" => (InLog(s, t)' => InLog(s, t))
         /\ \A t : \A e \in DOMAIN wal :
              e <= n /\ wal[e].type = "COMMIT" /\ wal[e].txn = t => IsCommitted(t)' /\ IsSynced(t)'
         /\ \A t : IsSynced(t) => IsCommitted(t)'
         /\ \A k \in Key : \A i \in WritesOf(k) : \A t :
              wal[i].txn = t /\ IsCommitted(t)' => i \in WritesOf(k)'
<1>1. \A i \in DOMAIN wal : i \in Nat
  BY Zenon, Positions
<1>2. ASSUME NEW i \in DOMAIN wal', wal'[i].type # "TORN"
      PROVE  i \in DOMAIN wal /\ i <= n /\ wal'[i] = wal[i]
  BY Zenon, <1>2 DEF CutAt
<1>3. ASSUME NEW k \in Key, NEW i
      PROVE  i \in WritesOf(k)' <=> i \in WritesOf(k) /\ i <= n
  <2>1. ASSUME i \in WritesOf(k)' PROVE i \in WritesOf(k) /\ i <= n
    <3>1. i \in DOMAIN wal' /\ wal'[i].type = "WRITE" /\ IsWriteOf(wal'[i], k)
      BY Zenon, <2>1 DEF WritesOf, IsWriteOf, IsWrite
    <3> QED BY Zenon, <1>2, <3>1 DEF WritesOf
  <2>2. ASSUME i \in WritesOf(k), i <= n PROVE i \in WritesOf(k)'
    BY Zenon, <2>2 DEF WritesOf, CutAt
  <2> QED BY Zenon, <2>1, <2>2
<1>4. \A k \in Key : \A i \in WritesOf(k)' : i \in WritesOf(k) /\ i <= n /\ wal'[i] = wal[i]
  BY Zenon, <1>3 DEF WritesOf, CutAt
<1>5. ASSUME NEW s, NEW t, s # "TORN", InLog(s, t)' PROVE InLog(s, t)
  BY Zenon, <1>2, <1>5 DEF InLog
<1>6. ASSUME NEW t, NEW e \in DOMAIN wal, e <= n, wal[e].type = "COMMIT", wal[e].txn = t
      PROVE  IsCommitted(t)' /\ IsSynced(t)'
  <2>1. e \in DOMAIN wal' /\ wal'[e] = wal[e]
    BY Zenon, <1>6 DEF CutAt
  <2>2. DOMAIN wal' = 1 .. wal_synced'
    BY DEF CutAt, TypeOK
  <2> QED BY Zenon, <1>6, <2>1, <2>2 DEF IsCommitted, IsSynced, InLog
<1>7. ASSUME NEW t, IsSynced(t) PROVE IsCommitted(t)'
  <2>1. PICK e \in 1 .. wal_synced : wal[e].type = "COMMIT" /\ wal[e].txn = t
    BY Zenon, <1>7 DEF IsSynced
  <2>2. e \in DOMAIN wal /\ e <= n
    BY <2>1, Positions DEF CutAt
  <2> QED BY Zenon, <1>6, <2>1, <2>2
<1>8. ASSUME NEW k \in Key, NEW i \in WritesOf(k), NEW t, wal[i].txn = t, IsCommitted(t)'
      PROVE  i \in WritesOf(k)'
  <2>1. PICK e \in DOMAIN wal' : wal'[e].type = "COMMIT" /\ wal'[e].txn = t
    BY Zenon, <1>8 DEF IsCommitted, InLog
  <2>2. e \in DOMAIN wal /\ e <= n /\ wal[e].type = "COMMIT" /\ wal[e].txn = t
    BY Zenon, <1>2, <2>1
  <2>3. i \in DOMAIN wal /\ i <= e
    BY Zenon, <1>8, <2>2 DEF LogOrder, EndIsLast, WritesOf
  <2>4. i <= n
    BY <1>1, <2>2, <2>3 DEF CutAt
  <2> QED BY Zenon, <1>3, <2>4
<1>9. \A k \in Key : WritesOf(k)' = {i \in WritesOf(k) : i <= n}
  BY Zenon, <1>3
<1> QED BY Zenon, <1>4, <1>5, <1>6, <1>7, <1>8, <1>9

(* A log cut short is in order: a writer that ended before the next one    *)
(* did so in the part that is left.                                        *)
LEMMA CutOrder ==
  ASSUME TypeOK, TypeOK', LogOrder, NEW n, CutAt(n)
  PROVE  LogOrder'
<1>1. \A i \in DOMAIN wal : i \in Nat
  BY Zenon, Positions
<1>2. ASSUME NEW i \in DOMAIN wal', wal'[i].type # "TORN"
      PROVE  i \in DOMAIN wal /\ i <= n /\ wal'[i] = wal[i]
  BY Zenon, <1>2 DEF CutAt
<1>3. ASSUME NEW i \in DOMAIN wal, NEW j, i < j, j \in Nat, j <= n
      PROVE  i \in DOMAIN wal' /\ wal'[i] = wal[i] /\ i <= n
  <2>1. i <= n
    BY <1>1, <1>3 DEF CutAt
  <2> QED BY Zenon, <2>1 DEF CutAt
<1>4. EndIsLast'
  <2> SUFFICES ASSUME NEW i \in DOMAIN wal', NEW j \in DOMAIN wal',
                      wal'[i].type \in {"COMMIT", "ABORT"}, wal'[j].txn = wal'[i].txn
               PROVE  j <= i
    BY Zenon DEF EndIsLast
  <2>1. i \in DOMAIN wal /\ wal'[i] = wal[i] /\ j \in DOMAIN wal /\ wal[j].txn = wal'[j].txn
    BY Zenon, <1>2 DEF CutAt
  <2> QED BY Zenon, <2>1 DEF LogOrder, EndIsLast
<1>5. Begun'
  <2> SUFFICES ASSUME NEW i \in DOMAIN wal', IsWrite(wal'[i])
               PROVE  \E b \in DOMAIN wal' : b < i /\ wal'[b].type = "BEGIN" /\ wal'[b].txn = wal'[i].txn
    BY Zenon DEF Begun
  <2>1. i \in DOMAIN wal /\ i <= n /\ wal'[i] = wal[i]
    BY Zenon, <1>2 DEF IsWrite
  <2>2. PICK b \in DOMAIN wal : b < i /\ wal[b].type = "BEGIN" /\ wal[b].txn = wal[i].txn
    BY Zenon, <2>1 DEF LogOrder, Begun
  <2> QED BY Zenon, <1>1, <1>3, <2>1, <2>2
<1>6. \A k \in Key : \A i \in WritesOf(k)' : i \in WritesOf(k) /\ i <= n /\ wal'[i] = wal[i]
  BY Zenon, CutKeeps
<1>7. OneBefore'
  BY <1>6 DEF LogOrder, OneBefore
<1>8. InTurn'
  <2> SUFFICES ASSUME NEW k \in Key, NEW i \in WritesOf(k)', NEW j \in WritesOf(k)',
                      i < j, wal'[i].txn # wal'[j].txn
               PROVE  (EndedBetween(i, j) /\ (IsAborted(wal[i].txn) \/ IsSynced(wal[i].txn)))'
    BY Zenon DEF InTurn
  <2>1. /\ i \in WritesOf(k) /\ wal'[i] = wal[i] /\ j \in WritesOf(k) /\ wal'[j] = wal[j]
        /\ j \in Nat /\ j <= n
    BY Zenon, <1>1, <1>6 DEF WritesOf
  <2>2. EndedBetween(i, j)
    BY Zenon, <2>1 DEF LogOrder, InTurn
  <2>3. PICK e \in DOMAIN wal : /\ i < e /\ e < j /\ wal[e].txn = wal[i].txn
                                /\ wal[e].type \in {"COMMIT", "ABORT"}
    BY Zenon, <2>2 DEF EndedBetween
  <2>4. e \in DOMAIN wal' /\ wal'[e] = wal[e] /\ e <= n
    BY Zenon, <1>3, <2>1, <2>3
  <2>5. EndedBetween(i, j)'
    BY Zenon, <2>1, <2>3, <2>4 DEF EndedBetween
  <2>6. PICK t : t = wal[i].txn
    BY Zenon
  <2>7. IsAborted(t)' \/ IsSynced(t)'
    <3>1. CASE wal[e].type = "ABORT"
      BY Zenon, <2>3, <2>4, <2>6, <3>1 DEF IsAborted, InLog
    <3>2. CASE wal[e].type = "COMMIT"
      BY Zenon, <2>3, <2>4, <2>6, <3>2, CutKeeps
    <3> QED BY Zenon, <2>3, <3>1, <3>2
  <2> QED BY Zenon, <2>1, <2>5, <2>6, <2>7
<1> QED BY Zenon, <1>4, <1>5, <1>7, <1>8 DEF LogOrder

(* The fate of the writers before a record that is left is left too.       *)
LEMMA CutChain ==
  ASSUME TypeOK, TypeOK', LogOrder, Chain, NEW n, CutAt(n)
  PROVE  Chain'
<1> SUFFICES ASSUME NEW k \in Key, NEW j \in WritesOf(k)'
             PROVE  (NewestIs(Earlier(k, j), wal[j].before) /\ OldestIs(Earlier(k, j), wal[j].before))'
  BY Zenon DEF Chain
<1>1. \A i \in WritesOf(k) : i \in DOMAIN wal /\ i \in Nat
  BY Zenon, Positions
<1>2. /\ WritesOf(k)' = {i \in WritesOf(k) : i <= n}
      /\ \A i \in WritesOf(k)' : i \in WritesOf(k) /\ i <= n /\ wal'[i] = wal[i]
      /\ \A s, t : s # "TORN" => (InLog(s, t)' => InLog(s, t))
  BY Zenon, CutKeeps
<1>3. PICK S : S = Earlier(k, j)
  BY Zenon
<1>4. n \in Nat
  BY Zenon DEF CutAt
<1>5. Earlier(k, j)' = S
  <2>1. \A i \in WritesOf(k) : i < j => i <= n
    BY <1>1, <1>2, <1>4
  <2> QED BY Zenon, <1>2, <1>3, <2>1 DEF Earlier
<1>6. ASSUME NEW i \in S
      PROVE  wal'[i] = wal[i] /\ (IsCommitted(wal[i].txn)' <=> IsCommitted(wal[i].txn))
  <2>1. i \in WritesOf(k) /\ i \in WritesOf(k)' /\ i < j /\ wal[i].txn # wal[j].txn /\ wal'[i] = wal[i]
    BY Zenon, <1>2, <1>3, <1>5 DEF Earlier
  <2>2. PICK e \in DOMAIN wal : /\ i < e /\ e < j /\ wal[e].txn = wal[i].txn
                                /\ wal[e].type \in {"COMMIT", "ABORT"}
    BY Zenon, <1>2, <2>1 DEF LogOrder, InTurn, EndedBetween
  <2>3. e <= n
    <3>1. e \in Nat /\ j \in Nat /\ j <= n
      BY Zenon, <1>1, <1>2, Positions
    <3> QED BY <1>4, <2>2, <3>1
  <2>4. PICK t : t = wal[i].txn
    BY Zenon
  <2>5. IsCommitted(t)' => IsCommitted(t)
    BY Zenon, <1>2 DEF IsCommitted
  <2>6. CASE wal[e].type = "COMMIT"
    <3>1. IsCommitted(t)'
      BY Zenon, <2>2, <2>3, <2>4, <2>6, CutKeeps
    <3> QED BY Zenon, <2>1, <2>4, <2>5, <3>1
  <2>7. CASE wal[e].type = "ABORT"
    <3>1. IsAborted(t)
      BY Zenon, <2>2, <2>4, <2>7 DEF IsAborted, InLog
    <3>2. ~IsCommitted(t)
      BY Zenon, <3>1, OneEnd DEF LogOrder
    <3> QED BY Zenon, <2>1, <2>4, <2>5, <3>2
  <2> QED BY Zenon, <2>2, <2>6, <2>7
<1>7. \A b : (NewestIs(S, b)' <=> NewestIs(S, b)) /\ (OldestIs(S, b)' <=> OldestIs(S, b))
  BY Zenon, <1>6, SameImages
<1>8. NewestIs(S, wal[j].before) /\ OldestIs(S, wal[j].before) /\ wal'[j] = wal[j]
  BY Zenon, <1>2, <1>3 DEF Chain
<1> QED BY Zenon, <1>5, <1>7, <1>8

(* The writes of a key whose COMMIT record the failure has lost.           *)
LEMMA LostAre ==
  ASSUME TypeOK, TypeOK', NEW k \in Key, NEW i, NEW t, t = wal[i].txn
  PROVE  i \in LostWrites(wal', k) <=> i \in WritesOf(k) /\ IsCommitted(t) /\ ~IsCommitted(t)'
<1>1. (t \in Committed(wal) <=> IsCommitted(t)) /\ (t \in Committed(wal') <=> IsCommitted(t)')
  BY Zenon, EndRecords, EndRecordsNext
<1>2. i \in LostWrites(wal', k) <=> i \in WritesOf(k) /\ t \in Committed(wal) \ Committed(wal')
  BY Zenon DEF LostWrites, WritesOf
<1> QED BY Zenon, <1>1, <1>2

(* Where no commit to k is lost, the writers that are left leave the same. *)
LEMMA NoneLost ==
  ASSUME TypeOK, TypeOK', LogOrder, NEW n, CutAt(n), NEW k \in Key, LostWrites(wal', k) = {}, NEW b
  PROVE  /\ NewestIs(WritesOf(k), b) => NewestIs(WritesOf(k), b)'
         /\ OldestIs(WritesOf(k), b) => OldestIs(WritesOf(k), b)'
<1>1. /\ \A i \in WritesOf(k)' : i \in WritesOf(k) /\ wal'[i] = wal[i]
      /\ \A t : IsCommitted(t)' => IsCommitted(t)
      /\ \A i \in WritesOf(k) : \A t : wal[i].txn = t /\ IsCommitted(t)' => i \in WritesOf(k)'
  BY Zenon, CutKeeps DEF IsCommitted
<1>2. ASSUME NEW i \in WritesOf(k), NEW t, t = wal[i].txn, IsCommitted(t)
      PROVE  IsCommitted(t)' /\ i \in WritesOf(k)' /\ wal'[i].txn = t
  <2>1. IsCommitted(t)'
    BY Zenon, <1>2, LostAre
  <2> QED BY Zenon, <1>1, <1>2, <2>1
<1>3. ASSUME NewestIs(WritesOf(k), b), NEW i \in WritesOf(k)', IsLastCommitted(i, WritesOf(k))'
      PROVE  wal'[i].after \in Oversize \cup {b}
  <2>1. PICK t : t = wal'[i].txn
    BY Zenon
  <2>2. IsCommitted(t)' /\ i \in WritesOf(k) /\ wal'[i] = wal[i]
    BY Zenon, <1>1, <1>3, <2>1 DEF IsLastCommitted
  <2>3. IsCommitted(wal[i].txn)
    BY Zenon, <1>1, <2>1, <2>2
  <2>4. ASSUME NEW m \in WritesOf(k), IsCommitted(wal[m].txn) PROVE m <= i
    <3>1. PICK u : u = wal[m].txn
      BY Zenon
    <3>2. IsCommitted(u)' /\ m \in WritesOf(k)' /\ wal'[m].txn = u
      BY Zenon, <1>2, <2>4, <3>1
    <3> QED BY Zenon, <1>3, <3>2 DEF IsLastCommitted
  <2> QED BY Zenon, <1>3, <2>2, <2>3, <2>4 DEF NewestIs, IsLastCommitted
<1>4. ASSUME OldestIs(WritesOf(k), b), \A i \in WritesOf(k)' : ~IsCommitted(wal[i].txn)'
      PROVE  \A i \in WritesOf(k)' : wal'[i].before = b
  <2>1. ASSUME NEW i \in WritesOf(k), IsCommitted(wal[i].txn) PROVE FALSE
    <3>1. PICK u : u = wal[i].txn
      BY Zenon
    <3>2. IsCommitted(u)' /\ i \in WritesOf(k)' /\ wal'[i].txn = u
      BY Zenon, <1>2, <2>1, <3>1
    <3> QED BY Zenon, <1>4, <3>2
  <2> QED BY Zenon, <1>1, <1>4, <2>1 DEF OldestIs
<1> QED BY Zenon, <1>3, <1>4 DEF NewestIs, OldestIs

(* Where one is, the key's other writers came before it and are left, with *)
(* their COMMIT synced: what they leave is its before-image.               *)
LEMMA SomeLost ==
  ASSUME TypeOK, TypeOK', LogOrder, Chain, NEW n, CutAt(n), NEW k \in Key,
         NEW w \in LostWrites(wal', k), NEW b, b = wal[w].before
  PROVE  NewestIs(WritesOf(k), b)' /\ OldestIs(WritesOf(k), b)'
<1>1. /\ \A i \in WritesOf(k)' : i \in WritesOf(k) /\ wal'[i] = wal[i]
      /\ \A t : IsCommitted(t)' => IsCommitted(t)
      /\ \A t : IsSynced(t) => IsCommitted(t)'
      /\ \A i \in WritesOf(k) : \A t : wal[i].txn = t /\ IsCommitted(t)' => i \in WritesOf(k)'
  BY Zenon, CutKeeps DEF IsCommitted
<1>2. PICK v : v = wal[w].txn
  BY Zenon
<1>3. w \in WritesOf(k) /\ IsCommitted(v) /\ ~IsCommitted(v)' /\ ~IsSynced(v) /\ ~IsAborted(v)
  <2>1. w \in WritesOf(k) /\ IsCommitted(v) /\ ~IsCommitted(v)'
    BY Zenon, <1>2, LostAre
  <2> QED BY Zenon, <1>1, <2>1, OneEnd DEF LogOrder
<1>4. ASSUME NEW i \in WritesOf(k), wal[i].txn # v PROVE i \in Earlier(k, w)
  <2>1. ~(w < i)
    BY Zenon, <1>2, <1>3, <1>4 DEF LogOrder, InTurn
  <2>2. i < w
    BY <1>2, <1>3, <1>4, <2>1, Positions
  <2> QED BY Zenon, <1>2, <1>4, <2>2 DEF Earlier
<1>5. ASSUME NEW m \in Earlier(k, w), NEW t, t = wal[m].txn, IsCommitted(t)
      PROVE  m \in WritesOf(k)' /\ IsCommitted(t)' /\ wal'[m].txn = t
  <2>1. m \in WritesOf(k) /\ m < w /\ wal[m].txn # wal[w].txn
    BY Zenon DEF Earlier
  <2>2. IsAborted(t) \/ IsSynced(t)
    BY Zenon, <1>3, <1>5, <2>1 DEF LogOrder, InTurn
  <2>3. IsSynced(t)
    BY Zenon, <1>5, <2>2, OneEnd DEF LogOrder
  <2> QED BY Zenon, <1>1, <1>5, <2>1, <2>3
<1>6. NewestIs(Earlier(k, w), b) /\ OldestIs(Earlier(k, w), b)
  BY Zenon, <1>3 DEF Chain
<1>7. ASSUME NEW i \in WritesOf(k)', IsLastCommitted(i, WritesOf(k))'
      PROVE  wal'[i].after \in Oversize \cup {b}
  <2>1. PICK t : t = wal'[i].txn
    BY Zenon
  <2>2. IsCommitted(t)' /\ i \in WritesOf(k) /\ wal'[i] = wal[i]
    BY Zenon, <1>1, <1>7, <2>1 DEF IsLastCommitted
  <2>3. IsCommitted(wal[i].txn) /\ i \in Earlier(k, w)
    BY Zenon, <1>1, <1>3, <1>4, <2>1, <2>2
  <2>4. ASSUME NEW m \in Earlier(k, w), IsCommitted(wal[m].txn) PROVE m <= i
    <3>1. PICK u : u = wal[m].txn
      BY Zenon
    <3>2. IsCommitted(u)' /\ m \in WritesOf(k)' /\ wal'[m].txn = u
      BY Zenon, <1>5, <2>4, <3>1
    <3> QED BY Zenon, <1>7, <3>2 DEF IsLastCommitted
  <2> QED BY Zenon, <1>6, <2>2, <2>3, <2>4 DEF NewestIs, IsLastCommitted
<1>8. ASSUME \A i \in WritesOf(k)' : ~IsCommitted(wal[i].txn)', NEW i \in WritesOf(k)'
      PROVE  wal'[i].before = b
  <2>1. i \in WritesOf(k) /\ wal'[i] = wal[i]
    BY Zenon, <1>1
  <2>2. CASE wal[i].txn = v
    BY Zenon, <1>2, <1>3, <2>1, <2>2 DEF LogOrder, OneBefore
  <2>3. CASE wal[i].txn # v
    <3>1. ASSUME NEW m \in Earlier(k, w), IsCommitted(wal[m].txn) PROVE FALSE
      <4>1. PICK u : u = wal[m].txn
        BY Zenon
      <4>2. IsCommitted(u)' /\ m \in WritesOf(k)' /\ wal'[m].txn = u
        BY Zenon, <1>5, <3>1, <4>1
      <4> QED BY Zenon, <1>8, <4>2
    <3> QED BY Zenon, <1>4, <1>6, <2>1, <2>3, <3>1 DEF OldestIs
  <2> QED BY Zenon, <2>2, <2>3
<1> QED BY Zenon, <1>7, <1>8 DEF NewestIs, OldestIs

(* A power failure: the writes and commits that the device does not have   *)
(* have not happened.                                                      *)
LEMMA PowerLossKeeps ==
  ASSUME IInv, IInv', RInv, Empty \notin Value, PowerLoss
  PROVE  RInv'
<1>1. TypeOK /\ TypeOK' /\ LogOrder /\ Chain /\ History
  BY Zenon DEF IInv, RInv
<1>2. PICK n : CutAt(n)
  BY Zenon, <1>1, PowerLossCuts
<1>3. LogOrder' /\ Chain'
  BY Zenon, <1>1, <1>2, CutOrder, CutChain
<1>4. /\ db' = "down" /\ (\A c \in Conn : pc'[c] = "idle") /\ tree' = disk' /\ synced' = disk'
      /\ committed' = CommittedAfter(wal') /\ residue' = ResidueAfter(wal', disk', committed')
  BY Zenon DEF PowerLoss, MemoryIsLost
<1>5. \A k \in Key : disk'[k] \in {disk[k], synced[k]}
  <2>1. PICK kept : disk' = [k \in Key |-> IF k \in kept THEN disk[k] ELSE synced[k]]
    BY Zenon DEF PowerLoss
  <2> QED BY Zenon, <2>1
<1>6. ASSUME NEW k \in Key, residue'[k] = "none"
      PROVE  /\ residue[k] = "none"
             /\ WritesOf(k) # {} => \/ Live(k)' # {} /\ WritesOf(k)' # {}
                                    \/ disk'[k] = committed'[k]
  <2>1. ASSUME k \in Usable(wal') PROVE Live(k)' # {} /\ WritesOf(k)' # {}
    <3>1. PICK i \in DOMAIN wal' : IsWriteOf(wal'[i], k) /\ wal'[i].txn \notin Aborted(wal')
      BY Zenon, <2>1 DEF Usable
    <3>2. PICK t : t = wal'[i].txn
      BY Zenon
    <3>3. ~IsAborted(t)'
      BY Zenon, <1>1, <3>1, <3>2, EndRecordsNext
    <3> QED BY Zenon, <3>1, <3>2, <3>3 DEF Live, WritesOf
  <2>2. ResidueAfter(wal', disk', committed')[k] = "none"
    BY Zenon, <1>4, <1>6
  <2>3. /\ residue[k] = "none"
        /\ WritesOf(k) # {} => k \in Usable(wal') \/ disk'[k] = committed'[k]
    BY Zenon, <1>1, <2>2, ResidueIs
  <2> QED BY Zenon, <2>1, <2>3
<1>7. ASSUME NEW k \in Key, LostWrites(wal', k) = {} PROVE committed'[k] = committed[k]
  BY Zenon, <1>4, <1>7 DEF CommittedAfter
<1>8. ASSUME NEW k \in Key
      PROVE  (/\ NewestIs(WritesOf(k), Encode(committed[k]))
              /\ residue[k] = "none" => OldestIs(WritesOf(k), Encode(committed[k])))'
  <2>1. CASE LostWrites(wal', k) = {}
    <3>1. PICK b : b = Encode(committed[k]) /\ Encode(committed'[k]) = b
      BY Zenon, <1>7, <2>1
    <3>2. NewestIs(WritesOf(k), b) /\ (residue[k] = "none" => OldestIs(WritesOf(k), b))
      BY Zenon, <1>1, <3>1 DEF History
    <3>3. /\ NewestIs(WritesOf(k), b) => NewestIs(WritesOf(k), b)'
          /\ OldestIs(WritesOf(k), b) => OldestIs(WritesOf(k), b)'
      BY Zenon, <1>1, <1>2, <2>1, NoneLost
    <3>4. residue'[k] = "none" => residue[k] = "none"
      BY Zenon, <1>6
    <3> QED BY Zenon, <3>1, <3>2, <3>3, <3>4
  <2>2. CASE LostWrites(wal', k) # {}
    <3>1. PICK w \in LostWrites(wal', k) : committed'[k] = Decode(wal[w].before)
      BY Zenon, <1>4, <2>2 DEF CommittedAfter
    <3>2. w \in WritesOf(k)
      BY Zenon DEF LostWrites, WritesOf
    <3>3. PICK b : b = wal[w].before
      BY Zenon
    <3>4. Encode(committed'[k]) = b
      BY Zenon, <1>1, <3>1, <3>2, <3>3, Codec, Positions
    <3>5. NewestIs(WritesOf(k), b)' /\ OldestIs(WritesOf(k), b)'
      BY Zenon, <1>1, <1>2, <3>3, SomeLost
    <3> QED BY Zenon, <3>4, <3>5
  <2> QED BY Zenon, <2>1, <2>2
<1>9. History'
  BY Zenon, <1>8 DEF History
<1>10. Serving' /\ Held' /\ Owners'
  BY Zenon, <1>4 DEF Serving, Held, Owners
<1>11. ASSUME NEW k \in Key, WritesOf(k)' = {}, residue'[k] = "none" PROVE Settled(k)'
  <2>1. CASE WritesOf(k) = {}
    <3>1. Settled(k)
      BY Zenon, <1>6, <1>11, <2>1 DEF RInv, Untouched
    <3>2. LostWrites(wal', k) = {}
      BY Zenon, <2>1 DEF LostWrites, WritesOf
    <3> QED BY Zenon, <1>4, <1>5, <1>7, <3>1, <3>2 DEF Settled
  <2>2. CASE WritesOf(k) # {}
    <3>1. disk'[k] = committed'[k]
      BY Zenon, <1>6, <1>11, <2>2
    <3> QED BY Zenon, <1>4, <3>1 DEF Settled
  <2> QED BY Zenon, <2>1, <2>2
<1>12. Recovering'
  <2>1. \A k \in Key : WritesOf(k)' # {} => WritesOf(k) # {}
    BY Zenon, <1>1, <1>2, CutKeeps
  <2> QED BY Zenon, <1>4, <1>6, <2>1 DEF Recovering, Restorable
<1> QED BY Zenon, <1>3, <1>9, <1>10, <1>11, <1>12 DEF RInv, Untouched

-----------------------------------------------------------------------------
(* A new database satisfies the invariant.                                 *)
LEMMA InitReplay == Init => RInv
<1> SUFFICES ASSUME Init PROVE RInv
  OBVIOUS
<1>1. DOMAIN wal = {} /\ db = "up" /\ \A c \in Conn : pc[c] = "idle"
  BY DEF Init
<1>2. \A k \in Key : Settled(k)
  BY DEF Init, Settled
<1>3. \A k : WritesOf(k) = {} /\ Unfinished(k) = {}
  BY <1>1 DEF WritesOf, Unfinished
<1>4. LogOrder /\ Chain
  BY <1>1, <1>3 DEF LogOrder, EndIsLast, Begun, OneBefore, InTurn, Chain
<1>5. History /\ Held /\ Owners /\ Untouched
  BY <1>1, <1>2, <1>3 DEF History, NewestIs, OldestIs, Held, Owners, Untouched
<1>6. Serving /\ Recovering
  BY <1>1, <1>2, <1>3 DEF Serving, NewestIs, OldestIs, Settled, Recovering
<1> QED BY <1>4, <1>5, <1>6 DEF RInv

(* Every step preserves it.                                                *)
LEMMA NextReplay ==
  ASSUME IInv, IInv', RInv, Empty \notin Value, [Next]_vars
  PROVE  RInv'
<1>1. ASSUME NEW c \in Conn, NEW k \in Key,
             Get(c, k) \/ Delete(c, k) \/ \E v \in Value : Put(c, k, v)
      PROVE  RInv'
  <2>1. \E o, v : \E mode \in LockMode : LockFor(c, o, k, v, mode)
    BY Zenon, <1>1 DEF Get, Put, Delete, LockMode
  <2> QED BY Zenon, <2>1, LockForKeeps
<1>2. ASSUME NEW c \in Conn,
             \/ get_locked(c) \/ put_locked(c) \/ delete_locked(c) \/ flush(c) \/ flush_all(c)
             \/ release_all(c) \/ Fails(c)
      PROVE  RInv'
  BY Zenon, <1>2, PutKeeps, DeleteKeeps, ReleaseKeeps, ThreadStillKeeps
<1>3. ASSUME NEW c \in Conn,
             Begin(c) \/ append_commit(c) \/ undo_all(c) \/ append_abort(c)
      PROVE  RInv'
  BY Zenon, <1>3, BeginKeeps, CommitKeeps, UndoAllKeeps, AbortKeeps
<1>4. ASSUME NEW k \in Key, evict_frame(k) PROVE RInv'
  BY Zenon, <1>4, EvictKeeps
<1>5. ASSUME Close \/ Open \/ redo \/ RedoDone \/ undo \/ Checkpoint \/ Truncate
      PROVE  RInv'
  BY Zenon, <1>5, CloseKeeps, OpenKeeps, RedoKeeps, RedoDoneKeeps, UndoKeeps, CheckpointKeeps,
     TruncateKeeps
<1>6. ASSUME ProcessCrash \/ PowerLoss PROVE RInv'
  BY Zenon, <1>6, ProcessCrashKeeps, PowerLossKeeps
<1>7. ASSUME UNCHANGED vars PROVE RInv'
  <2>1. /\ exclusive_holder' = exclusive_holder /\ wal' = wal /\ tree' = tree
        /\ committed' = committed /\ residue' = residue /\ db' = db /\ rpos' = rpos
        /\ wal_synced' = wal_synced /\ disk' = disk /\ synced' = synced
        /\ pc' = pc /\ txn_id' = txn_id /\ write_set' = write_set
    BY Zenon, <1>7 DEF vars
  <2> QED BY <2>1, StillKeeps
<1> QED BY Zenon, <1>1, <1>2, <1>3, <1>4, <1>5, <1>6, <1>7 DEF Next

(* It says of every key what TreeIsCommitted promises.                     *)
LEMMA ReplayShows ==
  ASSUME IInv, RInv, Empty \notin Value
  PROVE  TreeIsCommitted
<1> SUFFICES ASSUME db = "up", NEW k \in Key, residue[k] = "none", tree[k] # committed[k]
             PROVE  InFlight(k) \/ LockedForGood(k)
  <2>1. \A l \in Key : residue[l] \in {"none", "rolled_back", "unlogged", "shut_down"}
    BY DEF IInv, TypeOK, Residue
  <2> QED BY <2>1 DEF TreeIsCommitted, Agrees
<1>1. TypeOK /\ Sessions
  BY DEF IInv
<1>2. PICK j \in Unfinished(k) : TRUE
  BY DEF RInv, Serving
<1>3. /\ j \in WritesOf(k) /\ ~IsEnded(wal[j].txn) /\ wal[j].txn \in TxnId
      /\ wal[j].before = Encode(committed[k])
  <2>1. j \in WritesOf(k) /\ ~IsEnded(wal[j].txn)
    BY Zenon, <1>2 DEF Unfinished
  <2>2. wal[j].txn \in TxnId
    BY Zenon, <1>1, <2>1, Positions
  <2>3. wal[j].before = Encode(committed[k])
    BY Zenon, <1>2 DEF RInv, Serving
  <2> QED BY Zenon, <2>1, <2>2, <2>3
<1>4. holds_exclusive(wal[j].txn, k)
  <2>1. ~IsAborted(wal[j].txn) /\ ~IsSynced(wal[j].txn)
    BY <1>1, <1>3, SyncedIsCommitted DEF IsEnded
  <2> QED BY <1>3, <2>1 DEF RInv, Held
<1>5. ASSUME NEW c \in Conn, txn_id[c] = wal[j].txn PROVE InFlight(k)
  <2>1. pc[c] # "idle" /\ OwnRecords(c)
    BY <1>1, <1>3, <1>5, NoTxnAssumption DEF Sessions, RInv, Owners
  <2>2. /\ k \in Touched(c) /\ wal[j].before = Encode(write_set[c][k])
        /\ pc[c] = "append_abort" => tree[k] = write_set[c][k]
    BY Zenon, <1>3, <1>5, <2>1 DEF OwnRecords
  <2>3. write_set[c][k] \in Stored /\ committed[k] \in Stored
    BY <1>1, <2>2 DEF TypeOK, Touched
  <2>4. write_set[c][k] = committed[k]
    <3>1. Encode(write_set[c][k]) = Encode(committed[k])
      BY <1>3, <2>2
    <3> QED BY Zenon, <2>3, <3>1, Codec
  <2>5. pc[c] # "append_abort"
    BY <2>2, <2>4
  <2>6. pc[c] # "release_abort"
    BY Zenon, <1>3, <1>5, <2>1 DEF OwnRecords, IsEnded
  <2>7. pc[c] \notin {"wal_flush", "page_flush", "release"}
    BY <2>2 DEF IInv, Forced
  <2>8. pc[c] = "open"
    BY <1>1, <2>1, <2>5, <2>6, <2>7 DEF TypeOK
  <2> QED BY <1>4, <1>5, <2>4, <2>8 DEF InFlight
<1>6. ASSUME \A c \in Conn : txn_id[c] # wal[j].txn PROVE LockedForGood(k)
  BY <1>3, <1>4, <1>6 DEF LockedForGood
<1> QED BY <1>5, <1>6

(* The log explains every key that recovery can restore, at every moment:  *)
(* between the steps of commits and rollbacks, after each failure, and     *)
(* between the records that redo and undo replay.                          *)
THEOREM LogExplainsTheTree ==
  ASSUME Empty \notin Value
  PROVE  Spec => []RInv
<1>1. Init => RInv
  BY InitReplay
<1>2. IInv /\ IInv' /\ RInv /\ [Next]_vars => RInv'
  BY NextReplay
<1> QED BY <1>1, <1>2, SpecInv, PTL DEF Spec

(* While the database serves, and so as soon as recovery has redone and    *)
(* undone the log, the tree has the committed value of every key, except   *)
(* where a transaction is in flight, where a lock is held for good, and    *)
(* where a failure has left a residue that TreeIsCommitted names.  The     *)
(* hypothesis is needed: in a record the empty value and no value are the  *)
(* same bytes, so that recovery turns one into the other.                  *)
THEOREM RecoveredIsCommitted ==
  ASSUME Empty \notin Value
  PROVE  Spec => []TreeIsCommitted
<1>1. IInv /\ RInv => TreeIsCommitted
  BY ReplayShows
<1>2. Spec => []RInv
  BY LogExplainsTheTree
<1> QED BY <1>1, <1>2, SpecInv, PTL
=============================================================================
