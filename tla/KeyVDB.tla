------------------------------- MODULE KeyVDB -------------------------------
(***************************************************************************)
(* The transactional core: DB and Transaction (db.cpp) over LogManager,    *)
(* RecoveryManager, the lock table and the page cache.  Threads run        *)
(* transactions concurrently; the process, or the machine, may fail at any *)
(* point; Open recovers.                                                   *)
(*                                                                         *)
(* The B+Tree is a map from keys to values, and a page is what one key is  *)
(* on: a key whose value in the tree differs from the data file is on a    *)
(* dirty page.  An action is what one thread does while it owns db_mu_, or *)
(* the mutex of the log or the lock manager, so that every point where     *)
(* another thread may run, or a failure strike, is a state.                *)
(***************************************************************************)
EXTENDS LockTable, Naturals, FiniteSetsExt

CONSTANTS
  Conn,         \* threads, each running one Transaction at a time
  Value,        \* values that Put is called with
  Empty,        \* the empty string; a value of Put where Value has it
  Oversize,     \* the values that BTree::insert refuses as too large
  Absent,       \* no value: the key is not in the tree
  NotWritten,   \* no entry in a transaction's write_set_
  CrashKind,    \* the failures that happen: "process", "power", "torn", "io", "shutdown"
  MaxLog,       \* bound: log records when a BEGIN or a WRITE is appended
  MaxRecorded   \* bound: lock requests granted to one transaction

ASSUME TxnIdAssumption == TxnId \subseteq Nat \ {0}
ASSUME BoundAssumption == MaxLog \in Nat /\ MaxRecorded \in Nat
ASSUME ValueAssumption ==
  /\ Absent \notin Value \cup {Empty}
  /\ NotWritten \notin Value \cup {Empty, Absent}
  /\ Oversize \subseteq Value \ {Empty}
ASSUME CrashAssumption == CrashKind \subseteq {"process", "power", "torn", "io", "shutdown"}

VARIABLES
  db,           \* where the process is: serving, down, or at a step of Open
  pc,           \* where each thread is in its Transaction
  txn_id,       \* txn_id_ of the thread's Transaction
  call,         \* the operation whose lock is granted and that is yet to run
  write_set,    \* write_set_: for each key written, the value it had before
  tree,         \* the B+Tree as the running process sees it
  disk,         \* the data file
  synced,       \* the data file as of the last fsync
  wal,          \* the log file
  wal_synced,   \* how many records of it are fsynced
  next_txn_id,  \* next_txn_id_
  rpos,         \* the record that redo or undo looks at
  committed,    \* history: the values written by committed transactions
  acked,        \* history: transactions in the log whose Commit has returned
  residue       \* history: keys that a failure left wrong, without a usable record

connVars == <<pc, txn_id, call, write_set>>
fileVars == <<disk, synced, wal, wal_synced>>
history  == <<committed, acked, residue>>
vars == <<lock_table, shared_holders, exclusive_holder, txn_locks,
          db, pc, txn_id, call, write_set, tree, disk, synced, wal, wal_synced,
          next_txn_id, rpos, committed, acked, residue>>

Stored == Value \cup {Absent}
Bytes  == Value \cup {Empty}
NoCall == [op |-> "none"]
Call   == [op: {"Get", "Delete"}, key: Key, value: {Absent}] \cup
          [op: {"Put"}, key: Key, value: Value]

(* TORN: a WRITE record of which the header is in the file, but not all of *)
(* the key and the values.                                                 *)
LogRecord ==
  [type: {"BEGIN", "COMMIT", "ABORT", "TORN"}, txn: TxnId] \cup
  [type: {"WRITE"}, txn: TxnId, key: Key, before: Bytes, after: Bytes]

(* Residue left by a rolled-back transaction, by a lost log record, or by a *)
(* shutdown that truncated the log of an unfinished transaction.            *)
Residue == {"none", "rolled_back", "unlogged", "shut_down"}

TypeOK ==
  /\ LockTypeOK
  /\ db \in {"up", "down", "redo", "undo", "truncate", "failed"}
  /\ pc \in [Conn -> {"idle", "open", "wal_flush", "page_flush", "release",
                      "append_abort", "release_abort"}]
  /\ txn_id \in [Conn -> TxnId \cup {NoTxn}]
  /\ call \in [Conn -> Call \cup {NoCall}]
  /\ write_set \in [Conn -> [Key -> Stored \cup {NotWritten}]]
  /\ tree \in [Key -> Stored]
  /\ disk \in [Key -> Stored]
  /\ synced \in [Key -> Stored]
  /\ wal \in Seq(LogRecord)
  /\ wal_synced \in 0 .. Len(wal)
  /\ next_txn_id \in Nat \ {0}
  /\ rpos \in Nat
  /\ committed \in [Key -> Stored]
  /\ acked \in SUBSET TxnId
  /\ residue \in [Key -> Residue]

Blank == [k \in Key |-> NotWritten]

(* A database just created: an empty tree, an empty log. *)
Init ==
  /\ LockInit
  /\ db = "up"
  /\ pc = [c \in Conn |-> "idle"]
  /\ txn_id = [c \in Conn |-> NoTxn]
  /\ call = [c \in Conn |-> NoCall]
  /\ write_set = [c \in Conn |-> Blank]
  /\ tree = [k \in Key |-> Absent]
  /\ disk = tree
  /\ synced = tree
  /\ wal = <<>>
  /\ wal_synced = 0
  /\ next_txn_id = 1
  /\ rpos = 0
  /\ committed = tree
  /\ acked = {}
  /\ residue = [k \in Key |-> "none"]

-----------------------------------------------------------------------------
(***************************************************************************)
(* LogManager.  A record keeps lengths, not presence: a value that did not *)
(* exist and a deletion are both written as zero bytes, and read_all takes *)
(* zero bytes of before_val to mean that the key did not exist.            *)
(***************************************************************************)
Encode(v) == IF v = Absent THEN Empty ELSE v
Decode(b) == IF b = Empty THEN Absent ELSE b

Append1(r) == wal' = Append(wal, r)

IsWrite(r) == r.type = "WRITE"
IsWriteOf(r, k) == IsWrite(r) /\ r.key = k

WrittenIn(log) == {k \in Key : \E i \in DOMAIN log : IsWriteOf(log[i], k)}

(***************************************************************************)
(* RecoveryManager::analysis, and the set of aborted transactions that     *)
(* redo collects.                                                          *)
(***************************************************************************)
Losers(log) ==
  {t \in TxnId : \E i \in DOMAIN log :
     /\ log[i].type = "BEGIN" /\ log[i].txn = t
     /\ \A j \in DOMAIN log :
          j > i /\ log[j].txn = t => log[j].type \notin {"COMMIT", "ABORT"}}

Aborted(log) == {t \in TxnId : \E i \in DOMAIN log : log[i] = [type |-> "ABORT", txn |-> t]}
Committed(log) == {t \in TxnId : \E i \in DOMAIN log : log[i] = [type |-> "COMMIT", txn |-> t]}

-----------------------------------------------------------------------------
(***************************************************************************)
(* Transactions.                                                           *)
(***************************************************************************)
Begin(c) ==
  /\ db = "up" /\ pc[c] = "idle"
  /\ next_txn_id \in TxnId /\ Len(wal) < MaxLog
  /\ Append1([type |-> "BEGIN", txn |-> next_txn_id])
  /\ txn_id' = [txn_id EXCEPT ![c] = next_txn_id]
  /\ next_txn_id' = next_txn_id + 1
  /\ pc' = [pc EXCEPT ![c] = "open"]
  /\ UNCHANGED <<lockVars, history, db, call, write_set, tree, disk, synced,
                 wal_synced, rpos>>

(***************************************************************************)
(* Get, Put and Delete first take the key's lock.  A request that is not   *)
(* granted waits, or times out with DeadlockException, and changes nothing *)
(* here (see LockManager).                                                 *)
(***************************************************************************)
LockFor(c, o, k, v, mode) ==
  /\ pc[c] = "open" /\ call[c] = NoCall
  /\ Len(txn_locks[txn_id[c]]) < MaxRecorded
  /\ Grant(txn_id[c], k, mode)
  /\ call' = [call EXCEPT ![c] = [op |-> o, key |-> k, value |-> v]]
  /\ UNCHANGED <<fileVars, history, db, pc, txn_id, write_set, tree, next_txn_id, rpos>>

Get(c, k)    == LockFor(c, "Get", k, Absent, SHARED)
Put(c, k, v) == LockFor(c, "Put", k, v, EXCLUSIVE)
Delete(c, k) == LockFor(c, "Delete", k, Absent, EXCLUSIVE)

get_locked(c) ==
  /\ call[c].op = "Get"
  /\ call' = [call EXCEPT ![c] = NoCall]
  /\ UNCHANGED <<lockVars, fileVars, history, db, pc, txn_id, write_set, tree,
                 next_txn_id, rpos>>

(* The before-image is captured at the first write of the key only. *)
LatestBefore(c, k) == [write_set EXCEPT ![c][k] = tree[k]]

FirstBefore(c, k) ==
  IF write_set[c][k] = NotWritten THEN [write_set EXCEPT ![c][k] = tree[k]] ELSE write_set

(***************************************************************************)
(* put_locked: the WRITE record goes to the log, then the tree changes;    *)
(* BTree::insert refuses an oversize value only after the record and the   *)
(* write set entry have been made.                                         *)
(***************************************************************************)
put_locked(c) ==
  LET k == call[c].key  v == call[c].value IN
  /\ call[c].op = "Put"
  /\ Len(wal) < MaxLog
  /\ write_set' = FirstBefore(c, k)
  /\ Append1([type |-> "WRITE", txn |-> txn_id[c], key |-> k,
              before |-> Encode(write_set'[c][k]), after |-> v])
  /\ tree' = IF v \in Oversize THEN tree ELSE [tree EXCEPT ![k] = v]
  /\ call' = [call EXCEPT ![c] = NoCall]
  /\ UNCHANGED <<lockVars, history, db, pc, txn_id, disk, synced, wal_synced,
                 next_txn_id, rpos>>

(* delete_locked: nothing happens when the key is absent. *)
delete_locked(c) ==
  LET k == call[c].key IN
  /\ call[c].op = "Delete"
  /\ call' = [call EXCEPT ![c] = NoCall]
  /\ \/ /\ tree[k] = Absent
        /\ UNCHANGED <<write_set, wal, tree>>
     \/ /\ tree[k] # Absent
        /\ Len(wal) < MaxLog
        /\ write_set' = FirstBefore(c, k)
        /\ Append1([type |-> "WRITE", txn |-> txn_id[c], key |-> k,
                    before |-> Encode(write_set'[c][k]), after |-> Empty])
        /\ tree' = [tree EXCEPT ![k] = Absent]
  /\ UNCHANGED <<lockVars, history, db, pc, txn_id, disk, synced, wal_synced,
                 next_txn_id, rpos>>

(***************************************************************************)
(* Commit: the COMMIT record, the fsync of the log, the flush of every     *)
(* dirty page in the pool, whoever dirtied it, and the release of the      *)
(* locks are four steps, with other threads between them.                  *)
(***************************************************************************)
Touched(c) == {k \in Key : write_set[c][k] # NotWritten}

append_commit(c) ==
  /\ pc[c] = "open" /\ call[c] = NoCall
  /\ Append1([type |-> "COMMIT", txn |-> txn_id[c]])
  /\ pc' = [pc EXCEPT ![c] = "wal_flush"]
  /\ committed' = [k \in Key |-> IF k \in Touched(c) THEN tree[k] ELSE committed[k]]
  /\ residue' = [k \in Key |-> IF k \in Touched(c) THEN "none" ELSE residue[k]]
  /\ UNCHANGED <<lockVars, db, txn_id, call, write_set, tree, disk, synced,
                 wal_synced, next_txn_id, rpos, acked>>

FlushNoSync(c) ==
  /\ pc[c] = "wal_flush"
  /\ pc' = [pc EXCEPT ![c] = "page_flush"]
  /\ UNCHANGED <<lockVars, fileVars, history, db, txn_id, call, write_set, tree,
                 next_txn_id, rpos>>

flush(c) ==
  /\ pc[c] = "wal_flush"
  /\ pc' = [pc EXCEPT ![c] = "page_flush"]
  /\ wal_synced' = Len(wal)
  /\ UNCHANGED <<lockVars, history, db, txn_id, call, write_set, tree, disk, synced,
                 wal, next_txn_id, rpos>>

PagesNotSynced(c) ==
  /\ pc[c] = "page_flush"
  /\ pc' = [pc EXCEPT ![c] = "release"]
  /\ disk' = tree
  /\ UNCHANGED <<lockVars, history, db, txn_id, call, write_set, tree, synced,
                 wal, wal_synced, next_txn_id, rpos>>

flush_all(c) ==
  /\ pc[c] = "page_flush"
  /\ pc' = [pc EXCEPT ![c] = "release"]
  /\ disk' = tree
  /\ synced' = tree
  /\ UNCHANGED <<lockVars, history, db, txn_id, call, write_set, tree, wal,
                 wal_synced, next_txn_id, rpos>>

release_all(c) ==
  /\ pc[c] \in {"release", "release_abort"}
  /\ ReleaseKeys(txn_id[c])
  /\ pc' = [pc EXCEPT ![c] = "idle"]
  /\ txn_id' = [txn_id EXCEPT ![c] = NoTxn]
  /\ write_set' = [write_set EXCEPT ![c] = Blank]
  /\ acked' = IF pc[c] = "release" THEN acked \cup {txn_id[c]} ELSE acked
  /\ UNCHANGED <<fileVars, db, call, tree, next_txn_id, rpos, committed, residue>>

(***************************************************************************)
(* Rollback, called or run by ~Transaction: the before-images go back into *)
(* the tree, the ABORT record follows, then the locks go.  Nothing is      *)
(* flushed.                                                                *)
(***************************************************************************)
RestoreAllKeys(c) ==
  /\ pc[c] = "open" /\ call[c] = NoCall
  /\ tree' = write_set[c]
  /\ pc' = [pc EXCEPT ![c] = "append_abort"]
  /\ UNCHANGED <<lockVars, fileVars, history, db, txn_id, call, write_set,
                 next_txn_id, rpos>>

undo_all(c) ==
  /\ pc[c] = "open" /\ call[c] = NoCall
  /\ tree' = [k \in Key |-> IF k \in Touched(c) THEN write_set[c][k] ELSE tree[k]]
  /\ pc' = [pc EXCEPT ![c] = "append_abort"]
  /\ UNCHANGED <<lockVars, fileVars, history, db, txn_id, call, write_set,
                 next_txn_id, rpos>>

append_abort(c) ==
  /\ pc[c] = "append_abort"
  /\ Append1([type |-> "ABORT", txn |-> txn_id[c]])
  /\ pc' = [pc EXCEPT ![c] = "release_abort"]
  /\ UNCHANGED <<lockVars, history, db, txn_id, call, write_set, tree, disk, synced,
                 wal_synced, next_txn_id, rpos>>

(***************************************************************************)
(* The append of the COMMIT or the ABORT record, the fsync of the log, or  *)
(* the flush of the pages throws.  done_ is set already, so the Transaction *)
(* is destroyed without a Rollback, and release_all is not reached.  Pages *)
(* that flush_all wrote before it failed are those of evict_frame.         *)
(***************************************************************************)
Throws(c) ==
  /\ "io" \in CrashKind
  /\ pc[c] \in {"open", "wal_flush", "page_flush", "append_abort"} /\ call[c] = NoCall

FailsAndReleases(c) ==
  /\ Throws(c)
  /\ ReleaseKeys(txn_id[c])
  /\ pc' = [pc EXCEPT ![c] = "idle"]
  /\ txn_id' = [txn_id EXCEPT ![c] = NoTxn]
  /\ write_set' = [write_set EXCEPT ![c] = Blank]
  /\ UNCHANGED <<fileVars, history, db, call, tree, next_txn_id, rpos>>

Fails(c) ==
  /\ Throws(c)
  /\ pc' = [pc EXCEPT ![c] = "idle"]
  /\ txn_id' = [txn_id EXCEPT ![c] = NoTxn]
  /\ write_set' = [write_set EXCEPT ![c] = Blank]
  /\ UNCHANGED <<lockVars, fileVars, history, db, call, tree, next_txn_id, rpos>>

-----------------------------------------------------------------------------
(***************************************************************************)
(* BufferPool::evict_frame writes a dirty page back whenever a frame is    *)
(* needed, whichever transaction dirtied it.                               *)
(***************************************************************************)
Running == db \notin {"down", "failed"}

evict_frame(k) ==
  /\ Running /\ tree[k] # disk[k]
  /\ disk' = [disk EXCEPT ![k] = tree[k]]
  /\ UNCHANGED <<lockVars, connVars, history, db, tree, synced, wal, wal_synced,
                 next_txn_id, rpos>>

truncate ==
  /\ wal' = <<>> /\ wal_synced' = 0 /\ next_txn_id' = 1 /\ acked' = {}

(***************************************************************************)
(* Failures.  The process loses its memory: transactions, locks, cached    *)
(* pages.  A machine that loses power also loses what was not fsynced: the *)
(* end of the log, and any of the page writes since the last fsync.        *)
(***************************************************************************)
Usable(log) ==
  {k \in Key : \E i \in DOMAIN log : IsWriteOf(log[i], k) /\ log[i].txn \notin Aborted(log)}

(* The keys whose page in the file is not what was committed, and that no  *)
(* record left in the log will set right.                                  *)
Stranded(log, file, values) ==
  {k \in WrittenIn(wal) \ Usable(log) : file[k] # values[k]}

ResidueAfter(log, file, values) ==
  [k \in Key |-> IF k \notin Stranded(log, file, values) THEN residue[k]
                 ELSE IF k \in WrittenIn(log) THEN "rolled_back" ELSE "unlogged"]

(* A commit whose record is lost has not happened: its before-images hold. *)
LostWrites(log, k) ==
  {i \in DOMAIN wal : /\ IsWriteOf(wal[i], k)
                      /\ wal[i].txn \in Committed(wal) \ Committed(log)}

CommittedAfter(log) ==
  [k \in Key |-> IF LostWrites(log, k) = {} THEN committed[k]
                 ELSE Decode(wal[CHOOSE i \in LostWrites(log, k) : TRUE].before)]

MemoryIsLost ==
  /\ LockReset
  /\ db' = "down" /\ rpos' = 0
  /\ pc' = [c \in Conn |-> "idle"]
  /\ txn_id' = [c \in Conn |-> NoTxn]
  /\ call' = [c \in Conn |-> NoCall]
  /\ write_set' = [c \in Conn |-> Blank]
  /\ tree' = disk'

Quiescent == lock_table = {} /\ \A c \in Conn : pc[c] = "idle"

(***************************************************************************)
(* Close, and then the process ends.  A failure before the log is cut is   *)
(* one after evictions of every dirty page, with the log as it is, and has *)
(* no step of its own here.  db.h asks that no operation follows Close.    *)
(* The server's shutdown does not keep to it: connection threads are not   *)
(* waited for, and their transactions, or those whose Commit failed, go    *)
(* with the process, whatever they had written.                            *)
(***************************************************************************)
Close ==
  /\ db = "up"
  /\ "shutdown" \in CrashKind \/ Quiescent
  /\ disk' = tree /\ synced' = tree
  /\ truncate
  /\ residue' = [k \in Key |-> IF tree[k] = committed[k] \/ residue[k] # "none"
                               THEN residue[k] ELSE "shut_down"]
  /\ committed' = committed
  /\ MemoryIsLost

ProcessCrash ==
  /\ "process" \in CrashKind /\ Running
  /\ UNCHANGED <<fileVars, next_txn_id, committed, acked>>
  /\ residue' = ResidueAfter(wal, disk, committed)
  /\ MemoryIsLost

(* The log up to record n, and perhaps a part of the record after it. *)
Torn(n) == SubSeq(wal, 1, n) \o <<[type |-> "TORN", txn |-> wal[n + 1].txn]>>

PowerLoss ==
  /\ "power" \in CrashKind
  /\ \E n \in wal_synced .. Len(wal), kept \in SUBSET Key :
       /\ \/ wal' = SubSeq(wal, 1, n)
          \/ /\ "torn" \in CrashKind /\ n < Len(wal) /\ IsWrite(wal[n + 1])
             /\ wal' = Torn(n)
       /\ disk' = [k \in Key |-> IF k \in kept THEN disk[k] ELSE synced[k]]
  /\ wal_synced' = Len(wal') /\ synced' = disk'
  /\ committed' = CommittedAfter(wal')
  /\ residue' = ResidueAfter(wal', disk', committed')
  /\ UNCHANGED <<next_txn_id, acked>>
  /\ MemoryIsLost

-----------------------------------------------------------------------------
(***************************************************************************)
(* Open: scan_for_max_ids, recover (analysis, redo, undo), flush, truncate.*)
(* The process may fail again at any point of it.  read_all throws at a    *)
(* torn record, whose ids scan_for_max_ids has counted.  When redo throws, *)
(* the half-recovered pool is destroyed, and ~BufferPool flushes it.       *)
(***************************************************************************)
IsTorn(log) == \E i \in DOMAIN log : log[i].type = "TORN"

Open ==
  /\ db \in {"down", "failed"}
  /\ db' = IF IsTorn(wal) THEN "failed" ELSE "redo"
  /\ rpos' = 1
  /\ next_txn_id' = IF wal = <<>> THEN 1 ELSE Max({wal[i].txn : i \in DOMAIN wal}) + 1
  /\ UNCHANGED <<lockVars, connVars, fileVars, history, tree>>

redo ==
  /\ db = "redo" /\ rpos <= Len(wal)
  /\ LET r == wal[rpos]
         replayed == IsWrite(r) /\ r.txn \notin Aborted(wal)
         throws == replayed /\ r.after \in Oversize
     IN  /\ tree' = IF replayed /\ ~throws
                    THEN [tree EXCEPT ![r.key] = Decode(r.after)] ELSE tree
         /\ db' = IF throws THEN "failed" ELSE db
         /\ disk' = IF throws THEN tree ELSE disk
  /\ rpos' = rpos + 1
  /\ UNCHANGED <<lockVars, connVars, history, synced, wal, wal_synced, next_txn_id>>

RedoDone ==
  /\ db = "redo" /\ rpos > Len(wal)
  /\ db' = "undo" /\ rpos' = Len(wal)
  /\ UNCHANGED <<lockVars, connVars, fileVars, history, tree, next_txn_id>>

undo ==
  /\ db = "undo" /\ rpos > 0
  /\ LET r == wal[rpos] IN
       tree' = IF IsWrite(r) /\ r.txn \in Losers(wal)
               THEN [tree EXCEPT ![r.key] = Decode(r.before)] ELSE tree
  /\ rpos' = rpos - 1
  /\ UNCHANGED <<lockVars, connVars, fileVars, history, db, next_txn_id>>

(* flush_all and the fsync of the data file, then the log is truncated. *)
Checkpoint ==
  /\ db = "undo" /\ rpos = 0
  /\ db' = "truncate"
  /\ disk' = tree /\ synced' = tree
  /\ UNCHANGED <<lockVars, connVars, history, tree, wal, wal_synced, next_txn_id, rpos>>

Truncate ==
  /\ db = "truncate"
  /\ db' = "up"
  /\ truncate
  /\ UNCHANGED <<lockVars, connVars, tree, disk, synced, rpos, committed, residue>>

Next ==
  \/ \E c \in Conn :
       \/ Begin(c)
       \/ \E k \in Key : Get(c, k) \/ Delete(c, k) \/ \E v \in Value : Put(c, k, v)
       \/ get_locked(c) \/ put_locked(c) \/ delete_locked(c)
       \/ append_commit(c) \/ flush(c) \/ flush_all(c)
       \/ undo_all(c) \/ append_abort(c)
       \/ release_all(c) \/ Fails(c)
  \/ \E k \in Key : evict_frame(k)
  \/ Close \/ Open \/ redo \/ RedoDone \/ undo \/ Checkpoint \/ Truncate
  \/ ProcessCrash \/ PowerLoss

Spec == Init /\ [][Next]_vars

-----------------------------------------------------------------------------
(***************************************************************************)
(* What transactions are promised.                                         *)
(***************************************************************************)

(* k is being changed: a transaction that is still open holds it           *)
(* exclusively and keeps the committed value to put back.                  *)
InFlight(k) ==
  \E c \in Conn : /\ pc[c] = "open"
                  /\ holds_exclusive(txn_id[c], k)
                  /\ write_set[c][k] = committed[k]

(* k was being changed by a transaction whose Commit failed: nobody can    *)
(* read it any more, since the lock is held until the process ends.        *)
LockedForGood(k) ==
  \E t \in TxnId : holds_exclusive(t, k) /\ \A c \in Conn : txn_id[c] # t

(* Outside a key's residue, the tree holds what committed transactions     *)
(* wrote, save for the keys that only their writer can see.                *)
Agrees(exempt) ==
  db = "up" => \A k \in Key :
    residue[k] \in exempt \/ tree[k] = committed[k] \/ InFlight(k) \/ LockedForGood(k)

(* Atomicity, isolation and recovery in one: whatever transactions ran,    *)
(* rolled back, failed with an I/O error or were cut off by failures, once *)
(* the database serves again a key holds exactly the last committed value, *)
(* unless it is locked by the one transaction that changed it, provided    *)
(* that the file had it, or the log that survived a record to replay.      *)
TreeIsCommitted == Agrees({"rolled_back", "unlogged", "shut_down"})

(* A transaction whose Commit has returned has its COMMIT record on the    *)
(* device: no failure, of the process or of the power, can lose it.        *)
AckedIsDurable ==
  \A t \in acked : \E i \in 1 .. wal_synced : wal[i] = [type |-> "COMMIT", txn |-> t]

(* Commit forces: before it releases its locks, the data file on the       *)
(* device holds every value that the transaction wrote, although other     *)
(* threads dirty and evict pages all the time.                             *)
ForceAtCommit ==
  \A c \in Conn : pc[c] = "release" =>
    \A k \in Touched(c) : synced[k] = committed[k]

(* Repeatable reads: while a transaction holds a lock on a key, nobody     *)
(* else changes the value that it reads there.                             *)
RepeatableReads ==
  [][\A c \in Conn, k \in Key :
       /\ db = "up" /\ db' = "up"
       /\ pc[c] = "open" /\ pc'[c] = "open"
       /\ holds_lock(txn_id[c], k)
       /\ tree'[k] # tree[k]
       => call[c] # NoCall /\ call[c].key = k /\ call'[c] = NoCall]_vars

-----------------------------------------------------------------------------
(***************************************************************************)
(* What the comments of the code say, and the code does not do.            *)
(***************************************************************************)

(* recovery_manager.h: after recovery "every uncommitted transaction is    *)
(* fully absent from the B+Tree", a rolled-back one too, whose undo redo   *)
(* takes to have been flushed before the failure.                          *)
RolledBackIsAbsent == Agrees({"unlogged", "shut_down"})

(* The same claim for a transaction that the power failure cut off: it     *)
(* needs every page written back to have its log records on the device.    *)
UnloggedIsAbsent == Agrees({"rolled_back", "shut_down"})

(* interview.md: "With the WAL, we can always recover: replay committed    *)
(* writes, undo uncommitted ones."  So Open never fails, whatever Put was  *)
(* called with before the failure.                                         *)
OpenSucceeds == db # "failed"
=============================================================================
