---------------------------- MODULE KeyVDBProofs ----------------------------
(***************************************************************************)
(* What holds of the transactional core for every set of threads, keys and *)
(* values, and every sequence of failures.                                 *)
(***************************************************************************)
EXTENDS LogProofs, WellFoundedInduction

(* Some steps carry many definitions: the solver gets the time they need.  *)
USE SMTT(60)

(* A bounded set of naturals has a largest element.                        *)
LEMMA MaxExists ==
  ASSUME NEW S \in SUBSET Nat, S # {}, NEW b \in Nat, \A x \in S : x <= b
  PROVE  Max(S) \in S /\ \A x \in S : x <= Max(S)
<1> DEFINE T == {n \in Nat : \A x \in S : x <= n}
<1>1. T \subseteq Nat /\ T # {}
  BY Zenon
<1>2. \E m \in T : \A n \in T : ~(<<n, m>> \in OpToRel(<, Nat))
  <2> HIDE DEF T
  <2> QED BY Zenon, <1>1, NatLessThanWellFounded, WFMin
<1>3. PICK m \in T : \A n \in T : ~(n < m)
  BY Zenon, <1>2 DEF OpToRel
<1>4. m \in S
  <2>1. SUFFICES ASSUME m \notin S PROVE FALSE
    BY Zenon
  <2>2. \A x \in S : x < m
    BY <2>1
  <2>3. m - 1 \in Nat /\ m - 1 < m
    <3>1. PICK x \in S : TRUE
      BY Zenon
    <3> QED BY <2>2, <3>1
  <2>4. \A x \in S : x <= m - 1
    BY <2>2, <2>3
  <2> QED BY Zenon, <1>3, <2>3, <2>4
<1>5. \E x \in S : \A y \in S : x >= y
  BY Zenon, <1>4
<1>6. Max(S) \in S /\ \A y \in S : Max(S) >= y
  BY Zenon, <1>5 DEF Max
<1> QED BY Zenon, <1>6

(* The table of a new process.                                             *)
LEMMA LockResetInv == LockReset => LockInv'
  BY NoTxnAssumption, RangeEmpty
  DEF LockReset, LockInv, LockTypeOK, LockExclusion, HoldersRecorded,
      EntriesAreHeld, HeldKeys, RecordedKeys, holds_lock, holds_exclusive

(* A step that leaves the table alone preserves what is said of it.        *)
LEMMA LockUnchanged == LockInv /\ UNCHANGED lockVars => LockInv'
  BY Zenon DEF lockVars, LockInv, LockTypeOK, LockExclusion, HoldersRecorded,
      EntriesAreHeld, HeldKeys, RecordedKeys, holds_lock, holds_exclusive

-----------------------------------------------------------------------------
(***************************************************************************)
(* One lemma per part of the invariant.                                    *)
(***************************************************************************)
(* Locks: only granted requests, release_all and failures touch the table. *)
LEMMA LockStep ==
  ASSUME TypeOK, LockInv, Sessions, Next
  PROVE  LockInv'
<1>1. ASSUME NEW c \in Conn, NEW o, NEW k \in Key, NEW v, NEW mode \in LockMode,
             LockFor(c, o, k, v, mode)
      PROVE  LockInv'
  <2>1. txn_id[c] \in TxnId
    BY Zenon, <1>1 DEF LockFor, Sessions, TypeOK
  <2> QED BY Zenon, <1>1, <2>1, GrantInv DEF LockFor
<1>2. ASSUME NEW c \in Conn, release_all(c)
      PROVE  LockInv'
  <2>1. txn_id[c] \in TxnId
    BY Zenon, <1>2 DEF release_all, Sessions, TypeOK
  <2> QED BY Zenon, <1>2, <2>1, ReleaseInv DEF release_all
<1>3. ASSUME MemoryIsLost
      PROVE  LockInv'
  BY Zenon, <1>3, LockResetInv DEF MemoryIsLost
<1>4. ASSUME UNCHANGED lockVars
      PROVE  LockInv'
  BY Zenon, <1>4, LockUnchanged
<1> QED
  BY Zenon, <1>1, <1>2, <1>3, <1>4
  DEF Next, Begin, Get, Put, Delete, LockMode, get_locked, put_locked, delete_locked,
      append_commit, flush, flush_all, undo_all, append_abort, Fails, evict_frame, Close, Open,
      redo, RedoDone, undo, Checkpoint, Truncate, ProcessCrash, PowerLoss

(* Appending a record keeps the log a log, and its synced part a prefix.   *)
LEMMA AppendType ==
  ASSUME TypeOK, NEW r \in LogRecord, Append1(r)
  PROVE  /\ wal' \in Seq(LogRecord) /\ Len(wal') = Len(wal) + 1
         /\ wal_synced \in 0 .. Len(wal')
         /\ \A i \in 1 .. Len(wal) : wal'[i] = wal[i]
         /\ wal'[Len(wal) + 1] = r
  BY DEF TypeOK, Append1

(* The id that Open resumes from is above every id in the log.             *)
LEMMA MaxId ==
  ASSUME TypeOK, FreshIds, wal # <<>>
  PROVE  LET m == Max({wal[i].txn : i \in DOMAIN wal})
         IN  m \in Nat /\ \A i \in DOMAIN wal : wal[i].txn <= m
<1> DEFINE S == {wal[i].txn : i \in DOMAIN wal}
<1>1. ASSUME NEW i \in DOMAIN wal PROVE wal[i].txn \in Nat
  <2>1. wal[i] \in LogRecord
    BY DEF TypeOK
  <2>2. wal[i].txn \in TxnId
    BY Zenon, <2>1 DEF LogRecord
  <2> QED BY Zenon, <2>2, TxnIdAssumption
<1>2. S \in SUBSET Nat /\ \A x \in S : x <= next_txn_id
  <2>1. \A i \in DOMAIN wal : wal[i].txn \in Nat /\ wal[i].txn <= next_txn_id
    BY <1>1 DEF FreshIds, TypeOK
  <2> QED BY Zenon, <2>1
<1>3. S # {}
  <2>1. Len(wal) \in Nat \ {0} /\ DOMAIN wal = 1 .. Len(wal)
    BY DEF TypeOK
  <2>2. 1 \in DOMAIN wal
    BY <2>1
  <2> QED BY Zenon, <2>2
<1>4. next_txn_id \in Nat
  BY Zenon DEF TypeOK
<1> HIDE DEF S
<1>5. Max(S) \in S /\ \A x \in S : x <= Max(S)
  BY Zenon, <1>2, <1>3, <1>4, MaxExists
<1> QED BY Zenon, <1>2, <1>5 DEF S

(* What is recorded of a failure is again a history.                       *)
LEMMA HistoryType ==
  ASSUME TypeOK, NEW log
  PROVE  /\ \A file, values : ResidueAfter(log, file, values) \in [Key -> Residue]
         /\ CommittedAfter(log) \in [Key -> Stored]
<1>1. \A file, values : ResidueAfter(log, file, values) \in [Key -> Residue]
  BY Zenon DEF ResidueAfter, Residue, TypeOK
<1>2. ASSUME NEW k \in Key, LostWrites(log, k) # {}
      PROVE  Decode(wal[CHOOSE i \in LostWrites(log, k) : TRUE].before) \in Stored
  <2>1. PICK j : j = CHOOSE i \in LostWrites(log, k) : TRUE
    BY Zenon
  <2>2. j \in LostWrites(log, k)
    BY Zenon, <1>2, <2>1
  <2>3. wal[j] \in LogRecord /\ IsWrite(wal[j])
    BY <2>2 DEF LostWrites, IsWriteOf, TypeOK
  <2> QED BY Zenon, <2>1, <2>3, WriteRecordType, CodecType
<1>3. CommittedAfter(log) \in [Key -> Stored]
  BY Zenon, <1>2 DEF CommittedAfter, TypeOK
<1> QED BY Zenon, <1>1, <1>3

(* Types, action by action.                                                *)
LEMMA TypeStep ==
  ASSUME TypeOK, LockTypeOK', FreshIds, Position, Sessions, Next
  PROVE  TypeOK'
<1> USE DEF lockVars, connVars, fileVars, history
<1>1. ASSUME NEW c \in Conn, Begin(c) PROVE TypeOK'
  <2>1. [type |-> "BEGIN", txn |-> next_txn_id] \in LogRecord
    BY Zenon, <1>1 DEF Begin, LogRecord
  <2>2. wal' \in Seq(LogRecord) /\ wal_synced \in 0 .. Len(wal')
    BY Zenon, <1>1, <2>1, AppendType DEF Begin
  <2> QED BY <1>1, <2>2 DEF Begin, TypeOK
<1>2. ASSUME NEW c \in Conn, NEW o, NEW k, NEW v, NEW mode,
             [op |-> o, key |-> k, value |-> v] \in Call, LockFor(c, o, k, v, mode)
      PROVE  TypeOK'
  BY Zenon, <1>2 DEF LockFor, TypeOK
<1>3. ASSUME NEW c \in Conn, get_locked(c) PROVE TypeOK'
  BY Zenon, <1>3 DEF get_locked, TypeOK
<1>4. ASSUME NEW c \in Conn, put_locked(c) PROVE TypeOK'
  <2> DEFINE k == call[c].key
             v == call[c].value
             r == [type |-> "WRITE", txn |-> txn_id[c], key |-> k,
                   before |-> Encode(write_set'[c][k]), after |-> v]
  <2>1. k \in Key /\ txn_id[c] \in TxnId
    <3>1. call[c] # NoCall /\ k \in Key
      BY Zenon, <1>4, CallIsSome DEF put_locked
    <3>2. pc[c] # "idle"
      BY Zenon, <3>1 DEF Sessions
    <3>3. txn_id[c] # NoTxn /\ txn_id[c] \in TxnId \cup {NoTxn}
      BY Zenon, <3>2 DEF Sessions, TypeOK
    <3> QED BY Zenon, <3>1, <3>3
  <2>2. v \in Value
    BY Zenon, <1>4, CallIsSome DEF put_locked
  <2>3. r \in LogRecord
    BY Zenon, <1>4, <2>1, <2>2, FirstBeforeType, CodecType DEF put_locked, LogRecord, Bytes
  <2>4. wal' \in Seq(LogRecord) /\ wal_synced \in 0 .. Len(wal')
    BY Zenon, <1>4, <2>3, AppendType DEF put_locked
  <2>5. write_set' \in [Conn -> [Key -> Stored \cup {NotWritten}]]
    BY ZenonT(60), <1>4, <2>1, FirstBeforeType DEF put_locked
  <2>6. tree' \in [Key -> Stored]
    BY Zenon, <1>4, <2>1, <2>2 DEF put_locked, TypeOK, Stored
  <2> QED BY Zenon, <1>4, <2>4, <2>5, <2>6 DEF put_locked, TypeOK
<1>5. ASSUME NEW c \in Conn, delete_locked(c) PROVE TypeOK'
  <2> DEFINE k == call[c].key
             r == [type |-> "WRITE", txn |-> txn_id[c], key |-> k,
                   before |-> Encode(write_set'[c][k]), after |-> Empty]
  <2>1. CASE tree[k] = Absent
    BY Zenon, <1>5, <2>1 DEF delete_locked, TypeOK
  <2>2. CASE tree[k] # Absent
    <3>1. k \in Key /\ txn_id[c] \in TxnId
      BY <1>5 DEF delete_locked, TypeOK, Call, NoCall, Sessions
    <3>2. r \in LogRecord
      BY Zenon, <1>5, <2>2, <3>1, FirstBeforeType, CodecType DEF delete_locked, LogRecord, Bytes
    <3>3. wal' \in Seq(LogRecord) /\ wal_synced \in 0 .. Len(wal')
      BY Zenon, <1>5, <2>2, <3>2, AppendType DEF delete_locked
    <3>4. write_set' \in [Conn -> [Key -> Stored \cup {NotWritten}]]
      BY <1>5, <2>2, <3>1, FirstBeforeType DEF delete_locked
    <3>5. tree' \in [Key -> Stored]
      BY Zenon, <1>5, <2>2, <3>1 DEF delete_locked, TypeOK, Stored
    <3> QED BY Zenon, <1>5, <3>3, <3>4, <3>5 DEF delete_locked, TypeOK
  <2> QED BY Zenon, <2>1, <2>2
<1>6. ASSUME NEW c \in Conn, append_commit(c) PROVE TypeOK'
  <2>1. [type |-> "COMMIT", txn |-> txn_id[c]] \in LogRecord
    BY Zenon, <1>6 DEF append_commit, LogRecord, TypeOK, Sessions
  <2>2. wal' \in Seq(LogRecord) /\ wal_synced \in 0 .. Len(wal')
    BY Zenon, <1>6, <2>1, AppendType DEF append_commit
  <2> QED BY Zenon, <1>6, <2>2 DEF append_commit, TypeOK, Residue
<1>7. ASSUME NEW c \in Conn, flush(c) \/ flush_all(c) PROVE TypeOK'
  <2>1. Len(wal) \in 0 .. Len(wal)
    BY DEF TypeOK
  <2>2. CASE flush(c)
    BY Zenon, <2>1, <2>2 DEF flush, TypeOK
  <2>3. CASE flush_all(c)
    BY Zenon, <2>3 DEF flush_all, TypeOK
  <2> QED BY Zenon, <1>7, <2>2, <2>3
<1>8. ASSUME NEW c \in Conn, release_all(c) PROVE TypeOK'
  BY Zenon, <1>8 DEF release_all, TypeOK, Blank, Sessions
<1>9. ASSUME NEW c \in Conn, undo_all(c) PROVE TypeOK'
  BY <1>9 DEF undo_all, TypeOK, Touched
<1>10. ASSUME NEW c \in Conn, append_abort(c) PROVE TypeOK'
  <2>1. [type |-> "ABORT", txn |-> txn_id[c]] \in LogRecord
    BY Zenon, <1>10 DEF append_abort, LogRecord, TypeOK, Sessions
  <2>2. wal' \in Seq(LogRecord) /\ wal_synced \in 0 .. Len(wal')
    BY Zenon, <1>10, <2>1, AppendType DEF append_abort
  <2> QED BY Zenon, <1>10, <2>2 DEF append_abort, TypeOK
<1>11. ASSUME NEW k \in Key, evict_frame(k) PROVE TypeOK'
  BY Zenon, <1>11 DEF evict_frame, TypeOK
<1>12. ASSUME Close \/ Checkpoint \/ Truncate PROVE TypeOK'
  <2>1. <<>> \in Seq(LogRecord) /\ Len(<<>>) = 0
    OBVIOUS
  <2>2. CASE Close
    <3>1. residue' \in [Key -> Residue]
      BY Zenon, <2>2 DEF Close, TypeOK, Residue
    <3> QED BY <2>1, <2>2, <3>1 DEF Close, truncate, MemoryIsLost, TypeOK, Blank
  <2>3. CASE Checkpoint
    BY Zenon, <2>3 DEF Checkpoint, TypeOK
  <2>4. CASE Truncate
    BY <2>1, <2>4 DEF Truncate, truncate, TypeOK
  <2> QED BY Zenon, <1>12, <2>2, <2>3, <2>4
<1>13. ASSUME Open PROVE TypeOK'
  <2>1. next_txn_id' \in Nat \ {0}
    BY <1>13, MaxId DEF Open
  <2> QED BY Zenon, <1>13, <2>1 DEF Open, TypeOK
<1>14. ASSUME redo PROVE TypeOK'
  <2>1. wal[rpos] \in LogRecord
    BY <1>14 DEF redo, TypeOK, Position
  <2>2. tree' \in [Key -> Stored]
    BY Zenon, <1>14, <2>1, WriteRecordType, CodecType DEF redo, TypeOK
  <2> QED BY <1>14, <2>2 DEF redo, TypeOK
<1>15. ASSUME undo PROVE TypeOK'
  <2>1. wal[rpos] \in LogRecord
    BY <1>15 DEF undo, TypeOK, Position
  <2>2. tree' \in [Key -> Stored]
    BY Zenon, <1>15, <2>1, WriteRecordType, CodecType DEF undo, TypeOK
  <2> QED BY <1>15, <2>2 DEF undo, TypeOK
<1>16. ASSUME RedoDone PROVE TypeOK'
  BY <1>16 DEF RedoDone, TypeOK
<1>17. ASSUME ProcessCrash PROVE TypeOK'
  <2>1. residue' \in [Key -> Residue]
    BY Zenon, <1>17, HistoryType DEF ProcessCrash
  <2> QED BY Zenon, <1>17, <2>1 DEF ProcessCrash, MemoryIsLost, TypeOK, Blank
<1>18. ASSUME PowerLoss PROVE TypeOK'
  <2>1. residue' \in [Key -> Residue] /\ committed' \in [Key -> Stored]
    BY Zenon, <1>18, HistoryType DEF PowerLoss
  <2>2. disk' \in [Key -> Stored]
    BY Zenon, <1>18 DEF PowerLoss, TypeOK
  <2>3. wal' \in Seq(LogRecord) /\ Len(wal') \in Nat
    BY Zenon, <1>18, PowerLossLog
  <2> QED BY <1>18, <2>1, <2>2, <2>3 DEF PowerLoss, MemoryIsLost, TypeOK, Blank
<1>19. ASSUME NEW c \in Conn, NEW k \in Key,
              Get(c, k) \/ Delete(c, k) \/ \E v \in Value : Put(c, k, v)
       PROVE  TypeOK'
  BY Zenon, <1>2, <1>19 DEF Get, Put, Delete, Call
<1>20. ASSUME NEW c \in Conn, Fails(c) PROVE TypeOK'
  BY Zenon, <1>20 DEF Fails, TypeOK, Blank
<1> QED
  BY Zenon, <1>1, <1>3, <1>4, <1>5, <1>6, <1>7, <1>8, <1>9, <1>10, <1>11, <1>12, <1>13,
     <1>14, <1>15, <1>16, <1>17, <1>18, <1>19, <1>20
  DEF Next

(* The ids in the log stay below the next one.                             *)
LEMMA FreshStep ==
  ASSUME TypeOK, FreshIds, Sessions, Next
  PROVE  FreshIds'
<1> USE DEF lockVars, connVars, fileVars, history
<1>1. ASSUME NEW r, Append1(r), r.txn < next_txn_id', next_txn_id' \in {next_txn_id, next_txn_id + 1}
      PROVE  FreshIds'
  <2>1. next_txn_id \in Nat /\ \A i \in 1 .. Len(wal) : wal[i].txn \in Nat
    <3>1. \A i \in 1 .. Len(wal) : wal[i] \in LogRecord
      BY DEF TypeOK
    <3>2. \A i \in 1 .. Len(wal) : wal[i].txn \in TxnId
      BY Zenon, <3>1 DEF LogRecord
    <3> QED BY Zenon, <3>2, TxnIdAssumption DEF TypeOK
  <2> QED BY <1>1, <2>1, AppendShape DEF FreshIds
<1>2. ASSUME NEW c \in Conn, Begin(c) PROVE FreshIds'
  BY <1>1, <1>2 DEF Begin, TypeOK
<1>3. ASSUME NEW c \in Conn,
             put_locked(c) \/ delete_locked(c) \/ append_commit(c) \/ append_abort(c)
      PROVE  FreshIds'
  <2>1. pc[c] # "idle"
    <3>1. call[c] # NoCall \/ pc[c] \in {"open", "append_abort"}
      BY ZenonT(60), <1>3, CallIsSome DEF put_locked, delete_locked, append_commit, append_abort
    <3> QED BY Zenon, <3>1 DEF Sessions
  <2>2. txn_id[c] < next_txn_id
    BY Zenon, <2>1 DEF Sessions
  <2>3. CASE wal' = wal
    BY ZenonT(60), <1>3, <2>3 DEF FreshIds, put_locked, delete_locked, append_commit, append_abort
  <2>4. CASE wal' # wal
    BY ZenonT(60), <1>1, <1>3, <2>2, <2>4 DEF put_locked, delete_locked, append_commit, append_abort
  <2> QED BY Zenon, <2>3, <2>4
<1>4. ASSUME Close \/ Truncate PROVE FreshIds'
  <2>1. wal' = <<>>
    BY Zenon, <1>4 DEF Close, Truncate, truncate
  <2>2. DOMAIN wal' = {}
    BY <2>1
  <2> QED BY Zenon, <2>2 DEF FreshIds
<1>5. ASSUME Open PROVE FreshIds'
  <2>1. CASE wal = <<>>
    <3>1. wal' = wal
      BY Zenon, <1>5 DEF Open
    <3>2. DOMAIN wal' = {}
      BY <2>1, <3>1
    <3> QED BY Zenon, <3>2 DEF FreshIds
  <2>2. CASE wal # <<>>
    <3> DEFINE m == Max({wal[i].txn : i \in DOMAIN wal})
    <3>1. m \in Nat /\ \A i \in DOMAIN wal : wal[i].txn <= m
      BY Zenon, <2>2, MaxId
    <3>2. \A i \in DOMAIN wal : wal[i].txn \in Nat
      <4>1. \A i \in DOMAIN wal : wal[i] \in LogRecord
        BY DEF TypeOK
      <4>2. \A i \in DOMAIN wal : wal[i].txn \in TxnId
        BY Zenon, <4>1 DEF LogRecord
      <4> QED BY Zenon, <4>2, TxnIdAssumption
    <3>3. next_txn_id' = m + 1 /\ wal' = wal
      BY Zenon, <1>5, <2>2 DEF Open
    <3> HIDE DEF m
    <3> QED BY <3>1, <3>2, <3>3 DEF FreshIds
  <2> QED BY Zenon, <2>1, <2>2
<1>6. ASSUME PowerLoss PROVE FreshIds'
  <2>1. \A i \in DOMAIN wal' : i \in DOMAIN wal /\ wal'[i].txn = wal[i].txn
    BY Zenon, <1>6, PowerLossLog
  <2> QED BY Zenon, <1>6, <2>1 DEF PowerLoss, FreshIds
<1>7. ASSUME UNCHANGED <<wal, next_txn_id>> PROVE FreshIds'
  BY Zenon, <1>7 DEF FreshIds
<1> QED
  BY ZenonT(60), <1>2, <1>3, <1>4, <1>5, <1>6, <1>7
  DEF Next, Get, Put, Delete, LockFor, get_locked, flush, flush_all, release_all, undo_all,
      Fails, evict_frame, redo, RedoDone, undo, Checkpoint, ProcessCrash

(* Recovery stays inside the log.                                          *)
LEMMA PositionStep ==
  ASSUME TypeOK, Position, Sessions, Next
  PROVE  Position'
<1> USE DEF lockVars, connVars, fileVars, history
<1>1. Len(wal) \in Nat /\ rpos \in Nat
  BY DEF TypeOK
<1>2. ASSUME db' \notin {"redo", "undo"} PROVE Position'
  BY Zenon, <1>2 DEF Position
<1>3. ASSUME NEW c \in Conn, pc[c] # "idle", db' = db PROVE Position'
  BY Zenon, <1>3 DEF Position, Sessions
<1>4. ASSUME Open \/ redo \/ RedoDone \/ undo PROVE Position'
  <2>1. CASE Open
    BY <1>1, <2>1 DEF Open, Position
  <2>2. CASE redo
    <3>1. /\ db = "redo" /\ rpos <= Len(wal) /\ rpos' = rpos + 1 /\ wal' = wal
          /\ db' \in {db, "failed"}
      BY Zenon, <2>2 DEF redo
    <3> QED BY <1>1, <3>1 DEF Position
  <2>3. CASE RedoDone
    BY <1>1, <2>3 DEF RedoDone, Position
  <2>4. CASE undo
    <3>1. db = "undo" /\ rpos > 0 /\ rpos' = rpos - 1 /\ wal' = wal /\ db' = db
      BY Zenon, <2>4 DEF undo
    <3> QED BY <1>1, <3>1 DEF Position
  <2> QED BY Zenon, <1>4, <2>1, <2>2, <2>3, <2>4
<1>5. ASSUME NEW k \in Key, evict_frame(k) PROVE Position'
  BY Zenon, <1>5 DEF evict_frame, Position
<1>6. ASSUME NEW c \in Conn, Begin(c) PROVE Position'
  BY Zenon, <1>6 DEF Begin, Position
<1>7. ASSUME NEW c \in Conn,
             \/ \E k \in Key : Get(c, k) \/ Delete(c, k) \/ \E v \in Value : Put(c, k, v)
             \/ get_locked(c) \/ put_locked(c) \/ delete_locked(c)
             \/ append_commit(c) \/ flush(c) \/ flush_all(c)
             \/ undo_all(c) \/ append_abort(c) \/ release_all(c) \/ Fails(c)
      PROVE  pc[c] # "idle" /\ db' = db
  <2>1. CASE \E k \in Key : Get(c, k) \/ Delete(c, k) \/ \E v \in Value : Put(c, k, v)
    BY Zenon, <2>1 DEF Get, Put, Delete, LockFor
  <2>2. CASE get_locked(c) \/ put_locked(c) \/ delete_locked(c)
    <3>1. call[c] # NoCall /\ db' = db
      BY ZenonT(60), <2>2, CallIsSome DEF get_locked, put_locked, delete_locked
    <3> QED BY Zenon, <3>1 DEF Sessions
  <2>3. CASE append_commit(c) \/ flush(c) \/ flush_all(c) \/ undo_all(c)
             \/ append_abort(c) \/ release_all(c) \/ Fails(c)
    BY ZenonT(60), <2>3 DEF append_commit, flush, flush_all, release_all, undo_all, append_abort, Fails, Throws
  <2> QED BY Zenon, <1>7, <2>1, <2>2, <2>3
<1>8. ASSUME Close \/ Checkpoint \/ Truncate \/ ProcessCrash \/ PowerLoss
      PROVE  db' \notin {"redo", "undo"}
  BY Zenon, <1>8 DEF Close, Checkpoint, Truncate, ProcessCrash, PowerLoss, MemoryIsLost
<1> QED BY Zenon, <1>2, <1>3, <1>4, <1>5, <1>6, <1>7, <1>8 DEF Next

(* Threads keep their own transactions.                                    *)
LEMMA SessionsStep ==
  ASSUME TypeOK, Sessions, Next
  PROVE  Sessions'
<1> USE DEF lockVars, connVars, fileVars, history
<1>1. ASSUME NEW c \in Conn, Begin(c) PROVE Sessions'
  <2>1. \A d \in Conn : pc[d] # "idle" => txn_id[d] \in Nat /\ txn_id[d] < next_txn_id
    BY Zenon, TxnIdAssumption DEF Sessions, TypeOK
  <2>2. next_txn_id \in TxnId /\ next_txn_id # NoTxn /\ next_txn_id \in Nat
    BY Zenon, <1>1, NoTxnAssumption DEF Begin, TypeOK
  <2>3. call[c] = NoCall
    BY Zenon, <1>1 DEF Begin, Sessions
  <2> QED BY <1>1, <2>1, <2>2, <2>3 DEF Begin, Sessions, TypeOK
<1>2. ASSUME NEW c \in Conn, NEW o, NEW k, NEW v, NEW mode, LockFor(c, o, k, v, mode)
      PROVE  Sessions'
  BY Zenon, <1>2 DEF LockFor, Sessions, TypeOK
<1>3. ASSUME NEW c \in Conn, get_locked(c) PROVE Sessions'
  BY Zenon, <1>3 DEF get_locked, Sessions, TypeOK
<1>4. ASSUME NEW c \in Conn, put_locked(c) \/ delete_locked(c) PROVE Sessions'
  <2>1. pc[c] = "open" /\ call[c].key \in Key
    BY Zenon, <1>4, CallIsSome DEF put_locked, delete_locked, Sessions
  <2>2. \A d \in Conn : d # c => write_set'[d] = write_set[d]
    BY ZenonT(60), <1>4, <2>1 DEF put_locked, delete_locked, FirstBefore, TypeOK
  <2>3. UNCHANGED <<pc, txn_id, db, next_txn_id>> /\ call' = [call EXCEPT ![c] = NoCall]
    BY ZenonT(60), <1>4 DEF put_locked, delete_locked
  <2> QED BY ZenonT(60), <2>1, <2>2, <2>3 DEF Sessions, TypeOK
<1>5. ASSUME NEW c \in Conn,
             append_commit(c) \/ flush(c) \/ flush_all(c) \/ undo_all(c) \/ append_abort(c)
      PROVE  Sessions'
  <2>1. pc[c] # "idle" /\ call[c] = NoCall
    BY Zenon, <1>5 DEF append_commit, flush, flush_all, undo_all, append_abort, Sessions
  <2>2. /\ UNCHANGED <<txn_id, db, next_txn_id, call, write_set>>
        /\ \E q : q # "idle" /\ pc' = [pc EXCEPT ![c] = q]
    BY ZenonT(60), <1>5 DEF append_commit, flush, flush_all, undo_all, append_abort
  <2> QED BY Zenon, <2>1, <2>2 DEF Sessions, TypeOK
<1>6. ASSUME NEW c \in Conn, release_all(c) PROVE Sessions'
  BY ZenonT(60), <1>6, NoTxnAssumption DEF release_all, Sessions, TypeOK
<1>7. ASSUME NEW k \in Key, evict_frame(k) PROVE Sessions'
  BY Zenon, <1>7 DEF evict_frame, Sessions
<1>8. ASSUME UNCHANGED connVars, \A c \in Conn : pc[c] = "idle" PROVE Sessions'
  BY Zenon, <1>8 DEF Sessions
<1>9. ASSUME MemoryIsLost PROVE Sessions'
  BY Zenon, <1>9 DEF MemoryIsLost, Sessions
<1>10. ASSUME Open \/ redo \/ RedoDone \/ undo \/ Checkpoint \/ Truncate
       PROVE  UNCHANGED connVars /\ \A c \in Conn : pc[c] = "idle"
  BY Zenon, <1>10 DEF Open, redo, RedoDone, undo, Checkpoint, Truncate, Sessions
<1>11. ASSUME NEW c \in Conn, Fails(c) PROVE Sessions'
  BY ZenonT(60), <1>11, NoTxnAssumption DEF Fails, Throws, Sessions, TypeOK
<1> QED
  BY Zenon, <1>1, <1>2, <1>3, <1>4, <1>5, <1>6, <1>7, <1>8, <1>9, <1>10, <1>11
  DEF Next, Get, Put, Delete, Close, ProcessCrash, PowerLoss

(* Owned, for one thread.                                                  *)
OwnedBy(c) ==
  /\ call[c] # NoCall => holds_lock(txn_id[c], call[c].key)
  /\ call[c].op \in {"Put", "Delete"} => holds_exclusive(txn_id[c], call[c].key)
  /\ \A k \in Touched(c) : holds_exclusive(txn_id[c], k)

(* Owned says it of every thread.                                          *)
LEMMA OwnedDef == Owned <=> \A c \in Conn : OwnedBy(c)
  BY ZenonT(60) DEF Owned, OwnedBy

(* Locks once granted are kept by every step of the other threads.         *)
LEMMA OwnedKept ==
  ASSUME TypeOK, Owned, NEW c \in Conn,
         ExclusiveKeys(txn_id[c]) \subseteq ExclusiveKeys(txn_id[c])',
         HeldKeys(txn_id[c]) \subseteq HeldKeys(txn_id[c])',
         txn_id'[c] = txn_id[c], call'[c] = call[c], write_set'[c] = write_set[c]
  PROVE  OwnedBy(c)'
<1>1. OwnedBy(c)
  BY Zenon, OwnedDef
<1>2. \A k \in Key : holds_exclusive(txn_id[c], k) => holds_exclusive(txn_id[c], k)'
  BY Zenon DEF ExclusiveKeys, holds_exclusive
<1>3. \A k \in Key : holds_lock(txn_id[c], k) => holds_lock(txn_id[c], k)'
  BY Zenon DEF HeldKeys, holds_exclusive, holds_lock
<1> QED BY Zenon, <1>1, <1>2, <1>3, CallIsSome DEF OwnedBy, Touched, holds_lock, holds_exclusive

(* A thread with no call and no writes owns what it must.                  *)
LEMMA NothingToOwn ==
  ASSUME NEW c \in Conn, call'[c] = NoCall, write_set'[c] = Blank
  PROVE  OwnedBy(c)'
  BY DEF OwnedBy, NoCall, Touched, Blank

(* Ownership, action by action.                                            *)
LEMMA OwnedStep ==
  ASSUME TypeOK, LockInv, Sessions, Owned, Next
  PROVE  Owned'
<1> USE DEF lockVars, connVars, fileVars, history
<1>1. \A c \in Conn : pc[c] = "idle" => call[c] = NoCall /\ write_set[c] = Blank
  BY Zenon DEF Sessions
<1>2. \A c \in Conn : pc[c] # "idle" => txn_id[c] \in TxnId
  BY Zenon DEF Sessions, TypeOK
<1>3. ASSUME NEW c \in Conn, Begin(c) PROVE Owned'
  <2>1. OwnedBy(c)'
    BY ZenonT(60), <1>1, <1>3, NothingToOwn DEF Begin
  <2>2. ASSUME NEW d \in Conn, d # c PROVE OwnedBy(d)'
    BY ZenonT(60), <1>3, <2>2, OwnedKept
    DEF Begin, TypeOK, ExclusiveKeys, HeldKeys, holds_lock, holds_exclusive
  <2> QED BY ZenonT(60), <2>1, <2>2, OwnedDef DEF OwnedBy, Owned
<1>4. ASSUME NEW c \in Conn, NEW o, NEW k \in Key, NEW v, NEW mode \in LockMode,
             o # "Get" => mode = EXCLUSIVE, LockFor(c, o, k, v, mode)
      PROVE  Owned'
  <2>1. /\ \A u \in TxnId : /\ HeldKeys(u) \subseteq HeldKeys(u)'
                           /\ ExclusiveKeys(u) \subseteq ExclusiveKeys(u)'
        /\ holds_lock(txn_id[c], k)'
        /\ mode = EXCLUSIVE => holds_exclusive(txn_id[c], k)'
    BY Zenon, <1>2, <1>4, GrantKeepsLocks DEF LockFor
  <2>2. OwnedBy(c)'
    <3>1. \A l \in Touched(c) : holds_exclusive(txn_id[c], l)'
      BY Zenon, <1>2, <1>4, <2>1 DEF LockFor, Owned, ExclusiveKeys, Touched, holds_exclusive
    <3>2. /\ call'[c].op = o /\ call'[c].key = k /\ txn_id'[c] = txn_id[c]
          /\ write_set'[c] = write_set[c]
      BY Zenon, <1>4 DEF LockFor, TypeOK
    <3> QED BY Zenon, <1>4, <2>1, <3>1, <3>2 DEF OwnedBy, Touched, holds_lock, holds_exclusive
  <2>3. ASSUME NEW d \in Conn, d # c PROVE OwnedBy(d)'
    <3>1. txn_id'[d] = txn_id[d] /\ call'[d] = call[d] /\ write_set'[d] = write_set[d]
      BY Zenon, <1>4, <2>3 DEF LockFor, TypeOK
    <3> QED BY Zenon, <1>1, <1>2, <2>1, <3>1, OwnedKept, NothingToOwn
  <2> QED BY Zenon, <2>2, <2>3 DEF OwnedBy, Owned
<1>5. ASSUME NEW c \in Conn, get_locked(c) \/ put_locked(c) \/ delete_locked(c) PROVE Owned'
  <2>1. call[c].key \in Key
    BY Zenon, <1>5, CallIsSome DEF get_locked, put_locked, delete_locked
  <2>2. \A l \in Key : write_set'[c][l] # NotWritten =>
          write_set[c][l] # NotWritten \/ (l = call[c].key /\ call[c].op \in {"Put", "Delete"})
    <3>1. \/ write_set' = write_set
          \/ /\ write_set' = FirstBefore(c, call[c].key)
             /\ call[c].op \in {"Put", "Delete"}
      BY Zenon, <1>5 DEF get_locked, put_locked, delete_locked
    <3>2. write_set \in [Conn -> [Key -> Stored \cup {NotWritten}]]
      BY Zenon DEF TypeOK
    <3> QED BY Zenon, <2>1, <3>1, <3>2 DEF FirstBefore
  <2>3. OwnedBy(c)'
    <3>1. call'[c] = NoCall /\ txn_id'[c] = txn_id[c] /\ UNCHANGED lockVars
      <4>1. call \in [Conn -> Call \cup {NoCall}]
        BY Zenon DEF TypeOK
      <4>2. /\ call' = [call EXCEPT ![c] = NoCall] /\ txn_id' = txn_id
            /\ UNCHANGED lockVars
        BY Zenon, <1>5 DEF get_locked, put_locked, delete_locked
      <4> QED BY Zenon, <4>1, <4>2
    <3>2. holds_exclusive(txn_id[c], call[c].key) \/ call[c].op \notin {"Put", "Delete"}
      BY Zenon DEF Owned
    <3>3. \A l \in Touched(c) : holds_exclusive(txn_id[c], l)
      BY Zenon DEF Owned
    <3>4. \A l \in Touched(c)' : holds_exclusive(txn_id[c], l)
      BY Zenon, <2>2, <3>2, <3>3 DEF Touched
    <3> QED BY <3>1, <3>4 DEF OwnedBy, NoCall, holds_exclusive
  <2>4. ASSUME NEW d \in Conn, d # c PROVE OwnedBy(d)'
    <3>1. /\ UNCHANGED lockVars
          /\ txn_id'[d] = txn_id[d] /\ call'[d] = call[d] /\ write_set'[d] = write_set[d]
      BY Zenon, <1>5, <2>1, <2>4 DEF get_locked, put_locked, delete_locked, FirstBefore, TypeOK
    <3> QED BY Zenon, <3>1, OwnedKept DEF ExclusiveKeys, HeldKeys, holds_lock, holds_exclusive
  <2> QED BY Zenon, <2>3, <2>4 DEF OwnedBy, Owned
<1>6. ASSUME NEW c \in Conn, release_all(c) PROVE Owned'
  <2>1. OwnedBy(c)'
    BY Zenon, <1>6, NothingToOwn DEF release_all, TypeOK, Sessions
  <2>2. ASSUME NEW d \in Conn, d # c PROVE OwnedBy(d)'
    <3>1. txn_id'[d] = txn_id[d] /\ call'[d] = call[d] /\ write_set'[d] = write_set[d]
      BY Zenon, <1>6, <2>2 DEF release_all, TypeOK
    <3>2. CASE pc[d] # "idle"
      <4>1. txn_id[d] # txn_id[c] /\ txn_id[c] \in TxnId
        BY Zenon, <1>2, <1>6, <2>2, <3>2 DEF release_all, Sessions
      <4> QED BY ZenonT(60), <1>2, <1>6, <3>1, <3>2, <4>1, OwnedKept, ReleaseKeepsOthers DEF release_all
    <3> QED BY Zenon, <1>1, <3>1, <3>2, NothingToOwn
  <2> QED BY Zenon, <2>1, <2>2 DEF OwnedBy, Owned
<1>7. ASSUME UNCHANGED <<lockVars, txn_id, call, write_set>> PROVE Owned'
  BY ZenonT(60), <1>7 DEF Owned, Touched, holds_lock, holds_exclusive
<1>8. ASSUME MemoryIsLost PROVE Owned'
  BY Zenon, <1>8 DEF MemoryIsLost, Owned, Touched, NoCall, Blank
<1>9. ASSUME NEW c \in Conn, NEW k \in Key,
             Get(c, k) \/ Delete(c, k) \/ \E v \in Value : Put(c, k, v)
      PROVE  Owned'
  BY Zenon, <1>4, <1>9 DEF Get, Put, Delete, LockMode
<1>10. ASSUME NEW c \in Conn, Fails(c) PROVE Owned'
  <2>1. OwnedBy(c)'
    BY Zenon, <1>10, NothingToOwn DEF Fails, Throws, TypeOK
  <2>2. ASSUME NEW d \in Conn, d # c PROVE OwnedBy(d)'
    <3>1. /\ UNCHANGED lockVars
          /\ txn_id'[d] = txn_id[d] /\ call'[d] = call[d] /\ write_set'[d] = write_set[d]
      BY Zenon, <1>10, <2>2 DEF Fails, TypeOK
    <3> QED BY Zenon, <3>1, OwnedKept DEF ExclusiveKeys, HeldKeys, holds_lock, holds_exclusive
  <2> QED BY Zenon, <2>1, <2>2 DEF OwnedBy, Owned
<1> QED
  BY Zenon, <1>3, <1>5, <1>6, <1>7, <1>8, <1>9, <1>10
  DEF Next, append_commit, flush, flush_all, undo_all, append_abort, evict_frame, Close, Open,
      redo, RedoDone, undo, Checkpoint, Truncate, ProcessCrash, PowerLoss

(* The commit protocol: record, fsync, and only then the answer.           *)
LEMMA LoggedStep ==
  ASSUME TypeOK, TypeOK', Sessions, Logged, Next
  PROVE  Logged'
<1> USE DEF lockVars, connVars, fileVars, history
<1>1. /\ Len(wal) \in Nat /\ wal_synced \in 0 .. Len(wal) /\ Len(wal) \in 0 .. Len(wal)
      /\ Len(wal') \in Nat /\ wal_synced' \in 0 .. Len(wal')
  BY DEF TypeOK
<1>2. ASSUME Len(wal) <= Len(wal'), wal_synced <= wal_synced',
             \A i \in 1 .. Len(wal) : wal'[i] = wal[i]
      PROVE  /\ \A t : LoggedUpTo(t, Len(wal)) => LoggedUpTo(t, Len(wal))'
             /\ \A t : LoggedUpTo(t, wal_synced) => LoggedUpTo(t, wal_synced)'
  BY <1>1, <1>2 DEF LoggedUpTo
<1>3. ASSUME UNCHANGED <<wal, wal_synced, acked, txn_id, pc>> PROVE Logged'
  BY Zenon, <1>3 DEF Logged, LoggedUpTo, AckedIsDurable
<1>4. ASSUME NEW r, Append1(r), UNCHANGED <<wal_synced, acked>>,
             \A c \in Conn : pc'[c] \in {"wal_flush", "page_flush", "release"} =>
               /\ txn_id'[c] = txn_id[c]
               /\ \/ pc'[c] = pc[c]
                  \/ pc'[c] = "wal_flush" /\ r = [type |-> "COMMIT", txn |-> txn_id[c]]
      PROVE  Logged'
  <2>1. /\ Len(wal') = Len(wal) + 1 /\ wal'[Len(wal) + 1] = r
        /\ \A i \in 1 .. Len(wal) : wal'[i] = wal[i]
    BY Zenon, <1>4, AppendShape
  <2>2. /\ \A t : LoggedUpTo(t, Len(wal)) => LoggedUpTo(t, Len(wal))'
        /\ \A t : LoggedUpTo(t, wal_synced) => LoggedUpTo(t, wal_synced)'
    <3>1. Len(wal) <= Len(wal') /\ wal_synced <= wal_synced'
      BY <1>1, <1>4, <2>1
    <3> QED BY Zenon, <1>2, <2>1, <3>1
  <2>3. \A t : r = [type |-> "COMMIT", txn |-> t] => LoggedUpTo(t, Len(wal))'
    BY <1>1, <2>1 DEF LoggedUpTo
  <2>4. AckedIsDurable'
    BY Zenon, <1>4, <2>2 DEF Logged, LoggedUpTo, AckedIsDurable
  <2> QED BY <1>4, <2>2, <2>3, <2>4 DEF Logged, LoggedUpTo
<1>5. ASSUME NEW c \in Conn, flush(c) PROVE Logged'
  <2>1. /\ \A t : LoggedUpTo(t, Len(wal)) => LoggedUpTo(t, Len(wal))'
        /\ \A t : LoggedUpTo(t, wal_synced) => LoggedUpTo(t, wal_synced)'
    BY <1>1, <1>2, <1>5 DEF flush
  <2>2. \A t : LoggedUpTo(t, Len(wal)) => LoggedUpTo(t, wal_synced)'
    BY Zenon, <1>5 DEF flush, LoggedUpTo
  <2>3. AckedIsDurable'
    BY Zenon, <1>5, <2>1 DEF flush, Logged, LoggedUpTo, AckedIsDurable
  <2>4. /\ pc[c] = "wal_flush" /\ pc' = [pc EXCEPT ![c] = "page_flush"] /\ txn_id' = txn_id
        /\ \A d \in Conn : pc'[d] = IF d = c THEN "page_flush" ELSE pc[d]
    BY Zenon, <1>5 DEF flush, TypeOK
  <2>5. ASSUME NEW d \in Conn
        PROVE  /\ pc'[d] = "wal_flush" => LoggedUpTo(txn_id[d], Len(wal))'
               /\ pc'[d] \in {"page_flush", "release"} => LoggedUpTo(txn_id[d], wal_synced)'
    BY <2>1, <2>2, <2>4 DEF Logged, LoggedUpTo
  <2> QED BY Zenon, <2>3, <2>5 DEF Logged
<1>6. ASSUME NEW c \in Conn, release_all(c) PROVE Logged'
  <2>1. AckedIsDurable'
    BY ZenonT(60), <1>6 DEF release_all, Logged, LoggedUpTo, AckedIsDurable
  <2> QED BY ZenonT(60), <1>6, <2>1 DEF release_all, Logged, LoggedUpTo, TypeOK
<1>7. ASSUME Close \/ Truncate PROVE Logged'
  BY Zenon, <1>7 DEF Close, Truncate, truncate, MemoryIsLost, Sessions, Logged, AckedIsDurable
<1>8. ASSUME ProcessCrash PROVE Logged'
  BY Zenon, <1>8 DEF ProcessCrash, MemoryIsLost, Logged, LoggedUpTo, AckedIsDurable
<1>9. ASSUME PowerLoss PROVE Logged'
  <2>2. wal_synced <= wal_synced' /\ \A i \in 1 .. wal_synced : wal'[i] = wal[i]
    BY ZenonT(60), <1>9, PowerLossLog DEF PowerLoss
  <2>3. AckedIsDurable'
    <3>1. acked' = acked
      BY Zenon, <1>9 DEF PowerLoss
    <3>2. ASSUME NEW t \in acked
          PROVE  \E i \in 1 .. wal_synced' : wal'[i] = [type |-> "COMMIT", txn |-> t]
      <4>1. PICK i \in 1 .. wal_synced : wal[i] = [type |-> "COMMIT", txn |-> t]
        BY Zenon DEF Logged, AckedIsDurable
      <4>2. i \in 1 .. wal_synced'
        BY <1>1, <2>2
      <4> QED BY Zenon, <2>2, <4>1, <4>2
    <3> QED BY Zenon, <3>1, <3>2 DEF AckedIsDurable
  <2>4. \A c \in Conn : pc'[c] = "idle"
    BY Zenon, <1>9 DEF PowerLoss, MemoryIsLost
  <2> QED BY Zenon, <2>3, <2>4 DEF Logged
<1>10. ASSUME NEW c \in Conn, Begin(c) \/ append_commit(c) \/ append_abort(c) PROVE Logged'
  BY Zenon, <1>4, <1>10 DEF Begin, append_commit, append_abort, TypeOK
<1>11. ASSUME NEW c \in Conn, put_locked(c) \/ delete_locked(c) PROVE Logged'
  <2>1. UNCHANGED <<wal_synced, acked, txn_id, pc>>
    BY Zenon, <1>11 DEF put_locked, delete_locked
  <2>2. wal' = wal \/ \E r : Append1(r)
    BY Zenon, <1>11 DEF put_locked, delete_locked
  <2> QED BY Zenon, <1>3, <1>4, <2>1, <2>2
<1>12. ASSUME NEW c \in Conn, flush_all(c) \/ undo_all(c) PROVE Logged'
  <2>1. AckedIsDurable'
    BY Zenon, <1>12 DEF flush_all, undo_all, Logged, AckedIsDurable
  <2> QED BY ZenonT(60), <1>12, <2>1 DEF flush_all, undo_all, Logged, LoggedUpTo, TypeOK
<1>13. ASSUME NEW c \in Conn, NEW o, NEW k, NEW v, NEW mode, LockFor(c, o, k, v, mode)
       PROVE  Logged'
  BY Zenon, <1>3, <1>13 DEF LockFor
<1>14. ASSUME NEW c \in Conn, get_locked(c) PROVE Logged'
  BY Zenon, <1>3, <1>14 DEF get_locked
<1>15. ASSUME NEW k \in Key, evict_frame(k) PROVE Logged'
  BY Zenon, <1>3, <1>15 DEF evict_frame
<1>16. ASSUME Open \/ redo \/ RedoDone \/ undo \/ Checkpoint PROVE Logged'
  BY Zenon, <1>3, <1>16 DEF Open, redo, RedoDone, undo, Checkpoint
<1>17. ASSUME NEW c \in Conn, Fails(c) PROVE Logged'
  <2>1. AckedIsDurable'
    BY Zenon, <1>17 DEF Fails, Logged, AckedIsDurable
  <2> QED BY ZenonT(60), <1>17, <2>1 DEF Fails, Logged, LoggedUpTo, TypeOK
<1> QED
  BY Zenon, <1>5, <1>6, <1>7, <1>8, <1>9, <1>10, <1>11, <1>12, <1>13, <1>14, <1>15, <1>16, <1>17
  DEF Next, Get, Put, Delete

(* No two threads own the same key, one of them exclusively.               *)
LEMMA SoleOwner ==
  ASSUME TypeOK, LockInv, Sessions, NEW c \in Conn, NEW d \in Conn, NEW k \in Key,
         pc[c] # "idle", pc[d] # "idle",
         holds_lock(txn_id[c], k), holds_exclusive(txn_id[d], k)
  PROVE  c = d
<1>1. txn_id[d] # NoTxn /\ shared_holders[k] = {}
  BY Zenon DEF Sessions, LockInv, LockExclusion, holds_exclusive
<1>2. txn_id[c] = txn_id[d]
  BY Zenon, <1>1 DEF holds_lock, holds_exclusive
<1> QED BY Zenon, <1>2 DEF Sessions

(* While the database serves, the value of a key changes only by a thread  *)
(* that holds the key exclusively: it runs a call on it or rolls back.     *)
LEMMA ChangesAreOwned ==
  ASSUME TypeOK, Sessions, Owned, Next, db = "up", db' = "up",
         NEW k \in Key, tree'[k] # tree[k]
  PROVE  \E d \in Conn :
           /\ pc[d] = "open" /\ holds_exclusive(txn_id[d], k)
           /\ \/ call[d] # NoCall /\ call[d].key = k /\ call'[d] = NoCall /\ pc' = pc
              \/ pc' = [pc EXCEPT ![d] = "append_abort"]
<1> USE DEF lockVars, connVars, fileVars, history
<1>1. ASSUME NEW d \in Conn, put_locked(d) \/ delete_locked(d)
      PROVE  /\ pc[d] = "open" /\ holds_exclusive(txn_id[d], k)
             /\ call[d] # NoCall /\ call[d].key = k /\ call'[d] = NoCall /\ pc' = pc
  <2>1. call[d] # NoCall /\ call[d].key \in Key /\ call[d].op \in {"Put", "Delete"}
    BY Zenon, <1>1, CallIsSome DEF put_locked, delete_locked
  <2>2. call[d].key = k
    BY Zenon, <1>1, <2>1 DEF put_locked, delete_locked, TypeOK
  <2> QED BY Zenon, <1>1, <2>1, <2>2 DEF put_locked, delete_locked, Owned, Sessions, TypeOK
<1>2. ASSUME NEW d \in Conn, undo_all(d)
      PROVE  /\ pc[d] = "open" /\ holds_exclusive(txn_id[d], k)
             /\ pc' = [pc EXCEPT ![d] = "append_abort"]
  BY Zenon, <1>2 DEF undo_all, Owned, TypeOK
<1>3. ~UNCHANGED tree
  BY Zenon
<1> QED
  BY ZenonT(60), <1>1, <1>2, <1>3
  DEF Next, Begin, Get, Put, Delete, LockFor, get_locked, append_commit, flush, flush_all,
      append_abort, release_all, Fails, evict_frame, Close, Open, redo, RedoDone, undo, Checkpoint,
      Truncate, ProcessCrash, PowerLoss, MemoryIsLost

(* What a committing transaction wrote stays, and is on disk at the end.   *)
LEMMA ForcedStep ==
  ASSUME TypeOK, LockInv, Sessions, Sessions', Owned, Forced, Next
  PROVE  Forced'
<1> USE DEF lockVars, connVars, fileVars, history
<1> DEFINE Stage == {"wal_flush", "page_flush", "release"}
<1>1. SUFFICES ASSUME NEW c \in Conn, NEW k \in Key, pc'[c] \in Stage,
                      write_set'[c][k] # NotWritten
               PROVE  /\ tree'[k] = committed'[k]
                      /\ pc'[c] = "release" => synced'[k] = committed'[k]
  BY ZenonT(60) DEF Forced, ForceAtCommit, Touched
<1>2. CASE append_commit(c)
  BY Zenon, <1>1, <1>2 DEF append_commit, Touched, TypeOK
<1>3. CASE flush(c) \/ flush_all(c)
  BY ZenonT(60), <1>1, <1>3 DEF flush, flush_all, Touched, TypeOK, Forced
<1>4. CASE ~(append_commit(c) \/ flush(c) \/ flush_all(c))
  <2>1. pc'[c] # "idle" /\ db' = "up"
    BY Zenon, <1>1 DEF Sessions
  <2>2. db = "up"
    <3>1. ASSUME Open \/ redo \/ RedoDone \/ undo \/ Checkpoint \/ Truncate
          PROVE  db # "up" /\ pc' = pc
      BY Zenon, <3>1 DEF Open, redo, RedoDone, undo, Checkpoint, Truncate
    <3>2. ~(Open \/ redo \/ RedoDone \/ undo \/ Checkpoint \/ Truncate)
      BY Zenon, <2>1, <3>1 DEF Sessions
    <3>3. ~(Close \/ ProcessCrash \/ PowerLoss)
      BY Zenon, <2>1 DEF Close, ProcessCrash, PowerLoss, MemoryIsLost
    <3>4. ASSUME NEW d \in Conn,
                 \/ Begin(d) \/ get_locked(d) \/ put_locked(d) \/ delete_locked(d)
                 \/ append_commit(d) \/ flush(d) \/ flush_all(d) \/ undo_all(d)
                 \/ append_abort(d) \/ release_all(d) \/ Fails(d)
          PROVE  db = "up"
      BY Zenon, <2>1, <3>4
      DEF Begin, get_locked, put_locked, delete_locked, append_commit, flush, flush_all,
          undo_all, append_abort, release_all, Fails, Sessions
    <3>5. ASSUME NEW d \in Conn, NEW l \in Key,
                 Get(d, l) \/ Delete(d, l) \/ \E v \in Value : Put(d, l, v)
          PROVE  db = "up"
      BY Zenon, <3>5 DEF Get, Put, Delete, LockFor, Sessions
    <3>6. ASSUME NEW l \in Key, evict_frame(l) PROVE db = "up"
      BY Zenon, <2>1, <3>6 DEF evict_frame
    <3> QED BY Zenon, <2>1, <3>2, <3>3, <3>4, <3>5, <3>6 DEF Next
  <2>3. pc[c] = pc'[c] /\ write_set'[c][k] = write_set[c][k]
    <3>1. ASSUME NEW d \in Conn,
                 Begin(d) \/ get_locked(d) \/ put_locked(d) \/ delete_locked(d)
          PROVE  pc[c] = pc'[c] /\ write_set'[c][k] = write_set[c][k]
      <4>1. d # c
        BY Zenon, <1>1, <3>1, CallIsSome
        DEF Begin, get_locked, put_locked, delete_locked, Sessions, TypeOK
      <4> QED BY Zenon, <3>1, <4>1
        DEF Begin, get_locked, put_locked, delete_locked, FirstBefore, TypeOK
    <3>2. ASSUME NEW d \in Conn,
                 \/ append_commit(d) \/ flush(d) \/ flush_all(d)
                 \/ undo_all(d) \/ append_abort(d) \/ release_all(d) \/ Fails(d)
          PROVE  pc[c] = pc'[c] /\ write_set'[c][k] = write_set[c][k]
      <4>1. d # c
        BY ZenonT(60), <1>1, <1>4, <3>2 DEF undo_all, append_abort, release_all, Fails, TypeOK
      <4> QED BY Zenon, <3>2, <4>1
        DEF append_commit, flush, flush_all, undo_all, append_abort, release_all, Fails, TypeOK
    <3>3. CASE UNCHANGED <<pc, write_set>>
      BY Zenon, <3>3
    <3> QED
      BY Zenon, <2>1, <3>1, <3>2, <3>3
      DEF Next, Get, Put, Delete, LockFor, evict_frame, Close, Open, redo, RedoDone, undo,
          Checkpoint, Truncate, ProcessCrash, PowerLoss, MemoryIsLost
  <2>4. tree[k] = committed[k] /\ (pc[c] = "release" => synced[k] = committed[k])
    BY Zenon, <1>1, <2>3 DEF Forced, ForceAtCommit, Touched
  <2>5. holds_exclusive(txn_id[c], k)
    BY Zenon, <1>1, <2>3 DEF Owned, Touched
  <2>6. \A d \in Conn : pc[d] # "idle" /\ holds_exclusive(txn_id[d], k) => d = c
    BY Zenon, <1>1, <2>3, <2>5, SoleOwner DEF holds_lock
  <2>7. tree'[k] = tree[k]
    BY Zenon, <1>1, <2>1, <2>2, <2>3, <2>6, ChangesAreOwned
  <2>8. committed'[k] = committed[k]
    <3>1. ASSUME NEW d \in Conn, append_commit(d) PROVE committed'[k] = committed[k]
      <4>1. k \notin Touched(d)
        BY Zenon, <1>4, <2>6, <3>1 DEF append_commit, Owned
      <4> QED BY Zenon, <3>1, <4>1 DEF append_commit
    <3>2. CASE UNCHANGED committed
      BY Zenon, <3>2
    <3> QED
      BY ZenonT(60), <2>1, <3>1, <3>2
      DEF Next, Begin, Get, Put, Delete, LockFor, get_locked, put_locked, delete_locked,
          flush, flush_all, undo_all, append_abort, release_all, Fails, evict_frame, Close, Open,
          redo, RedoDone, undo, Checkpoint, Truncate, ProcessCrash, PowerLoss, MemoryIsLost
  <2>9. synced'[k] \in {synced[k], tree[k]}
    BY ZenonT(60), <2>1
    DEF Next, Begin, Get, Put, Delete, LockFor, get_locked, put_locked, delete_locked,
        append_commit, flush, flush_all, undo_all, append_abort, release_all, Fails, evict_frame,
        Close, Open, redo, RedoDone, undo, Checkpoint, Truncate, ProcessCrash, PowerLoss,
        MemoryIsLost
  <2> QED BY Zenon, <2>3, <2>4, <2>7, <2>8, <2>9
<1> QED BY Zenon, <1>2, <1>3, <1>4

-----------------------------------------------------------------------------
(* A new database satisfies the invariant. *)
LEMMA InitInv == Init => IInv
<1> SUFFICES ASSUME Init PROVE IInv
  BY Zenon
<1>1. LockInv
  BY Zenon, LockInitInv DEF Init
<1>2. TypeOK
  BY <1>1 DEF Init, TypeOK, LockInv, Blank, Stored, Residue
<1>3. Sessions /\ Owned /\ Forced
  BY Zenon DEF Init, Sessions, Owned, Forced, ForceAtCommit, Touched, Blank, NoCall
<1>4. FreshIds /\ Position /\ Logged
  BY DEF Init, FreshIds, Position, Logged, AckedIsDurable
<1> QED BY Zenon, <1>1, <1>2, <1>3, <1>4 DEF IInv

(* Every step of a thread, of recovery, or of a failure preserves it. *)
LEMMA NextInv == IInv /\ [Next]_vars => IInv'
<1>1. ASSUME IInv, Next PROVE IInv'
  <2>1. LockInv'
    BY Zenon, <1>1, LockStep DEF IInv
  <2>2. TypeOK'
    BY Zenon, <1>1, <2>1, TypeStep DEF IInv, LockInv
  <2>3. FreshIds' /\ Position' /\ Sessions' /\ Owned'
    BY Zenon, <1>1, FreshStep, PositionStep, SessionsStep, OwnedStep DEF IInv
  <2>4. Logged' /\ Forced'
    BY Zenon, <1>1, <2>2, <2>3, LoggedStep, ForcedStep DEF IInv
  <2> QED BY Zenon, <2>1, <2>2, <2>3, <2>4 DEF IInv
<1>2. ASSUME IInv, UNCHANGED vars PROVE IInv'
  <2>1. LockInv'
    BY Zenon, <1>2, LockUnchanged DEF IInv, vars, lockVars
  <2>2. TypeOK'
    BY Zenon, <1>2, <2>1 DEF IInv, vars, LockInv, TypeOK
  <2>3. FreshIds' /\ Position'
    BY Zenon, <1>2 DEF IInv, vars, FreshIds, Position
  <2>4. Sessions'
    BY ZenonT(60), <1>2 DEF IInv, vars, Sessions
  <2>5. Owned'
    BY Zenon, <1>2 DEF IInv, vars, Owned, Touched, holds_lock, holds_exclusive
  <2>6. Logged'
    BY ZenonT(60), <1>2 DEF IInv, vars, Logged, LoggedUpTo, AckedIsDurable
  <2>7. Forced'
    BY Zenon, <1>2 DEF IInv, vars, Forced, ForceAtCommit, Touched
  <2> QED BY Zenon, <2>1, <2>2, <2>3, <2>4, <2>5, <2>6, <2>7 DEF IInv
<1> QED BY Zenon, <1>1, <1>2

(* The invariant holds throughout. *)
LEMMA SpecInv == Spec => []IInv
  BY InitInv, NextInv, PTL DEF Spec

(* Every variable of the running system keeps its type: the log is a       *)
(* sequence of records with a synced prefix, and recovery never leaves it. *)
THEOREM TypeCorrect == Spec => []TypeOK
  BY SpecInv, PTL DEF IInv

(* No two transactions of the database ever hold a key in conflicting      *)
(* modes, across restarts that reuse transaction ids.                      *)
THEOREM Exclusion == Spec => []LockExclusion
  BY SpecInv, PTL DEF IInv, LockInv

(* A Commit that has returned is never lost: its COMMIT record is in the   *)
(* part of the log that every failure leaves.                              *)
THEOREM CommitsAreDurable == Spec => []AckedIsDurable
  BY SpecInv, PTL DEF IInv, Logged

(* When Commit releases its locks, the data file on the device holds what  *)
(* the transaction wrote.                                                  *)
THEOREM CommitForces == Spec => []ForceAtCommit
  BY SpecInv, PTL DEF IInv, Forced

(* Reads are repeatable: a value changes under a lock only by the lock's   *)
(* holder.                                                                 *)
THEOREM ReadsAreRepeatable == Spec => RepeatableReads
<1> DEFINE Step == \A c \in Conn, k \in Key :
       /\ db = "up" /\ db' = "up"
       /\ pc[c] = "open" /\ pc'[c] = "open"
       /\ holds_lock(txn_id[c], k)
       /\ tree'[k] # tree[k]
       => call[c] # NoCall /\ call[c].key = k /\ call'[c] = NoCall
<1>1. ASSUME IInv, Next PROVE Step
  <2> SUFFICES ASSUME NEW c \in Conn, NEW k \in Key, db = "up", db' = "up",
                      pc[c] = "open", pc'[c] = "open", holds_lock(txn_id[c], k),
                      tree'[k] # tree[k]
               PROVE  call[c] # NoCall /\ call[c].key = k /\ call'[c] = NoCall
    BY Zenon
  <2>1. PICK d \in Conn :
          /\ pc[d] = "open" /\ holds_exclusive(txn_id[d], k)
          /\ \/ call[d] # NoCall /\ call[d].key = k /\ call'[d] = NoCall /\ pc' = pc
             \/ pc' = [pc EXCEPT ![d] = "append_abort"]
    BY Zenon, <1>1, ChangesAreOwned DEF IInv
  <2>2. c = d
    <3>1. TypeOK /\ LockInv /\ Sessions
      BY Zenon, <1>1 DEF IInv
    <3> QED BY Zenon, <2>1, <3>1, SoleOwner
  <2> QED BY Zenon, <1>1, <2>1, <2>2 DEF IInv, TypeOK
<1>2. IInv /\ [Next]_vars => [Step]_vars
  BY Zenon, <1>1
<1> QED BY <1>2, SpecInv, PTL DEF Spec, RepeatableReads
=============================================================================
