----------------------------- MODULE LogProofs ------------------------------
(***************************************************************************)
(* The invariant of the transactional core, and what the proofs about it   *)
(* and about recovery share: what the records of the log are, and which of *)
(* them a failure can damage.                                              *)
(***************************************************************************)
EXTENDS ReplayInv, LockTableProofs

(* Some steps carry many definitions: the solver gets the time they need.  *)
USE SMTT(60)

(* A thread inside a transaction runs in a serving process and has a       *)
(* transaction id of its own, below the next one.                          *)
Sessions ==
  \A c \in Conn :
    /\ pc[c] = "idle" <=> txn_id[c] = NoTxn
    /\ pc[c] = "idle" => write_set[c] = Blank
    /\ pc[c] # "idle" => db = "up" /\ txn_id[c] < next_txn_id
    /\ call[c] # NoCall => pc[c] = "open"
    /\ \A d \in Conn : pc[c] # "idle" /\ txn_id[c] = txn_id[d] => c = d

(* The lock an operation was granted is still held when it runs, and every *)
(* key in a write set is locked exclusively.                               *)
Owned ==
  \A c \in Conn :
    /\ call[c] # NoCall => holds_lock(txn_id[c], call[c].key)
    /\ call[c].op \in {"Put", "Delete"} => holds_exclusive(txn_id[c], call[c].key)
    /\ \A k \in Touched(c) : holds_exclusive(txn_id[c], k)

LoggedUpTo(t, n) == \E i \in 1 .. n : wal[i] = [type |-> "COMMIT", txn |-> t]

(* The COMMIT record of a committing transaction: in the log, then synced. *)
Logged ==
  /\ \A c \in Conn :
       /\ pc[c] = "wal_flush" => LoggedUpTo(txn_id[c], Len(wal))
       /\ pc[c] \in {"page_flush", "release"} => LoggedUpTo(txn_id[c], wal_synced)
  /\ AckedIsDurable

(* What a committing transaction wrote stays in the tree until it lets go. *)
Forced ==
  /\ \A c \in Conn : pc[c] \in {"wal_flush", "page_flush", "release"} =>
       \A k \in Touched(c) : tree[k] = committed[k]
  /\ ForceAtCommit

(* The ids in the log are below the next one, so that Begin's is new.      *)
FreshIds == \A i \in DOMAIN wal : wal[i].txn < next_txn_id

(* Redo and undo look at a record of the log.                              *)
Position ==
  /\ db = "redo" => rpos \in 1 .. Len(wal) + 1
  /\ db = "undo" => rpos \in 0 .. Len(wal)

IInv == TypeOK /\ LockInv /\ FreshIds /\ Position /\ Sessions /\ Owned /\ Logged /\ Forced

-----------------------------------------------------------------------------
(***************************************************************************)
(* Records and calls.                                                      *)
(***************************************************************************)
(* A call is never the record that stands for none.                        *)
LEMMA CallIsSome ==
  ASSUME TypeOK, NEW c \in Conn
  PROVE  /\ call[c].op \in {"Get", "Put", "Delete"} => call[c] # NoCall
         /\ call[c].op = "Put" => call[c].value \in Value
         /\ call[c] # NoCall => call[c] \in Call /\ call[c].key \in Key
<1>1. call[c] \in Call \/ call[c] = NoCall
  BY DEF TypeOK
<1>2. CASE call[c] \in Call
  BY <1>2 DEF Call, NoCall
<1>3. CASE call[c] = NoCall
  BY <1>3 DEF NoCall
<1> QED BY <1>1, <1>2, <1>3

(* The first write of a key keeps the value found; later ones keep that.   *)
LEMMA FirstBeforeType ==
  ASSUME TypeOK, NEW c \in Conn, NEW k \in Key
  PROVE  /\ FirstBefore(c, k) \in [Conn -> [Key -> Stored \cup {NotWritten}]]
         /\ FirstBefore(c, k)[c][k] \in Stored
         /\ \A d \in Conn, l \in Key : d # c \/ l # k => FirstBefore(c, k)[d][l] = write_set[d][l]
  BY DEF FirstBefore, TypeOK

(* Values and the bytes of a record.                                       *)
LEMMA CodecType ==
  /\ \A v \in Stored : Encode(v) \in Bytes
  /\ \A b \in Bytes : Decode(b) \in Stored
  BY DEF Encode, Decode, Stored, Bytes

(* A WRITE record read back has a key and two byte strings.                *)
LEMMA WriteRecordType ==
  ASSUME NEW r \in LogRecord, IsWrite(r)
  PROVE  r.key \in Key /\ r.before \in Bytes /\ r.after \in Bytes /\ r.txn \in TxnId
  BY DEF LogRecord, IsWrite

(* Where a record goes, whatever it is.                                    *)
LEMMA AppendShape ==
  ASSUME TypeOK, NEW r, Append1(r)
  PROVE  /\ Len(wal) \in Nat /\ DOMAIN wal = 1 .. Len(wal)
         /\ Len(wal') = Len(wal) + 1 /\ DOMAIN wal' = 1 .. Len(wal) + 1
         /\ \A i \in 1 .. Len(wal) : wal'[i] = wal[i]
         /\ wal'[Len(wal) + 1] = r
  BY DEF TypeOK, Append1

(* A write appends one WRITE record, with the before-image that is in the  *)
(* write set.                                                              *)
IsRecordOf(r, c, after) ==
  /\ Append1(r) /\ IsWriteOf(r, call[c].key) /\ r.type # "TORN" /\ r.txn = txn_id[c]
  /\ r.before = Encode(write_set'[c][call[c].key]) /\ r.after = after

LEMMA PutAppends ==
  ASSUME NEW c \in Conn, put_locked(c)
  PROVE  \E r : IsRecordOf(r, c, call[c].value)
<1> DEFINE r == [type |-> "WRITE", txn |-> txn_id[c], key |-> call[c].key,
                 before |-> Encode(write_set'[c][call[c].key]), after |-> call[c].value]
<1>1. Append1(r)
  BY Zenon DEF put_locked
<1>2. /\ r.type = "WRITE" /\ r.txn = txn_id[c] /\ r.key = call[c].key
      /\ r.before = Encode(write_set'[c][call[c].key]) /\ r.after = call[c].value
  OBVIOUS
<1> HIDE DEF r
<1>3. IsRecordOf(r, c, call[c].value)
  BY <1>1, <1>2 DEF IsRecordOf, IsWriteOf, IsWrite
<1> QED BY Zenon, <1>3

LEMMA DeleteAppends ==
  ASSUME NEW c \in Conn, delete_locked(c), tree[call[c].key] # Absent
  PROVE  \E r : IsRecordOf(r, c, Empty)
<1> DEFINE r == [type |-> "WRITE", txn |-> txn_id[c], key |-> call[c].key,
                 before |-> Encode(write_set'[c][call[c].key]), after |-> Empty]
<1>1. Append1(r)
  BY Zenon DEF delete_locked
<1>2. /\ r.type = "WRITE" /\ r.txn = txn_id[c] /\ r.key = call[c].key
      /\ r.before = Encode(write_set'[c][call[c].key]) /\ r.after = Empty
  OBVIOUS
<1> HIDE DEF r
<1>3. IsRecordOf(r, c, Empty)
  BY <1>1, <1>2 DEF IsRecordOf, IsWriteOf, IsWrite
<1> QED BY Zenon, <1>3

(* What a power failure leaves of the log: a prefix that has all that was  *)
(* synced, and perhaps the header of the record after it.                  *)
LEMMA PowerLossLog ==
  ASSUME TypeOK, PowerLoss
  PROVE  /\ wal' \in Seq(LogRecord)
         /\ Len(wal') \in Nat /\ wal_synced <= Len(wal')
         /\ \A i \in 1 .. wal_synced : wal'[i] = wal[i]
         /\ \A i \in DOMAIN wal' :
              /\ i \in DOMAIN wal /\ wal'[i].txn = wal[i].txn
              /\ i <= wal_synced \/ wal'[i].type # "TORN" => wal'[i] = wal[i]
<1>1. PICK n \in wal_synced .. Len(wal) :
        \/ wal' = SubSeq(wal, 1, n)
        \/ n < Len(wal) /\ wal' = Torn(n)
  BY Zenon DEF PowerLoss
<1>2. /\ wal \in Seq(LogRecord) /\ Len(wal) \in Nat /\ DOMAIN wal = 1 .. Len(wal)
      /\ n \in Nat /\ wal_synced \in Nat /\ wal_synced <= n /\ n <= Len(wal)
  BY DEF TypeOK
<1> DEFINE s == SubSeq(wal, 1, n)
<1>3. s \in Seq(LogRecord) /\ Len(s) = n /\ \A i \in 1 .. n : s[i] = wal[i]
  BY <1>2
<1>4. CASE wal' = s
  <2> HIDE DEF s
  <2> QED BY <1>2, <1>3, <1>4
<1>5. CASE n < Len(wal) /\ wal' = Torn(n)
  <2> DEFINE r == [type |-> "TORN", txn |-> wal[n + 1].txn]
  <2>1. n + 1 \in DOMAIN wal
    BY <1>2, <1>5
  <2>2. wal[n + 1] \in LogRecord
    BY <1>2, <2>1
  <2>3. r \in LogRecord /\ r.txn = wal[n + 1].txn
    BY <2>2 DEF LogRecord
  <2>4. wal' = s \o <<r>>
    BY <1>5 DEF Torn
  <2> HIDE DEF s, r
  <2>5. /\ wal' \in Seq(LogRecord) /\ Len(wal') = n + 1
        /\ \A i \in 1 .. n : wal'[i] = s[i]
        /\ wal'[n + 1] = r
    BY <1>2, <1>3, <2>3, <2>4
  <2>6. r.type = "TORN"
    BY DEF r
  <2>7. ASSUME NEW i \in 1 .. n + 1
        PROVE  /\ wal'[i].txn = wal[i].txn
               /\ i <= wal_synced \/ wal'[i].type # "TORN" => wal'[i] = wal[i]
    <3>1. CASE i \in 1 .. n
      BY <1>3, <2>5, <3>1
    <3>2. CASE i = n + 1
      BY <1>2, <2>3, <2>5, <2>6, <3>2
    <3> QED BY <1>2, <3>1, <3>2
  <2> QED BY <1>2, <1>3, <2>1, <2>5, <2>7
<1> QED BY <1>1, <1>4, <1>5

-----------------------------------------------------------------------------
(***************************************************************************)
(* The log, position by position.                                          *)
(***************************************************************************)
(* Positions in the log are naturals, and its WRITE records are typed.     *)
LEMMA Positions ==
  ASSUME TypeOK
  PROVE  /\ Len(wal) \in Nat /\ DOMAIN wal = 1 .. Len(wal) /\ wal_synced \in 0 .. Len(wal)
         /\ \A i \in DOMAIN wal : i \in Nat /\ wal[i] \in LogRecord /\ wal[i].txn \in TxnId
         /\ \A k \in Key : \A i \in WritesOf(k) :
              /\ i \in DOMAIN wal /\ i \in Nat /\ wal[i].txn \in TxnId
              /\ wal[i].before \in Bytes /\ wal[i].after \in Bytes
              /\ wal[i].type = "WRITE" /\ wal[i].key = k
<1>1. /\ Len(wal) \in Nat /\ DOMAIN wal = 1 .. Len(wal) /\ wal_synced \in 0 .. Len(wal)
      /\ \A i \in DOMAIN wal : wal[i] \in LogRecord
  BY DEF TypeOK
<1>2. \A i \in DOMAIN wal : i \in Nat /\ wal[i].txn \in TxnId
  BY <1>1 DEF LogRecord
<1>3. ASSUME NEW k \in Key, NEW i \in WritesOf(k)
      PROVE  /\ i \in DOMAIN wal /\ wal[i].before \in Bytes /\ wal[i].after \in Bytes
             /\ wal[i].type = "WRITE" /\ wal[i].key = k
  <2>1. i \in DOMAIN wal /\ IsWrite(wal[i]) /\ wal[i].type = "WRITE" /\ wal[i].key = k
    BY DEF WritesOf, IsWriteOf, IsWrite
  <2> QED BY <1>1, <2>1, WriteRecordType
<1> QED BY <1>1, <1>2, <1>3

(* A synced COMMIT is a COMMIT.                                            *)
LEMMA SyncedIsCommitted ==
  ASSUME TypeOK, NEW t, IsSynced(t)
  PROVE  IsCommitted(t)
  BY Positions DEF IsSynced, IsCommitted, InLog

(* Encode keeps stored values apart where the empty string is not one.     *)
LEMMA Codec ==
  ASSUME Empty \notin Value
  PROVE  /\ \A u, v \in Stored : Encode(u) = Encode(v) => u = v
         /\ \A b \in Bytes : Encode(Decode(b)) = b
  BY ValueAssumption DEF Encode, Decode, Stored, Bytes

(* Where neither a record nor its writer's fate changes, NewestIs and      *)
(* OldestIs say the same after the step.                                   *)
LEMMA SameImages ==
  ASSUME NEW S, NEW b,
         \A i \in S : /\ wal'[i] = wal[i]
                      /\ IsCommitted(wal[i].txn)' <=> IsCommitted(wal[i].txn)
  PROVE  /\ NewestIs(S, b)' <=> NewestIs(S, b)
         /\ OldestIs(S, b)' <=> OldestIs(S, b)
<1>1. \A i \in S : wal'[i].txn = wal[i].txn
  OBVIOUS
<1>2. \A i \in S : IsLastCommitted(i, S)' <=> IsLastCommitted(i, S)
  BY DEF IsLastCommitted
<1> QED BY <1>2 DEF NewestIs, OldestIs

(* Where the log is left alone, so is all that is said of its records.     *)
LEMMA SameLog ==
  ASSUME wal' = wal
  PROVE  /\ \A k : WritesOf(k)' = WritesOf(k) /\ Unfinished(k)' = Unfinished(k) /\ Live(k)' = Live(k)
         /\ \A s, t : InLog(s, t)' <=> InLog(s, t)
         /\ \A S, b : (NewestIs(S, b)' <=> NewestIs(S, b)) /\ (OldestIs(S, b)' <=> OldestIs(S, b))
<1>1. /\ \A k : WritesOf(k)' = WritesOf(k) /\ Unfinished(k)' = Unfinished(k) /\ Live(k)' = Live(k)
      /\ \A s, t : InLog(s, t)' <=> InLog(s, t)
  BY DEF WritesOf, Unfinished, Live, IsEnded, IsCommitted, IsAborted, InLog
<1>2. \A t : IsCommitted(t)' <=> IsCommitted(t)
  BY <1>1 DEF IsCommitted
<1> QED BY <1>1, <1>2, SameImages

(* A step that leaves the log alone.                                       *)
LEMMA LogKept ==
  ASSUME TypeOK, TypeOK', LogOrder, Chain, wal' = wal, wal_synced <= wal_synced'
  PROVE  /\ LogOrder' /\ Chain'
         /\ \A t : IsSynced(t) => IsSynced(t)'
<1>1. \A t : IsSynced(t) => IsSynced(t)'
  BY DEF TypeOK, IsSynced
<1>2. EndIsLast' /\ Begun' /\ OneBefore'
  BY DEF LogOrder, EndIsLast, Begun, OneBefore, WritesOf
<1>3. InTurn'
  BY <1>1 DEF LogOrder, InTurn, EndedBetween, WritesOf, IsAborted, InLog
<1>4. Chain'
  BY DEF Chain, NewestIs, OldestIs, IsLastCommitted, Earlier, WritesOf, IsCommitted, InLog
<1> QED BY <1>1, <1>2, <1>3, <1>4 DEF LogOrder

(* A transaction has one end.                                              *)
LEMMA OneEnd ==
  ASSUME TypeOK, EndIsLast, NEW t
  PROVE  ~(IsCommitted(t) /\ IsAborted(t))
<1> SUFFICES ASSUME IsCommitted(t), IsAborted(t) PROVE FALSE
  OBVIOUS
<1>1. PICK d \in DOMAIN wal : wal[d].type = "COMMIT" /\ wal[d].txn = t
  BY DEF IsCommitted, InLog
<1>2. PICK e \in DOMAIN wal : wal[e].type = "ABORT" /\ wal[e].txn = t
  BY DEF IsAborted, InLog
<1>3. d <= e /\ e <= d
  BY <1>1, <1>2 DEF EndIsLast
<1> QED BY <1>1, <1>2, <1>3, Positions
=============================================================================
