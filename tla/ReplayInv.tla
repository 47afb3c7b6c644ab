----------------------------- MODULE ReplayInv ------------------------------
(***************************************************************************)
(* Why recovery restores what was committed.  Replaying a log is a fold    *)
(* over it; the invariant states its result position by position instead:  *)
(* what the last live record of a key says, and what a before-image in the *)
(* log must be equal to.                                                   *)
(***************************************************************************)
EXTENDS KeyVDB

WritesOf(k) == {i \in DOMAIN wal : IsWriteOf(wal[i], k)}

InLog(type, t) == \E e \in DOMAIN wal : wal[e].type = type /\ wal[e].txn = t

IsCommitted(t) == InLog("COMMIT", t)

IsAborted(t)   == InLog("ABORT", t)

IsEnded(t)     == IsCommitted(t) \/ IsAborted(t)

IsSynced(t)    == \E e \in 1 .. wal_synced : wal[e].type = "COMMIT" /\ wal[e].txn = t

-----------------------------------------------------------------------------
(* A transaction writes nothing after its COMMIT or ABORT record.          *)
EndIsLast ==
  \A i, j \in DOMAIN wal :
    wal[i].type \in {"COMMIT", "ABORT"} /\ wal[j].txn = wal[i].txn => j <= i

(* Its BEGIN record precedes what it writes.                               *)
Begun ==
  \A i \in DOMAIN wal : IsWrite(wal[i]) =>
    \E b \in DOMAIN wal : b < i /\ wal[b].type = "BEGIN" /\ wal[b].txn = wal[i].txn

(* It keeps one before-image of a key, that of its first write.            *)
OneBefore ==
  \A k \in Key : \A i, j \in WritesOf(k) :
    wal[i].txn = wal[j].txn => wal[i].before = wal[j].before

(* The writers of a key come one after the other, since each holds the key *)
(* to its end: a writer has its end in the log before the next one writes, *)
(* and a COMMIT is synced by then.                                         *)
EndedBetween(i, j) ==
  \E e \in DOMAIN wal : /\ i < e /\ e < j /\ wal[e].txn = wal[i].txn
                        /\ wal[e].type \in {"COMMIT", "ABORT"}

InTurn ==
  \A k \in Key : \A i, j \in WritesOf(k) :
    i < j /\ wal[i].txn # wal[j].txn =>
      EndedBetween(i, j) /\ (IsAborted(wal[i].txn) \/ IsSynced(wal[i].txn))

LogOrder == EndIsLast /\ Begun /\ OneBefore /\ InTurn

(* b is what the writes in S leave to a reader: the after-image of the     *)
(* last committed one (which redo refuses where it is oversize), or, where *)
(* none is committed, the before-image that they share.                    *)
IsLastCommitted(i, S) ==
  IsCommitted(wal[i].txn) /\ \A m \in S : IsCommitted(wal[m].txn) => m <= i

NewestIs(S, b) == \A i \in S : IsLastCommitted(i, S) => wal[i].after \in Oversize \cup {b}

OldestIs(S, b) == (\A i \in S : ~IsCommitted(wal[i].txn)) => \A i \in S : wal[i].before = b

(* A before-image is what the writers before it have left.                 *)
Earlier(k, j) == {i \in WritesOf(k) : i < j /\ wal[i].txn # wal[j].txn}

Chain ==
  \A k \in Key : \A j \in WritesOf(k) :
    NewestIs(Earlier(k, j), wal[j].before) /\ OldestIs(Earlier(k, j), wal[j].before)

(* The committed value is what all the writers in the log leave.           *)
History ==
  \A k \in Key :
    /\ NewestIs(WritesOf(k), Encode(committed[k]))
    /\ residue[k] = "none" => OldestIs(WritesOf(k), Encode(committed[k]))

(* While the database serves, the tree has that too, save where a writer   *)
(* is unfinished, whose before-image is then the committed value.          *)
Unfinished(k) == {i \in WritesOf(k) : ~IsEnded(wal[i].txn)}

Serving ==
  db = "up" => \A k \in Key :
    /\ Unfinished(k) = {} =>
         /\ NewestIs(WritesOf(k), Encode(tree[k]))
         /\ OldestIs(WritesOf(k), Encode(tree[k]))
         /\ residue[k] = "none" => tree[k] = committed[k]
    /\ residue[k] = "none" =>
         \A i \in Unfinished(k) : wal[i].before = Encode(committed[k])

(* A writer holds its key, or it is aborted, or its COMMIT is synced.      *)
Held ==
  db = "up" => \A k \in Key : \A i \in WritesOf(k) :
    holds_exclusive(wal[i].txn, k) \/ IsAborted(wal[i].txn) \/ IsSynced(wal[i].txn)

(* What a thread's Transaction knows of its own records.                   *)
OwnRecords(c) ==
  /\ InLog("BEGIN", txn_id[c])
  /\ \A k \in Key :
       k \in Touched(c) <=> \E i \in WritesOf(k) : wal[i].txn = txn_id[c]
  /\ \A k \in Key : \A i \in WritesOf(k) : wal[i].txn = txn_id[c] =>
       /\ wal[i].before = Encode(write_set[c][k])
       /\ pc[c] = "open" /\ (\A m \in WritesOf(k) : wal[m].txn = txn_id[c] => m <= i) =>
            wal[i].after \in Oversize \cup {Encode(tree[k])}
       /\ pc[c] = "append_abort" => tree[k] = write_set[c][k]
  /\ pc[c] \in {"open", "append_abort"} => ~IsEnded(txn_id[c])
  /\ pc[c] = "release_abort" => IsAborted(txn_id[c])

Owners == \A c \in Conn : pc[c] # "idle" => OwnRecords(c)

(* A key without a record is on the device as committed.                   *)
Settled(k) == tree[k] = committed[k] /\ disk[k] = committed[k] /\ synced[k] = committed[k]

Untouched == \A k \in Key : WritesOf(k) = {} /\ residue[k] = "none" => Settled(k)

(* Redo and undo, position by position.                                    *)
Live(k) == {i \in WritesOf(k) : ~IsAborted(wal[i].txn)}

Redone ==
  \A k \in Key : \A i \in Live(k) : i < rpos =>
    /\ wal[i].after \notin Oversize
    /\ (\A m \in Live(k) : m < rpos => m <= i) => wal[i].after = Encode(tree[k])

Undone ==
  \A k \in Key :
    /\ \A i \in Live(k) : wal[i].after \notin Oversize
    /\ \A i \in Unfinished(k) : i > rpos => wal[i].before = Encode(tree[k])
    /\ (\A i \in Unfinished(k) : i <= rpos) =>
         \A i \in Live(k) : (\A m \in Live(k) : m <= i) => wal[i].after = Encode(tree[k])

(* A failure leaves a record to replay, or the file as committed.          *)
Restorable(k) == Live(k) # {} \/ (tree[k] = committed[k] /\ disk[k] = committed[k])

Recovering ==
  /\ db # "up" => \A k \in Key : WritesOf(k) # {} /\ residue[k] = "none" => Restorable(k)
  /\ db = "redo" => Redone
  /\ db = "undo" => Undone
  /\ db = "truncate" => \A k \in Key : residue[k] = "none" => Settled(k)

(* Together: Open may run at any moment, also after a failure during an    *)
(* earlier Open, and what redo and undo have done so far, or will find in  *)
(* the log, gives back the committed value of every key that recovery can  *)
(* restore.                                                                *)
RInv == LogOrder /\ Chain /\ History /\ Serving /\ Held /\ Owners /\ Untouched /\ Recovering
=============================================================================
