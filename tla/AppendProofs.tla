---------------------------- MODULE AppendProofs ----------------------------
(***************************************************************************)
(* The steps of a thread that append a record preserve the invariant of    *)
(* replay.                                                                 *)
(***************************************************************************)
EXTENDS LogProofs

(* Some steps carry many definitions: the solver gets the time they need.  *)
USE SMTT(60)

(* A record r is appended at position n.                                   *)
AppendsAt(r, n) ==
  /\ n \in Nat /\ n \notin DOMAIN wal /\ DOMAIN wal' = DOMAIN wal \cup {n} /\ wal'[n] = r
  /\ \A i \in DOMAIN wal : i < n /\ wal'[i] = wal[i]
  /\ wal_synced' = wal_synced

LEMMA AppendHas ==
  ASSUME TypeOK, NEW r, Append1(r), wal_synced' = wal_synced
  PROVE  \E n : AppendsAt(r, n)
<1>2. \A m \in Nat : /\ m + 1 \in Nat /\ m + 1 \notin 1 .. m /\ 1 .. m + 1 = (1 .. m) \cup {m + 1}
                      /\ \A i \in 1 .. m : i < m + 1
  OBVIOUS
<1>1. AppendsAt(r, Len(wal) + 1)
  BY Zenon, <1>2, AppendShape DEF AppendsAt
<1> QED BY Zenon, <1>1

(* What it adds to the writes and to the ends.                             *)
LEMMA AppendAdds ==
  ASSUME TypeOK, NEW r, NEW n, AppendsAt(r, n)
  PROVE  /\ \A k \in Key :
              WritesOf(k)' = IF IsWriteOf(r, k) THEN WritesOf(k) \cup {n} ELSE WritesOf(k)
         /\ \A s, t : InLog(s, t)' <=> InLog(s, t) \/ (r.type = s /\ r.txn = t)
         /\ \A t : IsSynced(t)' <=> IsSynced(t)
<1>1. ASSUME NEW k \in Key
      PROVE  WritesOf(k)' = IF IsWriteOf(r, k) THEN WritesOf(k) \cup {n} ELSE WritesOf(k)
  BY Zenon DEF AppendsAt, WritesOf
<1>2. ASSUME NEW s, NEW t
      PROVE  InLog(s, t)' <=> InLog(s, t) \/ (r.type = s /\ r.txn = t)
  BY Zenon DEF AppendsAt, InLog
<1>3. \A e \in 1 .. wal_synced : e \in DOMAIN wal
  BY Positions
<1>4. \A t : IsSynced(t)' <=> IsSynced(t)
  BY Zenon, <1>3 DEF AppendsAt, IsSynced
<1> QED BY Zenon, <1>1, <1>2, <1>4

(* The log stays in order when a record is appended by a transaction that  *)
(* has not ended, and a WRITE only by one that has begun, after the other  *)
(* writers of the key have ended.                                          *)
Others(r, k) == {i \in WritesOf(k) : wal[i].txn # r.txn}

MayAppend(r) ==
  /\ ~IsEnded(r.txn)
  /\ IsWrite(r) =>
       /\ InLog("BEGIN", r.txn)
       /\ \A i \in WritesOf(r.key) :
            /\ wal[i].txn = r.txn => wal[i].before = r.before
            /\ wal[i].txn # r.txn => IsAborted(wal[i].txn) \/ IsSynced(wal[i].txn)
       /\ NewestIs(Others(r, r.key), r.before) /\ OldestIs(Others(r, r.key), r.before)

LEMMA OrderAppend ==
  ASSUME TypeOK, LogOrder, NEW r, NEW n, AppendsAt(r, n), MayAppend(r)
  PROVE  LogOrder'
<1>1. /\ n \in Nat /\ n \notin DOMAIN wal /\ DOMAIN wal' = DOMAIN wal \cup {n} /\ wal'[n] = r
      /\ \A i \in DOMAIN wal : i \in Nat /\ i < n /\ wal'[i] = wal[i]
  BY Zenon, Positions DEF AppendsAt
<1>2. \A i \in DOMAIN wal : wal[i].type \in {"COMMIT", "ABORT"} => wal[i].txn # r.txn
  BY Zenon DEF MayAppend, IsEnded, IsCommitted, IsAborted, InLog
<1>3. EndIsLast'
  BY <1>1, <1>2 DEF EndIsLast, LogOrder
<1>4. Begun'
  <2> SUFFICES ASSUME NEW i \in DOMAIN wal', IsWrite(wal'[i])
               PROVE  \E b \in DOMAIN wal' : b < i /\ wal'[b].type = "BEGIN" /\ wal'[b].txn = wal'[i].txn
    BY Zenon DEF Begun
  <2>1. CASE i \in DOMAIN wal
    BY <1>1, <2>1 DEF Begun, LogOrder
  <2>2. CASE i = n
    BY Zenon, <1>1, <2>2 DEF MayAppend, InLog
  <2> QED BY Zenon, <1>1, <2>1, <2>2
<1>5. ASSUME NEW k \in Key, NEW i \in WritesOf(k)'
      PROVE  \/ i \in WritesOf(k) /\ i \in DOMAIN wal
             \/ i = n /\ IsWrite(r) /\ r.key = k
  BY AppendAdds DEF WritesOf, IsWriteOf
<1>6. OneBefore'
  <2> SUFFICES ASSUME NEW k \in Key, NEW i \in WritesOf(k)', NEW j \in WritesOf(k)',
                      wal'[i].txn = wal'[j].txn
               PROVE  wal'[i].before = wal'[j].before
    BY Zenon DEF OneBefore
  <2> QED BY <1>1, <1>5 DEF OneBefore, LogOrder, MayAppend
<1>7. InTurn'
  <2> SUFFICES ASSUME NEW k \in Key, NEW i \in WritesOf(k)', NEW j \in WritesOf(k)',
                      i < j, wal'[i].txn # wal'[j].txn
               PROVE  EndedBetween(i, j)' /\ (IsAborted(wal[i].txn)' \/ IsSynced(wal[i].txn)')
    BY Zenon DEF InTurn
  <2>1. i \in WritesOf(k) /\ i \in DOMAIN wal /\ wal'[i] = wal[i]
    BY <1>1, <1>5
  <2>2. ASSUME IsAborted(wal[i].txn) \/ IsSynced(wal[i].txn)
        PROVE  IsAborted(wal[i].txn)' \/ IsSynced(wal[i].txn)'
    BY Zenon, <2>1, <2>2, AppendAdds DEF IsAborted
  <2>3. CASE j \in WritesOf(k)
    <3>1. EndedBetween(i, j) /\ (IsAborted(wal[i].txn) \/ IsSynced(wal[i].txn)) /\ j \in DOMAIN wal
      BY Zenon, <1>1, <2>1, <2>3 DEF LogOrder, InTurn, WritesOf
    <3>2. EndedBetween(i, j)'
      BY Zenon, <1>1, <2>1, <3>1 DEF EndedBetween
    <3> QED BY Zenon, <2>2, <3>1, <3>2
  <2>4. CASE j = n /\ IsWrite(r) /\ r.key = k
    <3>1. IsAborted(wal[i].txn) \/ IsSynced(wal[i].txn)
      BY Zenon, <1>1, <2>1, <2>4 DEF MayAppend
    <3>2. PICK e \in DOMAIN wal : wal[e].type \in {"COMMIT", "ABORT"} /\ wal[e].txn = wal[i].txn
      BY Zenon, <3>1, SyncedIsCommitted DEF IsAborted, IsCommitted, InLog
    <3>3. i <= e /\ i # e
      BY Zenon, <2>1, <3>2, Positions DEF LogOrder, EndIsLast
    <3>4. i < e /\ e < n
      BY <1>1, <2>1, <3>2, <3>3
    <3>5. EndedBetween(i, j)'
      BY Zenon, <1>1, <2>1, <2>4, <3>2, <3>4 DEF EndedBetween
    <3> QED BY Zenon, <2>2, <3>1, <3>5
  <2> QED BY Zenon, <1>5, <2>3, <2>4
<1> QED BY Zenon, <1>3, <1>4, <1>6, <1>7 DEF LogOrder

(* So does the chain: no before-image in the log rests on the transaction  *)
(* that ends, and a new one is what the others have left.                  *)
LEMMA ChainAppend ==
  ASSUME TypeOK, LogOrder, Chain, NEW r, NEW n, AppendsAt(r, n), MayAppend(r)
  PROVE  Chain'
<1>1. /\ n \in Nat /\ n \notin DOMAIN wal /\ wal'[n] = r
      /\ \A i \in DOMAIN wal : i \in Nat /\ i < n /\ wal'[i] = wal[i]
  BY Zenon, Positions DEF AppendsAt
<1>2. \A t : t # r.txn => (IsCommitted(t)' <=> IsCommitted(t))
  BY Zenon, AppendAdds DEF IsCommitted
<1> SUFFICES ASSUME NEW k \in Key, NEW j \in WritesOf(k)'
             PROVE  (NewestIs(Earlier(k, j), wal[j].before) /\ OldestIs(Earlier(k, j), wal[j].before))'
  BY Zenon DEF Chain
<1>3. \A i \in WritesOf(k) : i \in DOMAIN wal
  BY Zenon DEF WritesOf
<1>4. CASE j \in WritesOf(k)
  <2>0. PICK S : S = Earlier(k, j)
    BY Zenon
  <2>1. Earlier(k, j)' = S
    <3>1. j \in DOMAIN wal /\ ~(n < j)
      BY <1>1, <1>3, <1>4
    <3> QED BY <1>1, <1>3, <2>0, <3>1, AppendAdds DEF Earlier
  <2>2. ASSUME NEW i \in S
        PROVE  wal'[i] = wal[i] /\ wal[i].txn # r.txn
    <3>1. i \in WritesOf(k) /\ i < j /\ wal[i].txn # wal[j].txn
      BY Zenon, <2>0 DEF Earlier
    <3>2. EndedBetween(i, j)
      BY Zenon, <1>4, <3>1 DEF LogOrder, InTurn
    <3>3. IsEnded(wal[i].txn)
      BY Zenon, <3>2 DEF EndedBetween, IsEnded, IsCommitted, IsAborted, InLog
    <3> QED BY Zenon, <1>1, <1>3, <3>1, <3>3 DEF MayAppend
  <2>3. NewestIs(S, wal[j].before) /\ OldestIs(S, wal[j].before) /\ wal'[j] = wal[j]
    BY Zenon, <1>1, <1>3, <1>4, <2>0 DEF Chain
  <2>4. \A i \in S : wal'[i] = wal[i] /\ (IsCommitted(wal[i].txn)' <=> IsCommitted(wal[i].txn))
    BY Zenon, <1>2, <2>2
  <2>5. \A b : (NewestIs(S, b)' <=> NewestIs(S, b)) /\ (OldestIs(S, b)' <=> OldestIs(S, b))
    BY Zenon, <2>4, SameImages
  <2> QED BY Zenon, <2>1, <2>3, <2>5
<1>5. CASE j \notin WritesOf(k)
  <2>1. j = n /\ IsWrite(r) /\ r.key = k
    BY <1>5, AppendAdds DEF IsWriteOf
  <2>0. PICK S : S = Others(r, k)
    BY Zenon
  <2>2. Earlier(k, j)' = S
    BY <1>1, <1>3, <2>0, <2>1, AppendAdds DEF Earlier, Others, IsWriteOf
  <2>3. \A i \in S : wal'[i] = wal[i] /\ wal[i].txn # r.txn
    BY Zenon, <1>1, <1>3, <2>0 DEF Others
  <2>4. NewestIs(S, r.before) /\ OldestIs(S, r.before)
    BY Zenon, <2>0, <2>1 DEF MayAppend
  <2>5. \A i \in S : wal'[i] = wal[i] /\ (IsCommitted(wal[i].txn)' <=> IsCommitted(wal[i].txn))
    BY Zenon, <1>2, <2>3
  <2>6. \A b : (NewestIs(S, b)' <=> NewestIs(S, b)) /\ (OldestIs(S, b)' <=> OldestIs(S, b))
    BY Zenon, <2>5, SameImages
  <2> QED BY Zenon, <1>1, <2>1, <2>2, <2>4, <2>6
<1> QED BY Zenon, <1>4, <1>5

(* A key on which no writer's fate changes.                                *)
LEMMA SameWriters ==
  ASSUME NEW k \in Key, WritesOf(k)' = WritesOf(k),
         \A i \in WritesOf(k) :
           /\ wal'[i] = wal[i]
           /\ IsCommitted(wal[i].txn)' <=> IsCommitted(wal[i].txn)
           /\ IsAborted(wal[i].txn)' <=> IsAborted(wal[i].txn)
  PROVE  /\ \A b : NewestIs(WritesOf(k), b)' <=> NewestIs(WritesOf(k), b)
         /\ \A b : OldestIs(WritesOf(k), b)' <=> OldestIs(WritesOf(k), b)
         /\ Unfinished(k)' = Unfinished(k)
<1>1. PICK S : S = WritesOf(k)
  BY Zenon
<1>2. \A b : (NewestIs(S, b)' <=> NewestIs(S, b)) /\ (OldestIs(S, b)' <=> OldestIs(S, b))
  BY Zenon, <1>1, SameImages
<1>3. Unfinished(k)' = Unfinished(k)
  BY Zenon DEF Unfinished, IsEnded
<1> QED BY Zenon, <1>1, <1>2, <1>3

-----------------------------------------------------------------------------
(* Begin: a record of a transaction of which there is none in the log.     *)
LEMMA BeginKeeps ==
  ASSUME IInv, IInv', RInv, NEW c \in Conn, Begin(c)
  PROVE  RInv'
<1> DEFINE t == next_txn_id
           r == [type |-> "BEGIN", txn |-> t]
<1>1. TypeOK /\ db = "up" /\ pc[c] = "idle" /\ Append1(r)
  BY Zenon DEF IInv, Begin
<1>2. /\ UNCHANGED <<exclusive_holder, committed, residue, db, write_set, tree, disk, synced, wal_synced>>
      /\ pc'[c] = "open" /\ txn_id'[c] = t /\ write_set[c] = Blank
      /\ \A d \in Conn : d # c => pc'[d] = pc[d] /\ txn_id'[d] = txn_id[d]
  BY Zenon, <1>1 DEF Begin, IInv, Sessions, TypeOK, history, lockVars
<1>3. r.type = "BEGIN" /\ r.txn = t
  BY Zenon
<1> HIDE DEF r
<1>4. PICK n : AppendsAt(r, n)
  BY Zenon, <1>1, <1>2, AppendHas
<1>5. \A i \in DOMAIN wal : wal[i].txn # t
  <2>1. t \in Nat /\ \A i \in DOMAIN wal : wal[i].txn < t
    BY Zenon, <1>1 DEF IInv, FreshIds, TypeOK
  <2> QED BY <2>1
<1> HIDE DEF t
<1>6. \A s : ~InLog(s, t)
  BY Zenon, <1>5 DEF InLog
<1>7. MayAppend(r)
  BY Zenon, <1>3, <1>6 DEF MayAppend, IsEnded, IsCommitted, IsAborted, IsWrite
<1>8. LogOrder' /\ Chain'
  BY Zenon, <1>1, <1>4, <1>7, OrderAppend, ChainAppend DEF RInv
<1>9. /\ \A k \in Key : WritesOf(k)' = WritesOf(k)
      /\ \A s, u : InLog(s, u)' <=> InLog(s, u) \/ (s = "BEGIN" /\ u = t)
      /\ \A u : IsSynced(u)' <=> IsSynced(u)
  BY Zenon, <1>1, <1>3, <1>4, AppendAdds DEF IsWriteOf, IsWrite
<1>10. \A u : (IsCommitted(u)' <=> IsCommitted(u)) /\ (IsAborted(u)' <=> IsAborted(u))
  BY <1>9 DEF IsCommitted, IsAborted
<1>11. \A k \in Key : \A i \in WritesOf(k) : wal'[i] = wal[i] /\ wal[i].txn # t
  BY Zenon, <1>4, <1>5 DEF WritesOf, AppendsAt
<1>12. ASSUME NEW k \in Key
       PROVE  /\ \A b : NewestIs(WritesOf(k), b)' <=> NewestIs(WritesOf(k), b)
              /\ \A b : OldestIs(WritesOf(k), b)' <=> OldestIs(WritesOf(k), b)
              /\ Unfinished(k)' = Unfinished(k)
  BY Zenon, <1>9, <1>10, <1>11, SameWriters
<1>13. History'
  BY Zenon, <1>2, <1>12 DEF RInv, History
<1>14. Serving'
  <2>1. \A k \in Key : \A i \in Unfinished(k) : wal'[i] = wal[i]
    BY Zenon, <1>11 DEF Unfinished
  <2> QED BY <1>2, <1>12, <2>1 DEF RInv, Serving
<1>15. Held'
  BY Zenon, <1>2, <1>9, <1>10, <1>11 DEF RInv, Held, holds_exclusive
<1>16. ASSUME NEW d \in Conn, pc'[d] # "idle" PROVE OwnRecords(d)'
  <2>1. CASE d = c
    <3>1. \A k \in Key : k \notin Touched(c)'
      BY Zenon, <1>2 DEF Touched, Blank
    <3>2. \A k \in Key : \A i \in WritesOf(k)' : wal'[i].txn # txn_id'[c]
      BY Zenon, <1>2, <1>9, <1>11
    <3> QED BY Zenon, <1>2, <1>6, <1>9, <1>10, <2>1, <3>1, <3>2 DEF OwnRecords, IsEnded, IsCommitted, IsAborted
  <2>2. CASE d # c
    <3>1. OwnRecords(d) /\ pc'[d] = pc[d] /\ txn_id'[d] = txn_id[d]
      BY Zenon, <1>2, <1>16, <2>2 DEF RInv, Owners
    <3>2. Touched(d)' = Touched(d)
      BY Zenon, <1>2 DEF Touched
    <3> QED BY <1>2, <1>9, <1>10, <1>11, <3>1, <3>2 DEF OwnRecords, IsEnded
  <2> QED BY Zenon, <2>1, <2>2
<1>17. Untouched' /\ Recovering'
  BY Zenon, <1>1, <1>2, <1>9 DEF RInv, Untouched, Settled, Recovering
<1> QED BY Zenon, <1>8, <1>13, <1>14, <1>15, <1>16, <1>17 DEF RInv, Owners

(* A write: the before-image of its record is the value that committed     *)
(* transactions have left, whether it is the first of its transaction to   *)
(* the key or not, since no other writer of the key is unfinished.         *)
LEMMA WriteKeeps ==
  ASSUME IInv, IInv', RInv, NEW c \in Conn, NEW k \in Key, NEW r, NEW n,
         pc[c] = "open", holds_exclusive(txn_id[c], k),
         AppendsAt(r, n), IsWriteOf(r, k), r.txn = txn_id[c],
         write_set' = FirstBefore(c, k), r.before = Encode(write_set'[c][k]),
         r.after \in Oversize \cup {Encode(tree'[k])},
         \A l \in Key : l # k => tree'[l] = tree[l],
         UNCHANGED <<exclusive_holder, committed, residue, db, pc, txn_id, disk, synced>>
  PROVE  RInv'
<1>1. /\ TypeOK /\ Sessions /\ Owned /\ db = "up" /\ OwnRecords(c)
      /\ ~IsEnded(r.txn) /\ r.type = "WRITE" /\ r.key = k
  BY Zenon DEF IInv, Sessions, RInv, Owners, OwnRecords, IsWriteOf, IsWrite
<1>2. ASSUME NEW i \in WritesOf(k), wal[i].txn # r.txn
      PROVE  IsAborted(wal[i].txn) \/ IsSynced(wal[i].txn)
  BY Zenon, <1>1, <1>2 DEF RInv, Held, holds_exclusive
<1>3. ASSUME NEW i \in WritesOf(k), wal[i].txn # r.txn PROVE IsEnded(wal[i].txn)
  BY Zenon, <1>1, <1>2, <1>3, SyncedIsCommitted DEF IsEnded
<1>4. \A i \in WritesOf(k) : i \in DOMAIN wal /\ i \in Nat
  BY Zenon, <1>1, Positions
<1>5. /\ write_set'[c][k] \in Stored
      /\ \A d \in Conn, l \in Key : d # c \/ l # k => write_set'[d][l] = write_set[d][l]
      /\ k \in Touched(c) => write_set'[c][k] = write_set[c][k]
      /\ k \notin Touched(c) => write_set'[c][k] = tree[k]
  <2>1. write_set \in [Conn -> [Key -> Stored \cup {NotWritten}]]
    BY Zenon, <1>1 DEF TypeOK
  <2> QED BY <1>1, <2>1, FirstBeforeType DEF FirstBefore, Touched
<1>6. /\ \A i \in WritesOf(k) : wal[i].txn = r.txn => wal[i].before = r.before
      /\ NewestIs(Others(r, k), r.before) /\ OldestIs(Others(r, k), r.before)
      /\ residue[k] = "none" => r.before = Encode(committed[k])
  <2>1. CASE k \in Touched(c)
    <3>1. PICK j \in WritesOf(k) : wal[j].txn = r.txn
      BY <1>1, <2>1 DEF OwnRecords
    <3>2. \A i \in WritesOf(k) : wal[i].txn = r.txn => wal[i].before = r.before
      BY Zenon, <1>1, <1>5, <2>1 DEF OwnRecords
    <3>3. ASSUME NEW i \in Others(r, k) PROVE i \in Earlier(k, j)
      <4>1. i \in WritesOf(k) /\ wal[i].txn # wal[j].txn
        BY Zenon, <3>1 DEF Others
      <4>2. ~(j < i)
        <5>1. ASSUME j < i PROVE EndedBetween(j, i)
          BY Zenon, <3>1, <4>1, <5>1 DEF RInv, LogOrder, InTurn
        <5>2. EndedBetween(j, i) => IsEnded(r.txn)
          BY Zenon, <3>1 DEF EndedBetween, IsEnded, IsCommitted, IsAborted, InLog
        <5> QED BY Zenon, <1>1, <5>1, <5>2
      <4>3. i < j
        BY <1>4, <3>1, <4>1, <4>2
      <4> QED BY Zenon, <4>1, <4>3 DEF Earlier
    <3>4. Others(r, k) = Earlier(k, j)
      BY Zenon, <3>1, <3>3 DEF Others, Earlier
    <3>5. j \in Unfinished(k)
      BY Zenon, <1>1, <3>1 DEF Unfinished
    <3> QED BY Zenon, <1>1, <3>1, <3>2, <3>4, <3>5 DEF RInv, Chain, Serving
  <2>2. CASE k \notin Touched(c)
    <3>1. \A i \in WritesOf(k) : wal[i].txn # r.txn
      BY <1>1, <2>2 DEF OwnRecords
    <3>2. Unfinished(k) = {} /\ Others(r, k) = WritesOf(k)
      BY Zenon, <1>3, <3>1 DEF Unfinished, Others
    <3> QED BY <1>1, <1>5, <2>2, <3>1, <3>2 DEF RInv, Serving
  <2> QED BY Zenon, <2>1, <2>2
<1>7. MayAppend(r)
  BY Zenon, <1>1, <1>2, <1>6 DEF MayAppend, OwnRecords
<1>8. LogOrder' /\ Chain'
  BY Zenon, <1>1, <1>7, OrderAppend, ChainAppend DEF RInv
<1>9. /\ WritesOf(k)' = WritesOf(k) \cup {n}
      /\ \A l \in Key : l # k => WritesOf(l)' = WritesOf(l)
      /\ \A s, u : s # "WRITE" => (InLog(s, u)' <=> InLog(s, u))
      /\ \A u : IsSynced(u)' <=> IsSynced(u)
  BY <1>1, AppendAdds DEF IsWriteOf, IsWrite
<1>10. \A u : (IsCommitted(u)' <=> IsCommitted(u)) /\ (IsAborted(u)' <=> IsAborted(u))
  BY Zenon, <1>9 DEF IsCommitted, IsAborted
<1>11. /\ wal'[n] = r /\ \A l \in Key : \A i \in WritesOf(l) : wal'[i] = wal[i] /\ i # n /\ i < n
  BY Zenon DEF WritesOf, AppendsAt
<1>12. ASSUME NEW l \in Key, l # k
       PROVE  /\ \A b : NewestIs(WritesOf(l), b)' <=> NewestIs(WritesOf(l), b)
              /\ \A b : OldestIs(WritesOf(l), b)' <=> OldestIs(WritesOf(l), b)
              /\ Unfinished(l)' = Unfinished(l)
  BY Zenon, <1>9, <1>10, <1>11, <1>12, SameWriters
<1>13. Unfinished(k)' = Unfinished(k) \cup {n}
  BY Zenon, <1>1, <1>9, <1>10, <1>11 DEF Unfinished, IsEnded
<1>14. History'
  <2>1. ASSUME NEW b, NewestIs(WritesOf(k), b) PROVE NewestIs(WritesOf(k), b)'
    <3>1. \A i \in WritesOf(k)' : IsLastCommitted(i, WritesOf(k))' =>
            i \in WritesOf(k) /\ IsLastCommitted(i, WritesOf(k))
      BY <1>1, <1>9, <1>10, <1>11 DEF IsLastCommitted, IsEnded
    <3> QED BY Zenon, <1>11, <2>1, <3>1 DEF NewestIs
  <2>2. ASSUME NEW b, OldestIs(WritesOf(k), b), r.before = b PROVE OldestIs(WritesOf(k), b)'
    BY Zenon, <1>9, <1>10, <1>11, <2>2 DEF OldestIs
  <2>3. ASSUME NEW l \in Key
        PROVE  (/\ NewestIs(WritesOf(l), Encode(committed[l]))
                /\ residue[l] = "none" => OldestIs(WritesOf(l), Encode(committed[l])))'
    <3>1. CASE l = k
      BY Zenon, <1>6, <2>1, <2>2, <3>1 DEF RInv, History
    <3>2. CASE l # k
      BY Zenon, <1>12, <3>2 DEF RInv, History
    <3> QED BY Zenon, <3>1, <3>2
  <2> QED BY Zenon, <2>3 DEF History
<1>15. Serving'
  <2>1. ASSUME NEW l \in Key
        PROVE  (/\ Unfinished(l) = {} =>
                     /\ NewestIs(WritesOf(l), Encode(tree[l]))
                     /\ OldestIs(WritesOf(l), Encode(tree[l]))
                     /\ residue[l] = "none" => tree[l] = committed[l]
                /\ residue[l] = "none" =>
                     \A i \in Unfinished(l) : wal[i].before = Encode(committed[l]))'
    <3>0. \A i \in Unfinished(l) : i \in WritesOf(l) /\ wal'[i] = wal[i]
      BY Zenon, <1>11 DEF Unfinished
    <3>1. CASE l = k
      BY <1>1, <1>6, <1>11, <1>13, <3>0, <3>1 DEF RInv, Serving
    <3>2. CASE l # k
      BY <1>1, <1>12, <3>0, <3>2 DEF RInv, Serving
    <3> QED BY Zenon, <3>1, <3>2
  <2> QED BY Zenon, <2>1 DEF Serving
<1>16. Held'
  <2>1. ASSUME NEW l \in Key, NEW i \in WritesOf(l)'
        PROVE  (holds_exclusive(wal[i].txn, l) \/ IsAborted(wal[i].txn) \/ IsSynced(wal[i].txn))'
    <3>1. CASE i \in WritesOf(l)
      BY Zenon, <1>1, <1>9, <1>10, <1>11, <3>1 DEF RInv, Held, holds_exclusive
    <3>2. CASE i \notin WritesOf(l)
      <4>1. l = k /\ i = n
        BY Zenon, <1>9, <3>2
      <4> QED BY Zenon, <1>11, <4>1 DEF holds_exclusive
    <3> QED BY Zenon, <3>1, <3>2
  <2> QED BY Zenon, <2>1 DEF Held
<1>17. ASSUME NEW d \in Conn, pc'[d] # "idle" PROVE OwnRecords(d)'
  <2>1. CASE d = c
    <3>1. ASSUME NEW l \in Key
          PROVE  l \in Touched(c)' <=> \E i \in WritesOf(l)' : wal'[i].txn = txn_id[c]
      <4>1. CASE l = k
        <5>1. k \in Touched(c)'
          BY Zenon, <1>5, ValueAssumption DEF Touched, Stored
        <5> QED BY Zenon, <1>9, <1>11, <4>1, <5>1
      <4>2. CASE l # k
        <5>1. l \in Touched(c)' <=> l \in Touched(c)
          BY Zenon, <1>5, <4>2 DEF Touched
        <5>2. l \in Touched(c) <=> \E i \in WritesOf(l) : wal[i].txn = txn_id[c]
          BY Zenon, <1>1 DEF OwnRecords
        <5>3. WritesOf(l)' = WritesOf(l) /\ \A i \in WritesOf(l) : wal'[i] = wal[i]
          BY Zenon, <1>9, <1>11, <4>2
        <5> QED BY Zenon, <5>1, <5>2, <5>3
      <4> QED BY Zenon, <4>1, <4>2
    <3>2. ASSUME NEW l \in Key, NEW i \in WritesOf(l)', wal'[i].txn = txn_id[c]
          PROVE  /\ wal'[i].before = Encode(write_set'[c][l])
                 /\ (\A m \in WritesOf(l)' : wal'[m].txn = txn_id[c] => m <= i) =>
                      wal'[i].after \in Oversize \cup {Encode(tree'[l])}
      <4>1. CASE l = k
        <5>1. wal'[i].before = r.before
          BY Zenon, <1>6, <1>9, <1>11, <3>2, <4>1
        <5>2. ASSUME \A m \in WritesOf(l)' : wal'[m].txn = txn_id[c] => m <= i PROVE i = n
          <6>1. n \in WritesOf(l)' /\ n <= i /\ (i \in WritesOf(k) => i \in Nat /\ i < n)
            BY Zenon, <1>4, <1>9, <1>11, <4>1, <5>2
          <6>2. n \in Nat
            BY Zenon DEF AppendsAt
          <6> QED BY <1>9, <3>2, <4>1, <6>1, <6>2
        <5> QED BY Zenon, <1>11, <4>1, <5>1, <5>2
      <4>2. CASE l # k
        <5>1. i \in WritesOf(l) /\ wal'[i] = wal[i] /\ WritesOf(l)' = WritesOf(l)
              /\ tree'[l] = tree[l] /\ write_set'[c][l] = write_set[c][l]
              /\ \A m \in WritesOf(l) : wal'[m] = wal[m]
          BY Zenon, <1>5, <1>9, <1>11, <3>2, <4>2
        <5> QED BY <1>1, <3>2, <5>1 DEF OwnRecords
      <4> QED BY Zenon, <4>1, <4>2
    <3> QED BY Zenon, <1>1, <1>9, <1>10, <2>1, <3>1, <3>2 DEF OwnRecords, IsEnded
  <2>2. CASE d # c
    <3>1. OwnRecords(d) /\ pc[d] # "idle" /\ r.txn # txn_id[d]
      BY Zenon, <1>1, <1>17, <2>2 DEF RInv, Owners, Sessions
    <3>2. Touched(d)' = Touched(d) /\ \A l \in Key : write_set'[d][l] = write_set[d][l]
      BY Zenon, <1>5, <2>2 DEF Touched
    <3>3. k \notin Touched(d)
      BY Zenon, <1>1, <2>2, <3>1 DEF Owned, holds_exclusive
    <3>4. \A i \in WritesOf(k) : wal[i].txn # txn_id[d]
      BY Zenon, <3>1, <3>3 DEF OwnRecords
    <3>5. \A l \in Key : \A i \in WritesOf(l)' : wal'[i].txn = txn_id[d] =>
            /\ l # k /\ WritesOf(l)' = WritesOf(l) /\ wal'[i] = wal[i] /\ tree'[l] = tree[l]
      BY Zenon, <1>9, <1>11, <3>1, <3>4
    <3>6. ASSUME NEW l \in Key
          PROVE  l \in Touched(d) <=> \E i \in WritesOf(l)' : wal'[i].txn = txn_id[d]
      <4>1. l \in Touched(d) <=> \E i \in WritesOf(l) : wal[i].txn = txn_id[d]
        BY Zenon, <3>1 DEF OwnRecords
      <4>2. \A i \in WritesOf(l) : i \in WritesOf(l)' /\ wal'[i] = wal[i]
        BY Zenon, <1>9, <1>11
      <4>3. \A i \in WritesOf(l)' : wal'[i].txn = txn_id[d] =>
              i \in WritesOf(l) /\ wal'[i] = wal[i]
        BY Zenon, <3>5
      <4> QED BY Zenon, <4>1, <4>2, <4>3
    <3>7. ASSUME NEW l \in Key, NEW i \in WritesOf(l)', wal'[i].txn = txn_id[d]
          PROVE  /\ wal'[i].before = Encode(write_set'[d][l])
                 /\ pc[d] = "open" /\ (\A m \in WritesOf(l)' : wal'[m].txn = txn_id[d] => m <= i) =>
                      wal'[i].after \in Oversize \cup {Encode(tree'[l])}
                 /\ pc[d] = "append_abort" => tree'[l] = write_set'[d][l]
      <4>1. /\ i \in WritesOf(l) /\ wal[i].txn = txn_id[d] /\ wal'[i] = wal[i] /\ tree'[l] = tree[l]
            /\ WritesOf(l)' = WritesOf(l) /\ \A m \in WritesOf(l) : wal'[m] = wal[m]
        BY Zenon, <1>11, <3>5, <3>7
      <4> QED BY Zenon, <3>1, <3>2, <4>1 DEF OwnRecords
    <3> QED BY Zenon, <1>9, <1>10, <3>1, <3>2, <3>6, <3>7 DEF OwnRecords, IsEnded
  <2> QED BY Zenon, <2>1, <2>2
<1>18. Untouched' /\ Recovering'
  BY Zenon, <1>1, <1>9 DEF RInv, Untouched, Settled, Recovering
<1> QED BY Zenon, <1>8, <1>14, <1>15, <1>16, <1>17, <1>18 DEF RInv, Owners

LEMMA PutKeeps ==
  ASSUME IInv, IInv', RInv, NEW c \in Conn, put_locked(c)
  PROVE  RInv'
<1>1. /\ TypeOK /\ call[c] # NoCall /\ call[c].key \in Key /\ call[c].value \in Value
      /\ pc[c] = "open" /\ holds_exclusive(txn_id[c], call[c].key)
  <2>1. TypeOK /\ call[c].op = "Put"
    BY Zenon DEF IInv, put_locked
  <2>2. call[c] # NoCall /\ call[c].key \in Key /\ call[c].value \in Value
    BY Zenon, <2>1, CallIsSome
  <2> QED BY Zenon, <2>1, <2>2 DEF IInv, Sessions, Owned
<1>2. PICK k \in Key : k = call[c].key
  BY Zenon, <1>1
<1>3. PICK r : IsRecordOf(r, c, call[c].value)
  BY Zenon, PutAppends
<1>4. /\ write_set' = FirstBefore(c, k) /\ wal_synced' = wal_synced
      /\ UNCHANGED <<exclusive_holder, committed, residue, db, pc, txn_id, disk, synced>>
      /\ tree' = IF call[c].value \in Oversize THEN tree ELSE [tree EXCEPT ![k] = call[c].value]
  BY Zenon, <1>2 DEF put_locked, lockVars, history
<1>5. PICK n : AppendsAt(r, n)
  BY Zenon, <1>1, <1>3, <1>4, AppendHas DEF IsRecordOf
<1>6. /\ IsWriteOf(r, k) /\ r.txn = txn_id[c] /\ r.before = Encode(write_set'[c][k])
      /\ r.after = call[c].value
  BY Zenon, <1>2, <1>3 DEF IsRecordOf
<1>7. \A l \in Key : l # k => tree'[l] = tree[l]
  BY Zenon, <1>1, <1>4 DEF TypeOK
<1>8. r.after \in Oversize \cup {Encode(tree'[k])}
  <2>1. Encode(call[c].value) = call[c].value
    BY Zenon, <1>1, ValueAssumption DEF Encode
  <2>2. call[c].value \notin Oversize => tree'[k] = call[c].value
    BY Zenon, <1>1, <1>4 DEF TypeOK
  <2> QED BY Zenon, <1>6, <2>1, <2>2
<1> QED BY Zenon, <1>1, <1>2, <1>4, <1>5, <1>6, <1>7, <1>8, WriteKeeps

LEMMA DeleteKeeps ==
  ASSUME IInv, IInv', RInv, NEW c \in Conn, delete_locked(c), tree[call[c].key] # Absent
  PROVE  RInv'
<1>1. /\ TypeOK /\ call[c] # NoCall /\ call[c].key \in Key
      /\ pc[c] = "open" /\ holds_exclusive(txn_id[c], call[c].key)
  <2>1. TypeOK /\ call[c].op = "Delete"
    BY Zenon DEF IInv, delete_locked
  <2>2. call[c] # NoCall /\ call[c].key \in Key
    BY Zenon, <2>1, CallIsSome
  <2> QED BY Zenon, <2>1, <2>2 DEF IInv, Sessions, Owned
<1>2. PICK k \in Key : k = call[c].key
  BY Zenon, <1>1
<1>3. PICK r : IsRecordOf(r, c, Empty)
  BY Zenon, DeleteAppends
<1>4. /\ write_set' = FirstBefore(c, k) /\ wal_synced' = wal_synced
      /\ UNCHANGED <<exclusive_holder, committed, residue, db, pc, txn_id, disk, synced>>
      /\ tree' = [tree EXCEPT ![k] = Absent]
  BY Zenon, <1>2 DEF delete_locked, lockVars, history
<1>5. PICK n : AppendsAt(r, n)
  BY Zenon, <1>1, <1>3, <1>4, AppendHas DEF IsRecordOf
<1>6. /\ IsWriteOf(r, k) /\ r.txn = txn_id[c] /\ r.before = Encode(write_set'[c][k])
      /\ r.after = Empty
  BY Zenon, <1>2, <1>3 DEF IsRecordOf
<1>7. (\A l \in Key : l # k => tree'[l] = tree[l]) /\ tree'[k] = Absent
  BY Zenon, <1>1, <1>4 DEF TypeOK
<1>8. r.after \in Oversize \cup {Encode(tree'[k])}
  BY Zenon, <1>6, <1>7 DEF Encode
<1> QED BY Zenon, <1>1, <1>2, <1>4, <1>5, <1>6, <1>7, <1>8, WriteKeeps

-----------------------------------------------------------------------------
(* COMMIT or ABORT: what the record changes on the keys its transaction    *)
(* wrote, which no other thread is writing, and that it changes no more.   *)
Ends(c, r) ==
  /\ LogOrder' /\ Chain' /\ Held'
  /\ \A d \in Conn : d # c /\ pc'[d] # "idle" => OwnRecords(d)'
  /\ \A s, u : InLog(s, u)' <=> InLog(s, u) \/ (r.type = s /\ r.txn = u)
  /\ \A k \in Key : WritesOf(k)' = WritesOf(k)
  /\ \A k \in Key : \A i \in WritesOf(k) : wal'[i] = wal[i]
  /\ \A k \in Key : k \notin Touched(c) =>
       /\ \A b : NewestIs(WritesOf(k), b)' <=> NewestIs(WritesOf(k), b)
       /\ \A b : OldestIs(WritesOf(k), b)' <=> OldestIs(WritesOf(k), b)
       /\ Unfinished(k)' = Unfinished(k)
  /\ \A k \in Key : k \in Touched(c) => Unfinished(k)' = {}
  /\ \A k \in Key : \A i, j \in WritesOf(k) :
       wal[j].txn = r.txn /\ wal[i].txn # r.txn => i \in Earlier(k, j)

LEMMA EndAdds ==
  ASSUME IInv, RInv, NEW c \in Conn, NEW r, NEW n, AppendsAt(r, n),
         r.type \in {"COMMIT", "ABORT"}, r.txn = txn_id[c], pc[c] \in {"open", "append_abort"},
         UNCHANGED <<exclusive_holder, db, txn_id, write_set, tree>>,
         \A d \in Conn : d # c => pc'[d] = pc[d]
  PROVE  Ends(c, r)
<1>1. /\ TypeOK /\ Sessions /\ Owned /\ db = "up" /\ OwnRecords(c)
      /\ ~IsEnded(r.txn) /\ ~IsWrite(r)
  BY Zenon DEF IInv, Sessions, RInv, Owners, OwnRecords, IsWrite
<1>2. MayAppend(r)
  BY Zenon, <1>1 DEF MayAppend
<1>3. LogOrder' /\ Chain'
  BY Zenon, <1>1, <1>2, OrderAppend, ChainAppend DEF RInv
<1>4. /\ \A k \in Key : WritesOf(k)' = WritesOf(k)
      /\ \A s, u : InLog(s, u)' <=> InLog(s, u) \/ (r.type = s /\ r.txn = u)
      /\ \A u : IsSynced(u)' <=> IsSynced(u)
  BY Zenon, <1>1, AppendAdds DEF IsWriteOf
<1>5. \A k \in Key : \A i \in WritesOf(k) : wal'[i] = wal[i] /\ i \in Nat
  BY Zenon, <1>1, Positions DEF AppendsAt
<1>6. \A u : IsCommitted(u) => IsCommitted(u)'
  BY Zenon, <1>4 DEF IsCommitted
<1>7. \A u : IsAborted(u) => IsAborted(u)'
  BY Zenon, <1>4 DEF IsAborted
<1>8. \A u : u # r.txn => (IsCommitted(u)' <=> IsCommitted(u)) /\ (IsAborted(u)' <=> IsAborted(u))
  BY Zenon, <1>4 DEF IsCommitted, IsAborted
<1>9. IsEnded(r.txn)'
  BY Zenon, <1>4 DEF IsEnded, IsCommitted, IsAborted
<1>10. ASSUME NEW k \in Key, NEW i \in WritesOf(k)
       PROVE  holds_exclusive(wal[i].txn, k) \/ IsAborted(wal[i].txn) \/ IsSynced(wal[i].txn)
  BY Zenon, <1>1 DEF RInv, Held
<1>11. Held'
  <2>1. ASSUME NEW k \in Key, NEW i \in WritesOf(k)'
        PROVE  (holds_exclusive(wal[i].txn, k) \/ IsAborted(wal[i].txn) \/ IsSynced(wal[i].txn))'
    BY Zenon, <1>4, <1>5, <1>7, <1>10 DEF holds_exclusive
  <2> QED BY Zenon, <2>1 DEF Held
<1>12. ASSUME NEW k \in Key
       PROVE  k \in Touched(c) <=> \E i \in WritesOf(k) : wal[i].txn = r.txn
  BY Zenon, <1>1 DEF OwnRecords
<1>13. ASSUME NEW k \in Key, k \notin Touched(c)
       PROVE  /\ \A b : NewestIs(WritesOf(k), b)' <=> NewestIs(WritesOf(k), b)
              /\ \A b : OldestIs(WritesOf(k), b)' <=> OldestIs(WritesOf(k), b)
              /\ Unfinished(k)' = Unfinished(k)
  <2>1. \A i \in WritesOf(k) :
          /\ wal'[i] = wal[i]
          /\ IsCommitted(wal[i].txn)' <=> IsCommitted(wal[i].txn)
          /\ IsAborted(wal[i].txn)' <=> IsAborted(wal[i].txn)
    BY Zenon, <1>5, <1>8, <1>12, <1>13
  <2> QED BY Zenon, <1>4, <2>1, SameWriters
<1>14. ASSUME NEW k \in Key, k \in Touched(c) PROVE Unfinished(k)' = {}
  <2>1. ASSUME NEW i \in WritesOf(k) PROVE IsEnded(wal[i].txn)'
    <3>1. CASE wal[i].txn = r.txn
      BY Zenon, <1>5, <1>9, <3>1
    <3>2. CASE wal[i].txn # r.txn
      <4>1. ~holds_exclusive(wal[i].txn, k)
        BY Zenon, <1>1, <1>14, <3>2 DEF Owned, holds_exclusive
      <4>2. IsAborted(wal[i].txn) \/ IsCommitted(wal[i].txn)
        BY Zenon, <1>1, <1>10, <4>1, SyncedIsCommitted
      <4> QED BY Zenon, <1>5, <1>6, <1>7, <4>2 DEF IsEnded
    <3> QED BY Zenon, <3>1, <3>2
  <2> QED BY Zenon, <1>4, <1>5, <2>1 DEF Unfinished
<1>15. ASSUME NEW k \in Key, NEW i \in WritesOf(k), NEW j \in WritesOf(k),
              wal[j].txn = r.txn, wal[i].txn # r.txn
       PROVE  i \in Earlier(k, j)
  <2>1. ~(j < i)
    <3>1. ASSUME j < i PROVE EndedBetween(j, i)
      BY Zenon, <1>15, <3>1 DEF RInv, LogOrder, InTurn
    <3>2. EndedBetween(j, i) => IsEnded(r.txn)
      BY Zenon, <1>15 DEF EndedBetween, IsEnded, IsCommitted, IsAborted, InLog
    <3> QED BY Zenon, <1>1, <3>1, <3>2
  <2>2. i < j
    BY <1>5, <1>15, <2>1
  <2> QED BY Zenon, <1>15, <2>2 DEF Earlier
<1>16. ASSUME NEW d \in Conn, d # c, pc'[d] # "idle" PROVE OwnRecords(d)'
  <2>1. OwnRecords(d) /\ pc'[d] = pc[d] /\ r.txn # txn_id[d]
    BY Zenon, <1>1, <1>16 DEF RInv, Owners, Sessions
  <2>2. Touched(d)' = Touched(d)
    BY Zenon DEF Touched
  <2>3. InLog("BEGIN", txn_id[d])'
    BY Zenon, <1>4, <2>1 DEF OwnRecords
  <2>4. \A k \in Key : k \in Touched(d)' <=> \E i \in WritesOf(k)' : wal'[i].txn = txn_id[d]
    <3>1. \A k \in Key : k \in Touched(d) <=> \E i \in WritesOf(k) : wal[i].txn = txn_id[d]
      BY Zenon, <2>1 DEF OwnRecords
    <3>2. ASSUME NEW k \in Key
          PROVE  (\E i \in WritesOf(k)' : wal'[i].txn = txn_id[d]) <=>
                 \E i \in WritesOf(k) : wal[i].txn = txn_id[d]
      BY Zenon, <1>4, <1>5
    <3> QED BY Zenon, <2>2, <3>1, <3>2
  <2>5. ASSUME NEW k \in Key, NEW i \in WritesOf(k)', wal'[i].txn = txn_id[d]
        PROVE  /\ wal'[i].before = Encode(write_set[d][k])
               /\ pc[d] = "open" /\ (\A m \in WritesOf(k)' : wal'[m].txn = txn_id[d] => m <= i) =>
                    wal'[i].after \in Oversize \cup {Encode(tree[k])}
               /\ pc[d] = "append_abort" => tree[k] = write_set[d][k]
    <3>1. /\ i \in WritesOf(k) /\ wal[i].txn = txn_id[d] /\ wal'[i] = wal[i]
          /\ WritesOf(k)' = WritesOf(k) /\ \A m \in WritesOf(k) : wal'[m] = wal[m]
      BY Zenon, <1>4, <1>5, <2>5
    <3> QED BY Zenon, <2>1, <3>1 DEF OwnRecords
  <2>6. /\ pc[d] \in {"open", "append_abort"} => ~IsEnded(txn_id[d])'
        /\ pc[d] = "release_abort" => IsAborted(txn_id[d])'
    <3>1. PICK u : u = txn_id[d] /\ txn_id'[d] = u
      BY Zenon
    <3>2. /\ pc[d] \in {"open", "append_abort"} => ~IsEnded(u)
          /\ pc[d] = "release_abort" => IsAborted(u)
      BY Zenon, <2>1, <3>1 DEF OwnRecords
    <3>3. (IsEnded(u)' <=> IsEnded(u)) /\ (IsAborted(u)' <=> IsAborted(u))
      BY Zenon, <1>8, <2>1, <3>1 DEF IsEnded
    <3> QED BY Zenon, <3>1, <3>2, <3>3
  <2> QED BY Zenon, <2>1, <2>3, <2>4, <2>5, <2>6 DEF OwnRecords
<1> QED BY Zenon, <1>3, <1>4, <1>5, <1>11, <1>13, <1>14, <1>15, <1>16 DEF Ends

(* Commit: the last write of its own to a key becomes the last committed   *)
(* one, and the tree still has that value.                                 *)
LEMMA CommitKeeps ==
  ASSUME IInv, IInv', RInv, NEW c \in Conn, append_commit(c)
  PROVE  RInv'
<1>0. PICK r : r = [type |-> "COMMIT", txn |-> txn_id[c]]
  BY Zenon
<1>1. TypeOK /\ db = "up" /\ pc[c] = "open" /\ OwnRecords(c) /\ Append1(r)
  BY Zenon, <1>0 DEF IInv, Sessions, append_commit, RInv, Owners
<1>2. /\ UNCHANGED <<exclusive_holder, db, txn_id, write_set, tree, disk, synced, wal_synced>>
      /\ pc'[c] = "wal_flush" /\ \A d \in Conn : d # c => pc'[d] = pc[d]
      /\ \A k \in Key : k \in Touched(c) => committed'[k] = tree[k] /\ residue'[k] = "none"
      /\ \A k \in Key : k \notin Touched(c) => committed'[k] = committed[k] /\ residue'[k] = residue[k]
  BY Zenon, <1>1 DEF append_commit, TypeOK, lockVars
<1>3. r.type = "COMMIT" /\ r.txn = txn_id[c]
  BY Zenon, <1>0
<1>4. PICK n : AppendsAt(r, n)
  BY Zenon, <1>1, <1>2, AppendHas
<1>5. Ends(c, r)
  BY Zenon, <1>1, <1>2, <1>3, <1>4, EndAdds
<1>6. IsCommitted(r.txn)'
  BY Zenon, <1>3, <1>5 DEF IsCommitted, Ends
<1>7. ASSUME NEW k \in Key, k \in Touched(c)
      PROVE  (NewestIs(WritesOf(k), Encode(committed[k])) /\ OldestIs(WritesOf(k), Encode(committed[k])))'
  <2>1. PICK j \in WritesOf(k) : wal[j].txn = r.txn
    BY Zenon, <1>1, <1>3, <1>7 DEF OwnRecords
  <2>2. ASSUME NEW i \in WritesOf(k), IsLastCommitted(i, WritesOf(k))'
        PROVE  wal[i].after \in Oversize \cup {Encode(tree[k])}
    <3>1. \A m \in WritesOf(k) : wal[m].txn = r.txn => m <= i
      BY Zenon, <1>5, <1>6, <2>2 DEF IsLastCommitted, Ends
    <3>2. wal[i].txn = r.txn
      <4>1. j <= i /\ i \in Nat /\ j \in Nat
        BY Zenon, <1>1, <2>1, <3>1, Positions
      <4>2. wal[i].txn # r.txn => i < j
        BY Zenon, <1>5, <2>1 DEF Earlier, Ends
      <4> QED BY <4>1, <4>2
    <3> QED BY Zenon, <1>1, <1>3, <3>1, <3>2 DEF OwnRecords
  <2>3. NewestIs(WritesOf(k), Encode(committed[k]))'
    <3>1. WritesOf(k)' = WritesOf(k) /\ \A i \in WritesOf(k) : wal'[i] = wal[i]
      BY Zenon, <1>5 DEF Ends
    <3>2. Encode(committed[k])' = Encode(tree[k])
      BY Zenon, <1>2, <1>7 DEF Encode
    <3>3. ASSUME NEW i \in WritesOf(k)', IsLastCommitted(i, WritesOf(k))'
          PROVE  wal'[i].after \in Oversize \cup {Encode(committed[k])'}
      BY Zenon, <2>2, <3>1, <3>2, <3>3
    <3> QED BY Zenon, <3>3 DEF NewestIs
  <2>4. OldestIs(WritesOf(k), Encode(committed[k]))'
    BY Zenon, <1>5, <1>6, <2>1 DEF OldestIs, Ends
  <2> QED BY Zenon, <2>3, <2>4
<1>8. ASSUME NEW k \in Key
      PROVE  (/\ NewestIs(WritesOf(k), Encode(committed[k]))
              /\ residue[k] = "none" => OldestIs(WritesOf(k), Encode(committed[k])))'
  <2>1. CASE k \in Touched(c)
    BY Zenon, <1>7, <2>1
  <2>2. CASE k \notin Touched(c)
    BY Zenon, <1>2, <1>5, <2>2 DEF RInv, History, Ends
  <2> QED BY Zenon, <2>1, <2>2
<1>9. ASSUME NEW k \in Key
      PROVE  (/\ Unfinished(k) = {} =>
                   /\ NewestIs(WritesOf(k), Encode(tree[k]))
                   /\ OldestIs(WritesOf(k), Encode(tree[k]))
                   /\ residue[k] = "none" => tree[k] = committed[k]
              /\ residue[k] = "none" =>
                   \A i \in Unfinished(k) : wal[i].before = Encode(committed[k]))'
  <2>1. CASE k \in Touched(c)
    <3>1. committed'[k] = tree'[k] /\ Unfinished(k)' = {}
      BY Zenon, <1>2, <1>5, <2>1 DEF Ends
    <3> QED BY Zenon, <1>7, <2>1, <3>1
  <2>2. CASE k \notin Touched(c)
    <3>1. committed'[k] = committed[k] /\ residue'[k] = residue[k] /\ tree'[k] = tree[k]
          /\ \A i \in Unfinished(k) : wal'[i] = wal[i]
      BY Zenon, <1>2, <1>5, <2>2 DEF Unfinished, Ends
    <3>2. /\ Unfinished(k)' = Unfinished(k)
          /\ \A b : NewestIs(WritesOf(k), b)' <=> NewestIs(WritesOf(k), b)
          /\ \A b : OldestIs(WritesOf(k), b)' <=> OldestIs(WritesOf(k), b)
      BY Zenon, <1>5, <2>2 DEF Ends
    <3>3. /\ Unfinished(k) = {} =>
               /\ NewestIs(WritesOf(k), Encode(tree[k]))
               /\ OldestIs(WritesOf(k), Encode(tree[k]))
               /\ residue[k] = "none" => tree[k] = committed[k]
          /\ residue[k] = "none" => \A i \in Unfinished(k) : wal[i].before = Encode(committed[k])
      BY Zenon, <1>1 DEF RInv, Serving
    <3> QED BY Zenon, <3>1, <3>2, <3>3
  <2> QED BY Zenon, <2>1, <2>2
<1>10. OwnRecords(c)'
  <2>1. \A k \in Key : k \in Touched(c)' <=> \E i \in WritesOf(k)' : wal'[i].txn = txn_id[c]
    <3>1. Touched(c)' = Touched(c)
      BY Zenon, <1>2 DEF Touched
    <3>2. \A k \in Key : k \in Touched(c) <=> \E i \in WritesOf(k) : wal[i].txn = txn_id[c]
      BY Zenon, <1>1 DEF OwnRecords
    <3>3. ASSUME NEW k \in Key
          PROVE  (\E i \in WritesOf(k)' : wal'[i].txn = txn_id[c]) <=>
                 \E i \in WritesOf(k) : wal[i].txn = txn_id[c]
      BY Zenon, <1>5 DEF Ends
    <3> QED BY Zenon, <3>1, <3>2, <3>3
  <2>2. ASSUME NEW k \in Key, NEW i \in WritesOf(k)', wal'[i].txn = txn_id[c]
        PROVE  wal'[i].before = Encode(write_set[c][k])
    <3>1. i \in WritesOf(k) /\ wal'[i] = wal[i]
      BY Zenon, <1>5, <2>2 DEF Ends
    <3> QED BY Zenon, <1>1, <2>2, <3>1 DEF OwnRecords
  <2>3. InLog("BEGIN", txn_id[c])'
    BY Zenon, <1>1, <1>2, <1>5 DEF OwnRecords, Ends
  <2> QED BY Zenon, <1>2, <2>1, <2>2, <2>3 DEF OwnRecords
<1>11. Untouched'
  <2>1. \A k \in Key : WritesOf(k) = {} => k \notin Touched(c)
    BY Zenon, <1>1 DEF OwnRecords
  <2>2. \A k \in Key : WritesOf(k)' = WritesOf(k)
    BY Zenon, <1>5 DEF Ends
  <2>3. ASSUME NEW k \in Key, WritesOf(k) = {}, residue'[k] = "none"
        PROVE  Settled(k)'
    <3>1. committed'[k] = committed[k] /\ residue'[k] = residue[k]
      BY Zenon, <1>2, <2>1, <2>3
    <3>2. Settled(k)
      BY Zenon, <2>3, <3>1 DEF RInv, Untouched
    <3> QED BY Zenon, <1>2, <3>1, <3>2 DEF Settled
  <2> QED BY Zenon, <2>2, <2>3 DEF Untouched
<1>12. Recovering'
  BY Zenon, <1>1, <1>2 DEF Recovering
<1>13. History' /\ Serving'
  BY Zenon, <1>8, <1>9 DEF History, Serving
<1>14. Owners'
  BY Zenon, <1>5, <1>10 DEF Owners, Ends
<1> QED BY Zenon, <1>5, <1>11, <1>12, <1>13, <1>14 DEF RInv, Ends

(* Rollback's record: the tree is back at the before-image, which is what  *)
(* the earlier writers of the key have left.                               *)
LEMMA AbortKeeps ==
  ASSUME IInv, IInv', RInv, Empty \notin Value, NEW c \in Conn, append_abort(c)
  PROVE  RInv'
<1>0. PICK r : r = [type |-> "ABORT", txn |-> txn_id[c]]
  BY Zenon
<1>1. /\ TypeOK /\ db = "up" /\ pc[c] = "append_abort" /\ OwnRecords(c) /\ Append1(r)
      /\ ~IsEnded(txn_id[c])
  BY Zenon, <1>0 DEF IInv, Sessions, append_abort, RInv, Owners, OwnRecords
<1>2. /\ UNCHANGED <<exclusive_holder, db, txn_id, write_set, tree, wal_synced>>
      /\ UNCHANGED <<disk, synced, committed, residue>>
      /\ pc'[c] = "release_abort" /\ \A d \in Conn : d # c => pc'[d] = pc[d]
  BY Zenon, <1>1 DEF append_abort, TypeOK, lockVars, history
<1>3. r.type = "ABORT" /\ r.txn = txn_id[c]
  BY Zenon, <1>0
<1>4. PICK n : AppendsAt(r, n)
  BY Zenon, <1>1, <1>2, AppendHas
<1>5. Ends(c, r)
  BY Zenon, <1>1, <1>2, <1>3, <1>4, EndAdds
<1>6. (\A t : IsCommitted(t)' <=> IsCommitted(t)) /\ IsAborted(r.txn)'
  <2>1. \A s, u : InLog(s, u)' <=> InLog(s, u) \/ (r.type = s /\ r.txn = u)
    BY Zenon, <1>5 DEF Ends
  <2>2. InLog("ABORT", r.txn)'
    BY Zenon, <1>3, <2>1
  <2>3. \A t : InLog("COMMIT", t)' <=> InLog("COMMIT", t)
    BY Zenon, <1>3, <2>1
  <2> QED BY Zenon, <2>2, <2>3 DEF IsCommitted, IsAborted
<1>7. ASSUME NEW k \in Key
      PROVE  \A b : /\ NewestIs(WritesOf(k), b)' <=> NewestIs(WritesOf(k), b)
                    /\ OldestIs(WritesOf(k), b)' <=> OldestIs(WritesOf(k), b)
  <2>1. PICK S : S = WritesOf(k)
    BY Zenon
  <2>2. \A i \in S : wal'[i] = wal[i] /\ (IsCommitted(wal[i].txn)' <=> IsCommitted(wal[i].txn))
    BY Zenon, <1>5, <1>6, <2>1 DEF Ends
  <2>3. \A b : (NewestIs(S, b)' <=> NewestIs(S, b)) /\ (OldestIs(S, b)' <=> OldestIs(S, b))
    BY Zenon, <2>2, SameImages
  <2>4. WritesOf(k)' = S
    BY Zenon, <1>5, <2>1 DEF Ends
  <2> QED BY Zenon, <2>1, <2>3, <2>4
<1>8. History'
  BY Zenon, <1>2, <1>7 DEF RInv, History
<1>9. ASSUME NEW k \in Key, k \in Touched(c)
      PROVE  /\ NewestIs(WritesOf(k), Encode(tree[k]))
             /\ OldestIs(WritesOf(k), Encode(tree[k]))
             /\ residue[k] = "none" => tree[k] = committed[k]
  <2>1. PICK j \in WritesOf(k) : wal[j].txn = r.txn
    BY Zenon, <1>1, <1>3, <1>9 DEF OwnRecords
  <2>2. /\ tree[k] = write_set[c][k] /\ wal[j].before = Encode(tree[k])
        /\ \A i \in WritesOf(k) : wal[i].txn = r.txn => wal[i].before = Encode(tree[k])
    BY Zenon, <1>1, <1>3, <2>1 DEF OwnRecords
  <2>3. NewestIs(Earlier(k, j), Encode(tree[k])) /\ OldestIs(Earlier(k, j), Encode(tree[k]))
    BY Zenon, <2>1, <2>2 DEF RInv, Chain
  <2>4. \A i \in WritesOf(k) : wal[i].txn # r.txn => i \in Earlier(k, j)
    BY Zenon, <1>5, <2>1 DEF Ends
  <2>5. ~IsCommitted(r.txn)
    BY Zenon, <1>1, <1>3 DEF IsEnded
  <2>6. \A i \in Earlier(k, j) : i \in WritesOf(k)
    BY Zenon DEF Earlier
  <2>7. NewestIs(WritesOf(k), Encode(tree[k]))
    BY Zenon, <2>3, <2>4, <2>5, <2>6 DEF NewestIs, IsLastCommitted
  <2>8. OldestIs(WritesOf(k), Encode(tree[k]))
    BY Zenon, <2>2, <2>3, <2>4, <2>6 DEF OldestIs
  <2>9. ASSUME residue[k] = "none" PROVE tree[k] = committed[k]
    <3>1. wal[j].before = Encode(committed[k])
      BY Zenon, <1>1, <1>3, <2>1, <2>9 DEF RInv, Serving, Unfinished
    <3>2. tree[k] \in Stored /\ committed[k] \in Stored
      BY Zenon, <1>1 DEF TypeOK
    <3>3. Encode(tree[k]) = Encode(committed[k])
      BY Zenon, <2>2, <3>1
    <3> QED BY Zenon, <3>2, <3>3, Codec
  <2> QED BY Zenon, <2>7, <2>8, <2>9
<1>10. ASSUME NEW k \in Key
       PROVE  (/\ Unfinished(k) = {} =>
                    /\ NewestIs(WritesOf(k), Encode(tree[k]))
                    /\ OldestIs(WritesOf(k), Encode(tree[k]))
                    /\ residue[k] = "none" => tree[k] = committed[k]
               /\ residue[k] = "none" =>
                    \A i \in Unfinished(k) : wal[i].before = Encode(committed[k]))'
  <2>1. CASE k \in Touched(c)
    <3>1. Unfinished(k)' = {}
      BY Zenon, <1>5, <2>1 DEF Ends
    <3> QED BY Zenon, <1>2, <1>7, <1>9, <2>1, <3>1
  <2>2. CASE k \notin Touched(c)
    <3>1. Unfinished(k)' = Unfinished(k) /\ \A i \in Unfinished(k) : wal'[i] = wal[i]
      BY Zenon, <1>5, <2>2 DEF Ends, Unfinished
    <3> QED BY Zenon, <1>1, <1>2, <1>7, <3>1 DEF RInv, Serving
  <2> QED BY Zenon, <2>1, <2>2
<1>11. OwnRecords(c)'
  <2>1. \A k \in Key : k \in Touched(c)' <=> \E i \in WritesOf(k)' : wal'[i].txn = txn_id[c]
    <3>1. Touched(c)' = Touched(c)
      BY Zenon, <1>2 DEF Touched
    <3>2. \A k \in Key : k \in Touched(c) <=> \E i \in WritesOf(k) : wal[i].txn = txn_id[c]
      BY Zenon, <1>1 DEF OwnRecords
    <3>3. ASSUME NEW k \in Key
          PROVE  (\E i \in WritesOf(k)' : wal'[i].txn = txn_id[c]) <=>
                 \E i \in WritesOf(k) : wal[i].txn = txn_id[c]
      BY Zenon, <1>5 DEF Ends
    <3> QED BY Zenon, <3>1, <3>2, <3>3
  <2>2. ASSUME NEW k \in Key, NEW i \in WritesOf(k)', wal'[i].txn = txn_id[c]
        PROVE  wal'[i].before = Encode(write_set[c][k])
    <3>1. i \in WritesOf(k) /\ wal'[i] = wal[i] /\ wal[i].txn = txn_id[c]
      BY Zenon, <1>5, <2>2 DEF Ends
    <3> QED BY Zenon, <1>1, <3>1 DEF OwnRecords
  <2>3. InLog("BEGIN", txn_id[c])' /\ IsAborted(txn_id[c])'
    BY Zenon, <1>1, <1>2, <1>3, <1>5, <1>6 DEF OwnRecords, Ends
  <2> QED BY Zenon, <1>2, <2>1, <2>2, <2>3 DEF OwnRecords
<1>12. Untouched'
  <2>1. \A k \in Key : WritesOf(k)' = WritesOf(k)
    BY Zenon, <1>5 DEF Ends
  <2> QED BY Zenon, <1>2, <2>1 DEF RInv, Untouched, Settled
<1>13. Recovering'
  BY Zenon, <1>1, <1>2 DEF Recovering
<1>14. Serving' /\ Owners'
  BY Zenon, <1>5, <1>10, <1>11 DEF Serving, Owners, Ends
<1>15. LogOrder' /\ Chain' /\ Held'
  BY Zenon, <1>5 DEF Ends
<1> QED BY Zenon, <1>8, <1>12, <1>13, <1>14, <1>15 DEF RInv
=============================================================================
