--------------------------- MODULE SessionProofs ----------------------------
(***************************************************************************)
(* Proofs about Session, for any number of calls, retries and operations.  *)
(* The properties are those of calls that follow one another and await     *)
(* their operations; types hold of every usage.                            *)
(***************************************************************************)
EXTENDS Session, FiniteSetTheorems, SequenceTheorems, TLAPS

(***************************************************************************)
(* The connection, as one call at a time leaves it.  At most two requests  *)
(* are under way: an operation, and the ROLLBACK of an fn that did not     *)
(* wait for it.  Each is sent, served or settled, in this order.           *)
(***************************************************************************)
Reply(r, s) == [status |-> s, to |-> r]

Task(r, s) == [req |-> r, status |-> s, value |-> s = "OK" /\ r.op = "GET"]

Queues(ts, ps, rs, qs) == tasks = ts /\ pending = ps /\ responses = rs /\ requests = qs

Silent == Queues(<<>>, <<>>, <<>>, <<>>)

Sent(r) == Queues(<<>>, <<r>>, <<>>, buildMessage(r))

Served(r, s) == Queues(<<>>, <<r>>, <<Reply(r, s)>>, <<>>)

Arrived(r, s) == Queues(<<Task(r, s)>>, <<>>, <<>>, <<>>)

BothSent(o, b) == Queues(<<>>, <<o, b>>, <<>>, buildMessage(o) \o <<b>>)

FirstServed(o, s, b) == Queues(<<>>, <<o, b>>, <<Reply(o, s)>>, <<b>>)

FirstArrived(o, s, b) == Queues(<<Task(o, s)>>, <<b>>, <<>>, <<b>>)

BothServed(o, s, b, u) == Queues(<<>>, <<o, b>>, <<Reply(o, s), Reply(b, u)>>, <<>>)

OneOfEach(o, s, b, u) == Queues(<<Task(o, s)>>, <<b>>, <<Reply(b, u)>>, <<>>)

BothArrived(o, s, b, u) == Queues(<<Task(o, s), Task(b, u)>>, <<>>, <<>>, <<>>)

(***************************************************************************)
(* The phases of a call on an open connection, with what the server's      *)
(* transaction is in each.                                                 *)
(***************************************************************************)
Work(c, n) ==
  [by |-> c, try |-> attempt[c], ran |-> {c} \X {attempt[c]} \X (1 .. n)]

Owns(c) == txn # Nothing => txn.by = c /\ txn.try = attempt[c]

Mine(c) == {x \in committed : x.by = c}

Final == {"OK", "ERROR"}

Beginning(c) ==
  /\ pc[c] = "begin"
  /\ LET r == Req("BEGIN", c, 0) IN
     \/ Sent(r) /\ txn = Nothing
     \/ (Served(r, "OK") \/ Arrived(r, "OK")) /\ txn = Work(c, 0)

Operating(c) ==
  \E op \in Operation : LET r == Req(op, c, issued[c]) IN
    /\ issued[c] > 0
    /\ \/ Sent(r) /\ txn = Work(c, issued[c] - 1)
       \/ \E s \in Status :
            /\ Served(r, s) \/ Arrived(r, s)
            /\ Owns(c)
            /\ s \in {"OK", "NOT_FOUND"} => txn = Work(c, issued[c])

InFn(c) ==
  /\ pc[c] = "fn"
  /\ (Silent /\ txn = Work(c, issued[c])) \/ Operating(c)

Committing(c) ==
  /\ pc[c] = "commit"
  /\ LET r == Req("COMMIT", c, 0) IN
     \/ Sent(r) /\ txn = Work(c, issued[c]) /\ Mine(c) = {}
     \/ \E s \in Final :
          /\ Served(r, s) \/ Arrived(r, s)
          /\ txn = Nothing
          /\ s = "OK" => Work(c, issued[c]) \in committed

Overtaken(c, o, b) ==
  \/ BothSent(o, b) /\ txn # Nothing /\ Owns(c)
  \/ \E s \in Status : (FirstServed(o, s, b) \/ FirstArrived(o, s, b)) /\ Owns(c)
  \/ \E s \in Status, u \in Final :
       /\ BothServed(o, s, b, u) \/ OneOfEach(o, s, b, u) \/ BothArrived(o, s, b, u)
       /\ txn = Nothing

RollingBack(c) ==
  /\ pc[c] = "rollback"
  /\ LET b == Req("ROLLBACK", c, 0) IN
     \/ Sent(b) /\ Owns(c)
     \/ \E u \in Final : (Served(b, u) \/ Arrived(b, u)) /\ txn = Nothing
     \/ \E op \in Operation : Overtaken(c, Req(op, c, issued[c]), b)

Resting == {"idle", "backoff", "resolved", "rejected"}

OpenPhase ==
  \/ Silent /\ txn = Nothing /\ \A c \in Caller : pc[c] \in Resting
  \/ \E c \in Caller : Beginning(c) \/ InFn(c) \/ Committing(c) \/ RollingBack(c)

(***************************************************************************)
(* After the connection is closed every promise is rejected, and a COMMIT  *)
(* that the server has yet to read is the last thing it reads.             *)
(***************************************************************************)
ClosedCall(c) ==
  \/ pc[c] = "begin" /\ tasks = <<Rejected(Req("BEGIN", c, 0))>>
  \/ pc[c] = "fn" /\ tasks = <<>>
  \/ /\ pc[c] = "fn"
     /\ \E op \in Operation : tasks = <<Rejected(Req(op, c, issued[c]))>>
  \/ pc[c] = "commit" /\ tasks = <<Rejected(Req("COMMIT", c, 0))>>
  \/ pc[c] = "rollback" /\ tasks = <<Rejected(Req("ROLLBACK", c, 0))>>
  \/ /\ pc[c] = "rollback"
     /\ \E op \in Operation :
          tasks = <<Rejected(Req(op, c, issued[c])), Rejected(Req("ROLLBACK", c, 0))>>

NoCommit == \A i \in DOMAIN requests : requests[i] # Payload => requests[i].op # "COMMIT"

LateCommit(c) ==
  /\ requests = <<Req("COMMIT", c, 0)>>
  /\ pc[c] \in {"commit", "rejected"}
  /\ Owns(c) /\ Mine(c) = {}

ClosedPhase ==
  /\ pending = <<>> /\ responses = <<>>
  /\ \/ tasks = <<>> /\ \A c \in Caller : pc[c] \in Resting
     \/ \E c \in Caller : ClosedCall(c)
  /\ NoCommit \/ \E c \in Caller : LateCommit(c)

(* One call at a time. *)
Busy(c) == pc[c] \notin {"idle", "resolved", "rejected"}

OneAtATime == \A c, d \in Caller : Busy(c) /\ Busy(d) => c = d

Phases ==
  usage = "awaited" =>
    /\ OneAtATime
    /\ socket = "open" => OpenPhase
    /\ socket = "closed" => ClosedPhase

(* A call that waits to try again has a try left. *)
TriesLeft == \A c \in Caller : pc[c] = "backoff" => attempt[c] < MaxRetries

SInv == TypeOK /\ TriesLeft /\ Phases /\ CommittedOnce
-----------------------------------------------------------------------------
(***************************************************************************)
(* Short sequences, and messages.                                          *)
(***************************************************************************)
LEMMA Single ==
  ASSUME NEW a
  PROVE  /\ <<a>> # <<>> /\ Len(<<a>>) = 1 /\ Head(<<a>>) = a /\ Tail(<<a>>) = <<>>
         /\ Append(<<>>, a) = <<a>> /\ DOMAIN <<a>> = {1} /\ <<a>>[1] = a
         /\ SubSeq(<<a>>, 2, 1) = <<>> /\ SubSeq(<<a>>, 1, 0) = <<>>
<1>1. <<a>> # <<>>
  OBVIOUS
<1>2. Len(<<a>>) = 1 /\ DOMAIN <<a>> = {1} /\ <<a>>[1] = a
  OBVIOUS
<1>3. Head(<<a>>) = a
  OBVIOUS
<1>4. Tail(<<a>>) = <<>>
  OBVIOUS
<1>5. Append(<<>>, a) = <<a>>
  OBVIOUS
<1>6. SubSeq(<<a>>, 2, 1) = <<>> /\ SubSeq(<<a>>, 1, 0) = <<>>
  OBVIOUS
<1> QED BY <1>1, <1>2, <1>3, <1>4, <1>5, <1>6

LEMMA Pair ==
  ASSUME NEW a, NEW b
  PROVE  /\ <<a, b>> # <<>> /\ Len(<<a, b>>) = 2 /\ Head(<<a, b>>) = a
         /\ Tail(<<a, b>>) = <<b>> /\ Append(<<a>>, b) = <<a, b>>
         /\ DOMAIN <<a, b>> = {1, 2} /\ <<a, b>>[1] = a /\ <<a, b>>[2] = b
         /\ SubSeq(<<a, b>>, 2, 2) = <<b>> /\ SubSeq(<<a, b>>, 3, 2) = <<>>
<1>1. <<a, b>> # <<>>
  OBVIOUS
<1>2. Len(<<a, b>>) = 2 /\ DOMAIN <<a, b>> = {1, 2} /\ <<a, b>>[1] = a /\ <<a, b>>[2] = b
  OBVIOUS
<1>3. Head(<<a, b>>) = a
  OBVIOUS
<1>4. Tail(<<a, b>>) = <<b>>
  OBVIOUS
<1>5. Append(<<a>>, b) = <<a, b>>
  <2>1. <<a>> \in Seq({a, b}) /\ <<a, b>> \in Seq({a, b}) /\ b \in {a, b}
    OBVIOUS
  <2>2. /\ Append(<<a>>, b) \in Seq({a, b}) /\ Len(Append(<<a>>, b)) = Len(<<a, b>>)
        /\ \A i \in 1 .. Len(Append(<<a>>, b)) : Append(<<a>>, b)[i] = <<a, b>>[i]
    BY <2>1
  <2> QED BY Zenon, <2>1, <2>2, SeqEqual
<1>6. SubSeq(<<a, b>>, 2, 2) = <<b>>
  <2>1. <<a, b>> \in Seq({a, b})
    OBVIOUS
  <2>2. Tail(<<a, b>>) = SubSeq(<<a, b>>, 2, Len(<<a, b>>))
    BY Zenon, <1>1, <2>1, TailIsSubSeq
  <2> QED BY Zenon, <1>2, <1>4, <2>2
<1>7. SubSeq(<<a, b>>, 3, 2) = <<>>
  <2>1. 3 \in Int /\ 2 \in Int /\ 2 < 3
    OBVIOUS
  <2> QED BY Zenon, <2>1, SubSeqEmpty
<1> QED BY Zenon, <1>1, <1>2, <1>3, <1>4, <1>5, <1>6, <1>7

(* A message is its header, followed by its payload.                       *)
LEMMA Messages ==
  ASSUME NEW r \in Request
  PROVE  /\ buildMessage(r) \in Seq(Request \cup {Payload})
         /\ Len(buildMessage(r)) = PayloadSize(r.op) + 1 /\ PayloadSize(r.op) \in Nat
         /\ buildMessage(r) # <<>> /\ buildMessage(r)[1] = r
         /\ \A i \in DOMAIN buildMessage(r) : i # 1 => buildMessage(r)[i] = Payload
         /\ r.op \notin Operation => buildMessage(r) = <<r>>
<1> DEFINE n == PayloadSize(r.op)
           rest == [i \in 1 .. n |-> Payload]
           A == Request \cup {Payload}
<1>1. n \in {0, 1, 2} /\ (r.op \notin Operation => n = 0)
  BY DEF PayloadSize, Operation, Request
<1>2. buildMessage(r) = <<r>> \o rest
  BY Zenon DEF buildMessage
<1> HIDE DEF n
<1>3. rest \in Seq(A) /\ Len(rest) = n /\ \A i \in 1 .. n : rest[i] = Payload
  BY <1>1
<1>4. <<r>> \in Seq(A) /\ Len(<<r>>) = 1 /\ <<r>>[1] = r
  OBVIOUS
<1> HIDE DEF rest, A
<1>5. /\ <<r>> \o rest \in Seq(A) /\ Len(<<r>> \o rest) = n + 1
      /\ (<<r>> \o rest)[1] = r
      /\ \A i \in 1 .. (n + 1) : i # 1 => (<<r>> \o rest)[i] = Payload
  BY <1>1, <1>3, <1>4
<1>6. DOMAIN (<<r>> \o rest) = 1 .. (n + 1) /\ <<r>> \o rest # <<>>
  BY <1>1, <1>5
<1>7. n = 0 => <<r>> \o rest = <<r>>
  <2> HAVE n = 0
  <2>1. Len(<<r>> \o rest) = Len(<<r>>) /\ \A i \in 1 .. Len(<<r>> \o rest) : (<<r>> \o rest)[i] = <<r>>[i]
    BY <1>4, <1>5
  <2> QED BY Zenon, <1>4, <1>5, <2>1, SeqEqual
<1>8. n \in Nat
  BY <1>1
<1> QED BY Zenon, <1>1, <1>2, <1>5, <1>6, <1>7, <1>8 DEF n, A

(* Reading an operation leaves what was sent after it.                     *)
LEMMA ReadsOne ==
  ASSUME NEW r \in Request, NEW b \in Request
  PROVE  LET m == buildMessage(r)
             p == PayloadSize(r.op) IN
         /\ Head(m) = r /\ Len(m) > p /\ SubSeq(m, p + 2, Len(m)) = <<>>
         /\ m \o <<b>> # <<>> /\ Head(m \o <<b>>) = r /\ Len(m \o <<b>>) > p
         /\ SubSeq(m \o <<b>>, p + 2, Len(m \o <<b>>)) = <<b>>
<1> DEFINE m == buildMessage(r)
           p == PayloadSize(r.op)
           A == Request \cup {Payload}
           t == <<b>>
<1>1. m \in Seq(A) /\ Len(m) = p + 1 /\ p \in Nat /\ m # <<>> /\ m[1] = r
  BY Zenon, Messages
<1>2. t \in Seq(A) /\ Len(t) = 1 /\ t[1] = b
  OBVIOUS
<1> HIDE DEF m, p, A, t
<1>3. Head(m) = r /\ Len(m) > p
  BY <1>1
<1>4. SubSeq(m, p + 2, Len(m)) = <<>>
  <2>1. p + 2 \in Int /\ Len(m) \in Int /\ Len(m) < p + 2
    BY <1>1
  <2> QED BY Zenon, <2>1, SubSeqEmpty
<1>5. m \o t \in Seq(A) /\ Len(m \o t) = p + 2 /\ (m \o t)[1] = r
  <2>1. /\ m \o t \in Seq(A) /\ Len(m \o t) = Len(m) + Len(t)
        /\ \A i \in 1 .. Len(m) + Len(t) :
             (m \o t)[i] = IF i <= Len(m) THEN m[i] ELSE t[i - Len(m)]
    BY Zenon, <1>1, <1>2, ConcatProperties
  <2> QED BY <1>1, <1>2, <2>1
<1>6. m \o t # <<>> /\ Head(m \o t) = r /\ Len(m \o t) > p
  BY <1>1, <1>5
<1>7. SubSeq(m \o t, p + 2, p + 2) = SubSeq(t, 1, 1)
  <2> DEFINE q == p + 2
  <2>1. q \in Len(m) + 1 .. Len(m) + Len(t) /\ q - Len(m) = 1
    BY <1>1, <1>2
  <2> HIDE DEF q
  <2>2. SubSeq(m \o t, q, q) = SubSeq(t, q - Len(m), q - Len(m))
    BY Zenon, <1>1, <1>2, <2>1, SubSeqOfConcat2
  <2> QED BY Zenon, <2>1, <2>2 DEF q
<1>8. SubSeq(t, 1, 1) = t
  BY Zenon, <1>2, SubSeqFull
<1> QED BY Zenon, <1>3, <1>4, <1>5, <1>6, <1>7, <1>8 DEF m, p, t
-----------------------------------------------------------------------------
(***************************************************************************)
(* Types.                                                                  *)
(***************************************************************************)
Promise == [req: Request, status: Status \cup {"CLOSED"}, value: BOOLEAN]

Response == [status: Status, to: Request \cup {Nothing}]

Label == {"idle", "begin", "fn", "commit", "rollback", "backoff", "resolved", "rejected"}

LEMMA ReqType ==
  ASSUME TypeOK, NEW c \in Caller, NEW n \in Nat,
         NEW op \in Operation \cup {"BEGIN", "COMMIT", "ROLLBACK"}
  PROVE  Req(op, c, n) \in Request
<1>1. attempt[c] \in Attempt
  BY Zenon DEF TypeOK
<1> QED BY <1>1 DEF Req, Request

LEMMA RejectedType ==
  ASSUME NEW r \in Request PROVE Rejected(r) \in Promise
BY DEF Rejected, Promise

(* What send() does to the queues.                                         *)
LEMMA SendType ==
  ASSUME TypeOK, NEW r \in Request, NEW rest \in Seq(Promise), SendAfter(rest, r)
  PROVE  /\ pending' \in Seq(Request) /\ tasks' \in Seq(Promise)
         /\ requests' \in Seq(Request \cup {Payload})
<1>1. pending \in Seq(Request) /\ requests \in Seq(Request \cup {Payload})
  BY Zenon DEF TypeOK
<1>2. buildMessage(r) \in Seq(Request \cup {Payload}) /\ Rejected(r) \in Promise
  BY Zenon, Messages, RejectedType
<1>3. Append(pending, r) \in Seq(Request) /\ Append(rest, Rejected(r)) \in Seq(Promise)
  BY Zenon, <1>1, <1>2, AppendProperties
<1>4. requests \o buildMessage(r) \in Seq(Request \cup {Payload})
  BY Zenon, <1>1, <1>2, ConcatProperties
<1> QED BY Zenon, <1>1, <1>3, <1>4 DEF SendAfter

(* What an answer does to the server.                                      *)
LEMMA AnswerType ==
  ASSUME TypeOK, NEW r \in Request \cup {Nothing}, NEW s \in Status,
         NEW next \in Txn \cup {Nothing}, Answer(r, s, next)
  PROVE  /\ responses' \in Seq(Response)
         /\ handler' \in {"running", "ended", "killed"} /\ txn' \in Txn \cup {Nothing}
<1>1. /\ responses \in Seq(Response)
      /\ handler \in {"running", "ended", "killed"}
  BY Zenon DEF TypeOK, Response
<1>2. [status |-> s, to |-> r] \in Response
  BY DEF Response
<1>3. Append(responses, [status |-> s, to |-> r]) \in Seq(Response)
  BY Zenon, <1>1, <1>2, AppendProperties
<1> QED BY Zenon, <1>1, <1>3 DEF Answer

(* A call goes on, sending a request.                                      *)
LEMMA StepType ==
  ASSUME TypeOK, NEW c \in Caller, NEW label \in Label, NEW r \in Request, Step(c, label, r),
         attempt' \in [Caller -> Attempt], issued' \in [Caller -> 0 .. MaxOps[usage]],
         deadlock' = deadlock
  PROVE  TypeOK'
<1>1. /\ usage \in Usages /\ pc \in [Caller -> Label] /\ deadlock \in [Caller -> BOOLEAN]
      /\ socket \in {"open", "closed"} /\ tasks \in Seq(Promise)
      /\ responses \in Seq(Response)
      /\ handler \in {"running", "ended", "killed"} /\ txn \in Txn \cup {Nothing}
      /\ committed \in SUBSET Txn
  BY Zenon DEF TypeOK, Label, Promise, Response
<1>2. /\ pc' = [pc EXCEPT ![c] = label] /\ SendAfter(tasks, r)
      /\ UNCHANGED <<usage, socket, responses, handler, txn, committed>>
  BY Zenon DEF Step, send, serverVars
<1>3. pc' \in [Caller -> Label]
  BY Zenon, <1>1, <1>2
<1>4. /\ pending' \in Seq(Request) /\ tasks' \in Seq(Promise)
      /\ requests' \in Seq(Request \cup {Payload})
  BY Zenon, <1>1, <1>2, SendType
<1> QED BY Zenon, <1>1, <1>2, <1>3, <1>4 DEF TypeOK, Label, Promise, Response
(* transact() and fn.                                                      *)
LEMMA CallType ==
  ASSUME TypeOK, TriesLeft, NEW c \in Caller, Call(c)
  PROVE  TypeOK' /\ TriesLeft'
<1>1. /\ attempt \in [Caller -> Attempt] /\ issued \in [Caller -> 0 .. MaxOps[usage]]
      /\ pc \in [Caller -> Label] /\ usage \in Usages
  BY Zenon DEF TypeOK, Label
<1>2. MaxRetries \in Nat /\ MaxOps[usage] \in Nat
  BY Zenon, <1>1, SessionAssumption
<1>3. 0 \in Nat /\ issued[c] \in Nat /\ issued[c] + 1 \in Nat
  BY <1>1, <1>2
<1>4. CASE begin(c)
  <2>1. /\ Step(c, "begin", Req("BEGIN", c, 0)) /\ pc' = [pc EXCEPT ![c] = "begin"]
        /\ UNCHANGED <<attempt, issued, deadlock>>
    BY Zenon, <1>4 DEF begin, Step
  <2>2. TypeOK'
    BY Zenon, <1>1, <1>3, <2>1, ReqType, StepType DEF Label
  <2> QED BY Zenon, <1>1, <2>1, <2>2 DEF TriesLeft
<1>5. CASE commit(c)
  <2>1. /\ Step(c, "commit", Req("COMMIT", c, 0)) /\ pc' = [pc EXCEPT ![c] = "commit"]
        /\ UNCHANGED <<attempt, issued, deadlock>>
    BY Zenon, <1>5 DEF commit, Step
  <2>2. TypeOK'
    BY Zenon, <1>1, <1>3, <2>1, ReqType, StepType DEF Label
  <2> QED BY Zenon, <1>1, <2>1, <2>2 DEF TriesLeft
<1>6. CASE Throw(c)
  <2>1. /\ Step(c, "rollback", Req("ROLLBACK", c, 0)) /\ pc' = [pc EXCEPT ![c] = "rollback"]
        /\ UNCHANGED <<attempt, issued, deadlock>>
    BY Zenon, <1>6 DEF Throw, Step
  <2>2. TypeOK'
    BY Zenon, <1>1, <1>3, <2>1, ReqType, StepType DEF Label
  <2> QED BY Zenon, <1>1, <2>1, <2>2 DEF TriesLeft
<1>7. CASE Retry(c)
  <2> DEFINE r == [Req("BEGIN", c, 0) EXCEPT !.try = @ + 1]
  <2>1. /\ Step(c, "begin", r) /\ pc' = [pc EXCEPT ![c] = "begin"] /\ pc[c] = "backoff"
        /\ attempt' = [attempt EXCEPT ![c] = @ + 1] /\ UNCHANGED <<issued, deadlock>>
    BY Zenon, <1>7 DEF Retry, Step
  <2>2. attempt[c] < MaxRetries /\ attempt[c] \in Attempt
    BY Zenon, <1>1, <2>1 DEF TriesLeft
  <2>3. attempt[c] + 1 \in Attempt
    BY <1>2, <2>2 DEF Attempt
  <2>4. r \in Request
    BY <1>3, <2>3 DEF Req, Request
  <2>5. attempt' \in [Caller -> Attempt]
    BY Zenon, <1>1, <2>1, <2>3
  <2>6. TypeOK'
    BY Zenon, <1>1, <2>1, <2>4, <2>5, StepType DEF Label
  <2> QED BY Zenon, <1>1, <2>1, <2>6 DEF TriesLeft
<1>8. ASSUME NEW op \in Operation, Operate(c, op) PROVE TypeOK' /\ TriesLeft'
  <2>1. /\ Step(c, "fn", Req(op, c, issued[c] + 1)) /\ pc' = [pc EXCEPT ![c] = "fn"]
        /\ issued[c] < MaxOps[usage] /\ issued' = [issued EXCEPT ![c] = @ + 1]
        /\ UNCHANGED <<attempt, deadlock>>
    BY Zenon, <1>8 DEF Operate, Step
  <2>2. issued[c] + 1 \in 0 .. MaxOps[usage]
    BY <1>1, <1>2, <1>3, <2>1
  <2>3. issued' \in [Caller -> 0 .. MaxOps[usage]]
    BY Zenon, <1>1, <2>1, <2>2
  <2>4. TypeOK'
    BY Zenon, <1>1, <1>3, <2>1, <2>3, ReqType, StepType DEF Label
  <2> QED BY Zenon, <1>1, <2>1, <2>4 DEF TriesLeft
<1> QED BY Zenon, <1>4, <1>5, <1>6, <1>7, <1>8 DEF Call

(* A call goes on to v.                                                    *)
LEMMA Moves ==
  ASSUME TypeOK, NEW c \in Caller, NEW v \in Label, pc' = [pc EXCEPT ![c] = v]
  PROVE  pc' \in [Caller -> Label] /\ pc'[c] = v /\ \A d \in Caller : d # c => pc'[d] = pc[d]
BY Zenon DEF TypeOK, Label

(* Continuations.                                                          *)
LEMMA ContinueType ==
  ASSUME TypeOK, TriesLeft, Continue
  PROVE  TypeOK' /\ TriesLeft'
<1> DEFINE t == Head(tasks)
           c == t.req.by
<1>1. /\ usage \in Usages /\ pc \in [Caller -> Label] /\ deadlock \in [Caller -> BOOLEAN]
      /\ attempt \in [Caller -> Attempt] /\ issued \in [Caller -> 0 .. MaxOps[usage]]
      /\ tasks \in Seq(Promise) /\ tasks # <<>>
  BY Zenon DEF TypeOK, Label, Promise, Continue
<1>2. t \in Promise /\ Tail(tasks) \in Seq(Promise)
  BY Zenon, <1>1, HeadTailProperties
<1>3. t.req \in Request
  BY <1>2 DEF Promise
<1>4. c \in Caller
  BY <1>3 DEF Request
<1>5. MaxOps[usage] \in Nat /\ 0 \in Nat
  BY Zenon, <1>1, SessionAssumption
<1>6. 0 \in 0 .. MaxOps[usage]
  BY <1>5
<1>7. UNCHANGED <<socket, responses, handler, txn, committed>>
  BY Zenon DEF Continue, serverVars
<1> HIDE DEF t, c
<1>8. /\ usage' = usage /\ attempt' = attempt /\ tasks' \in Seq(Promise)
      /\ pending' \in Seq(Request) /\ requests' \in Seq(Request \cup {Payload})
      /\ pc' \in [Caller -> Label] /\ issued' \in [Caller -> 0 .. MaxOps[usage]]
      /\ deadlock' \in [Caller -> BOOLEAN]
      /\ \A d \in Caller : pc'[d] = "backoff" => attempt[d] < MaxRetries
  <2>1. pending \in Seq(Request) /\ requests \in Seq(Request \cup {Payload})
    BY Zenon DEF TypeOK
  <2>2. CASE BeginAnswered(t)
    <3>1. /\ pc' = [pc EXCEPT ![c] = IF checkResponse(t) THEN "fn" ELSE "rejected"]
          /\ issued' = [issued EXCEPT ![c] = 0] /\ tasks' = Tail(tasks)
          /\ UNCHANGED <<usage, attempt, deadlock, pending, requests>>
      BY Zenon, <2>2 DEF BeginAnswered, c
    <3>2. pc' \in [Caller -> Label] /\ pc'[c] # "backoff" /\ \A d \in Caller : d # c => pc'[d] = pc[d]
      BY <1>1, <1>4, <3>1 DEF Label
    <3>3. issued' \in [Caller -> 0 .. MaxOps[usage]]
      BY Zenon, <1>1, <1>6, <3>1
    <3> QED BY Zenon, <1>1, <1>2, <2>1, <3>1, <3>2, <3>3 DEF TriesLeft
  <2>3. CASE OperationAnswered(t)
    BY Zenon, <1>1, <1>2, <2>1, <2>3 DEF OperationAnswered, clientVars, TriesLeft
  <2>4. CASE OperationThrows(t)
    <3>1. /\ pc' = [pc EXCEPT ![c] = "rollback"]
          /\ deadlock' = [deadlock EXCEPT ![c] = (t.status = "DEADLOCK")]
          /\ SendAfter(Tail(tasks), Req("ROLLBACK", c, 0))
          /\ UNCHANGED <<usage, attempt, issued>>
      BY Zenon, <2>4 DEF OperationThrows, c
    <3>2. pc' \in [Caller -> Label] /\ pc'[c] # "backoff" /\ \A d \in Caller : d # c => pc'[d] = pc[d]
      BY <1>1, <1>4, <3>1 DEF Label
    <3>3. deadlock' \in [Caller -> BOOLEAN]
      BY Zenon, <1>1, <3>1
    <3>4. Req("ROLLBACK", c, 0) \in Request
      BY Zenon, <1>4, <1>5, ReqType
    <3> QED BY Zenon, <1>1, <1>2, <3>1, <3>2, <3>3, <3>4, SendType DEF TriesLeft
  <2>5. CASE CommitAnswered(t)
    <3>1. /\ pc' = [pc EXCEPT ![c] = IF checkResponse(t) THEN "resolved"
                                     ELSE AfterRollback(c, t.status = "DEADLOCK")]
          /\ tasks' = Tail(tasks)
          /\ UNCHANGED <<usage, attempt, issued, deadlock, pending, requests>>
      BY Zenon, <2>5 DEF CommitAnswered, c
    <3> DEFINE v == IF checkResponse(t) THEN "resolved" ELSE AfterRollback(c, t.status = "DEADLOCK")
    <3>2. v \in Label /\ (v = "backoff" => attempt[c] < MaxRetries)
      BY DEF Label, AfterRollback
    <3> HIDE DEF v
    <3>3. /\ pc' \in [Caller -> Label] /\ \A d \in Caller : d # c => pc'[d] = pc[d]
          /\ pc'[c] = "backoff" => attempt[c] < MaxRetries
      BY Zenon, <1>4, <3>1, <3>2, Moves DEF v
    <3> QED BY Zenon, <1>1, <1>2, <2>1, <3>1, <3>3 DEF TriesLeft
  <2>6. CASE RollbackAnswered(t)
    <3>1. /\ pc' = [pc EXCEPT ![c] = AfterRollback(c, deadlock[c])]
          /\ deadlock' = [deadlock EXCEPT ![c] = FALSE] /\ tasks' = Tail(tasks)
          /\ UNCHANGED <<usage, attempt, issued, pending, requests>>
      BY Zenon, <2>6 DEF RollbackAnswered, c
    <3> DEFINE v == AfterRollback(c, deadlock[c])
    <3>2. v \in Label /\ (v = "backoff" => attempt[c] < MaxRetries)
      BY DEF Label, AfterRollback
    <3> HIDE DEF v
    <3>3. /\ pc' \in [Caller -> Label] /\ \A d \in Caller : d # c => pc'[d] = pc[d]
          /\ pc'[c] = "backoff" => attempt[c] < MaxRetries
      BY Zenon, <1>4, <3>1, <3>2, Moves DEF v
    <3>4. deadlock' \in [Caller -> BOOLEAN]
      BY Zenon, <1>1, <3>1
    <3> QED BY Zenon, <1>1, <1>2, <2>1, <3>1, <3>3, <3>4 DEF TriesLeft
  <2> QED BY Zenon, <2>2, <2>3, <2>4, <2>5, <2>6 DEF Continue, t
<1> QED BY Zenon, <1>1, <1>7, <1>8 DEF TypeOK, TriesLeft, Label, Promise
LEMMA FunctionIsSeq ==
  ASSUME NEW S, NEW k \in Nat, NEW f \in [1 .. k -> S]
  PROVE  f \in Seq(S)
BY Zenon, SeqDef

(* A chunk of answers arrives.                                             *)
LEMMA ReceiveType ==
  ASSUME TypeOK, Receive
  PROVE  TypeOK'
<1>1. /\ pending \in Seq(Request)
      /\ responses \in Seq(Response)
  BY Zenon DEF TypeOK, Response
<1>2. PICK n \in 1 .. Len(responses) : drainResponses(n)
  BY Zenon DEF Receive
<1> DEFINE m == Matched(n)
           value(i) == /\ responses[i].status = "OK"
                       /\ responses[i].to # Nothing
                       /\ responses[i].to.op = "GET"
           f == [i \in 1 .. m |-> [req |-> pending[i], status |-> responses[i].status,
                                    value |-> value(i)]]
<1>3. /\ tasks' = f /\ pending' = SubSeq(pending, m + 1, Len(pending))
      /\ responses' = SubSeq(responses, n + 1, Len(responses))
      /\ UNCHANGED <<socket, requests, usage, pc, attempt, issued, deadlock, handler, txn, committed>>
  BY Zenon, <1>2 DEF drainResponses, clientVars, serverVars
<1>4. m \in Nat /\ m <= Len(pending) /\ m <= n /\ n \in 1 .. Len(responses)
  BY <1>1, <1>2 DEF Matched
<1> HIDE DEF m
<1>5. \A i \in 1 .. m : /\ pending[i] \in Request
                        /\ responses[i] \in Response
  BY <1>1, <1>4
<1>6. \A i \in 1 .. m : responses[i].status \in Status \cup {"CLOSED"}
  BY <1>5 DEF Response
<1>7. \A i : value(i) \in BOOLEAN
  BY Zenon
<1> HIDE DEF value
<1>8. \A i \in 1 .. m : [req |-> pending[i], status |-> responses[i].status,
                         value |-> value(i)] \in Promise
  BY <1>5, <1>6, <1>7 DEF Promise
<1>9. f \in [1 .. m -> Promise]
  BY Zenon, <1>8
<1> HIDE DEF f
<1>10. tasks' \in Seq(Promise)
  BY Zenon, <1>3, <1>4, <1>9, FunctionIsSeq
<1>11. pending' \in Seq(Request)
  BY <1>1, <1>3, <1>4
<1>12. responses' \in Seq(Response)
  BY <1>1, <1>3, <1>4
<1> QED BY Zenon, <1>3, <1>10, <1>11, <1>12 DEF TypeOK, Promise, Response

(* The connection is closed.                                               *)
LEMMA CloseType ==
  ASSUME TypeOK, close
  PROVE  TypeOK'
<1>1. pending \in Seq(Request) /\ requests \in Seq(Request \cup {Payload})
  BY Zenon DEF TypeOK
<1> DEFINE f == [i \in DOMAIN pending |-> Rejected(pending[i])]
<1>2. /\ socket' = "closed" /\ tasks' = f /\ pending' = <<>> /\ responses' = <<>>
      /\ \E n \in 0 .. Len(requests) : requests' = SubSeq(requests, 1, n)
      /\ UNCHANGED <<usage, pc, attempt, issued, deadlock, handler, txn, committed>>
  BY Zenon DEF close, clientVars, serverVars
<1>3. DOMAIN pending = 1 .. Len(pending) /\ Len(pending) \in Nat
  BY <1>1
<1>4. \A i \in DOMAIN pending : pending[i] \in Request
  BY <1>1
<1>5. f \in [1 .. Len(pending) -> Promise]
  BY Zenon, <1>3, <1>4, RejectedType
<1>6. tasks' \in Seq(Promise)
  BY Zenon, <1>2, <1>3, <1>5, FunctionIsSeq
<1>7. requests' \in Seq(Request \cup {Payload})
  BY <1>1, <1>2
<1>8. pending' \in Seq(Request) /\ responses' \in Seq(Response)
  BY <1>2
<1> QED BY Zenon, <1>2, <1>6, <1>7, <1>8 DEF TypeOK, Promise, Response
(* The handler's thread.                                                   *)
LEMMA PerformType ==
  ASSUME TypeOK, NEW op \in Operation, NEW outcomes \in SUBSET Status, Perform(op, outcomes)
  PROVE  /\ requests' \in Seq(Request \cup {Payload}) /\ committed' = committed
         /\ responses' \in Seq(Response)
         /\ handler' \in {"running", "ended", "killed"} /\ txn' \in Txn \cup {Nothing}
<1> DEFINE r == Head(requests)
<1>1. /\ requests \in Seq(Request \cup {Payload}) /\ requests # <<>> /\ r # Payload
      /\ txn \in Txn \cup {Nothing}
  BY Zenon DEF TypeOK, Perform, At
<1>2. r \in Request /\ Tail(requests) \in Seq(Request \cup {Payload})
  <2>1. r \in Request \cup {Payload} /\ Tail(requests) \in Seq(Request \cup {Payload})
    BY Zenon, <1>1, HeadTailProperties
  <2> QED BY Zenon, <1>1, <2>1
<1>3. PayloadSize(op) \in Nat
  BY DEF PayloadSize
<1>4. read_string(op) \in Seq(Request \cup {Payload})
  BY <1>1, <1>3 DEF read_string
<1>5. txn # Nothing => [txn EXCEPT !.ran = @ \cup {<<r.by, r.try, r.n>>}] \in Txn
  BY <1>1, <1>2 DEF Txn, Request
<1>6. "ERROR" \in Status /\ "DEADLOCK" \in Status
  BY DEF Status
<1>7. \/ requests' = Tail(requests) \/ requests' = read_string(op)
  BY Zenon DEF Perform
<1>8. \E s \in Status, next \in Txn \cup {Nothing} : Answer(r, s, next)
  BY Zenon, <1>1, <1>5, <1>6 DEF Perform
<1>9. committed' = committed
  BY Zenon DEF Perform
<1> QED BY Zenon, <1>2, <1>4, <1>7, <1>8, <1>9, AnswerType

LEMMA RunType ==
  ASSUME TypeOK, run
  PROVE  TypeOK'
<1>1. /\ requests \in Seq(Request \cup {Payload}) /\ txn \in Txn \cup {Nothing}
      /\ committed \in SUBSET Txn /\ handler \in {"running", "ended", "killed"}
      /\ responses \in Seq(Response)
  BY Zenon DEF TypeOK, Response
<1>2. UNCHANGED <<socket, pending, tasks, usage, pc, attempt, issued, deadlock>>
  BY Zenon DEF run, clientVars
<1>3. "ERROR" \in Status /\ "OK" \in Status /\ "NOT_FOUND" \in Status
  BY DEF Status
<1>4. requests # <<>> /\ Head(requests) # Payload =>
        Head(requests) \in Request /\ Tail(requests) \in Seq(Request \cup {Payload})
  <2>1. requests # <<>> => /\ Head(requests) \in Request \cup {Payload}
                           /\ Tail(requests) \in Seq(Request \cup {Payload})
    BY Zenon, <1>1, HeadTailProperties
  <2> QED BY Zenon, <2>1
<1>5. SUFFICES /\ requests' \in Seq(Request \cup {Payload}) /\ committed' \in SUBSET Txn
               /\ responses' \in Seq(Response)
               /\ handler' \in {"running", "ended", "killed"} /\ txn' \in Txn \cup {Nothing}
  BY Zenon, <1>2 DEF TypeOK, Response
<1>6. CASE handle_begin
  <2> DEFINE r == Head(requests)
  <2>1. requests # <<>> /\ r # Payload /\ requests' = Tail(requests) /\ committed' = committed
    BY Zenon, <1>6 DEF handle_begin, At
  <2>2. [by |-> r.by, try |-> r.try, ran |-> {}] \in Txn
    BY <1>4, <2>1 DEF Txn, Request
  <2>3. \E s \in Status, next \in Txn \cup {Nothing} : Answer(r, s, next)
    BY Zenon, <1>1, <1>3, <1>6, <2>2 DEF handle_begin
  <2> QED BY Zenon, <1>1, <1>4, <2>1, <2>3, AnswerType
<1>7. CASE handle_get \/ handle_put \/ handle_delete
  BY Zenon, <1>1, <1>3, <1>7, PerformType DEF handle_get, handle_put, handle_delete, Operation
<1>8. CASE handle_commit
  <2>1. requests # <<>> /\ Head(requests) # Payload /\ requests' = Tail(requests)
    BY Zenon, <1>8 DEF handle_commit, At
  <2>2. \E s \in Status : Answer(Head(requests), s, Nothing)
    BY Zenon, <1>3, <1>8 DEF handle_commit
  <2>3. committed' = committed \/ (txn # Nothing /\ committed' = committed \cup {txn})
    BY Zenon, <1>8 DEF handle_commit
  <2>4. committed' \in SUBSET Txn
    BY <1>1, <2>3
  <2> QED BY Zenon, <1>1, <1>4, <2>1, <2>2, <2>4, AnswerType
<1>9. CASE handle_rollback
  <2>1. /\ requests # <<>> /\ Head(requests) # Payload /\ requests' = Tail(requests)
        /\ committed' = committed
    BY Zenon, <1>9 DEF handle_rollback, At
  <2>2. \E s \in Status : Answer(Head(requests), s, Nothing)
    BY Zenon, <1>3, <1>9 DEF handle_rollback
  <2> QED BY Zenon, <1>1, <1>4, <2>1, <2>2, AnswerType
<1>10. CASE UnknownOpcode
  <2>1. requests # <<>> /\ requests' = Tail(requests) /\ committed' = committed /\ Answer(Nothing, "ERROR", txn)
    BY Zenon, <1>10 DEF UnknownOpcode
  <2>2. requests' \in Seq(Request \cup {Payload})
    BY Zenon, <1>1, <2>1, HeadTailProperties
  <2> QED BY Zenon, <1>1, <1>3, <2>1, <2>2, AnswerType
<1>11. CASE End
  <2>1. /\ handler' = "ended" /\ requests' = <<>> /\ txn' = Nothing
        /\ UNCHANGED <<responses, committed>>
    BY Zenon, <1>11 DEF End
  <2>2. <<>> \in Seq(Request \cup {Payload})
    OBVIOUS
  <2> QED BY Zenon, <1>1, <2>1, <2>2
<1> QED BY Zenon, <1>6, <1>7, <1>8, <1>9, <1>10, <1>11 DEF run
-----------------------------------------------------------------------------
(***************************************************************************)
(* The client takes a step.                                                *)
(***************************************************************************)
LEMMA WorkType ==
  ASSUME TypeOK, NEW c \in Caller, NEW n \in Nat
  PROVE  /\ Work(c, n) \in Txn /\ Work(c, n) # Nothing
         /\ Work(c, n).by = c /\ Work(c, n).try = attempt[c]
<1>1. attempt[c] \in Attempt
  BY Zenon DEF TypeOK
<1>2. Work(c, n) \in Txn /\ Work(c, n).by = c /\ Work(c, n).try = attempt[c]
  BY <1>1 DEF Work, Txn
<1> QED BY Zenon, <1>2, SentinelAssumption

(* The phase of the call that is under way is the connection's.            *)
LEMMA OpenCall ==
  ASSUME OneAtATime, OpenPhase, NEW c \in Caller, Busy(c)
  PROVE  \/ Beginning(c) \/ InFn(c) \/ Committing(c) \/ RollingBack(c)
         \/ pc[c] = "backoff" /\ Silent /\ txn = Nothing
<1>1. CASE Silent /\ txn = Nothing /\ \A d \in Caller : pc[d] \in Resting
  BY <1>1 DEF Resting, Busy
<1>2. ASSUME NEW d \in Caller, Beginning(d) \/ InFn(d) \/ Committing(d) \/ RollingBack(d)
      PROVE  Beginning(c) \/ InFn(c) \/ Committing(c) \/ RollingBack(c)
  <2>1. pc[d] \in {"begin", "fn", "commit", "rollback"}
    BY Zenon, <1>2 DEF Beginning, InFn, Committing, RollingBack
  <2>2. Busy(d)
    BY <2>1 DEF Busy
  <2> QED BY Zenon, <1>2, <2>2 DEF OneAtATime
<1> QED BY Zenon, <1>1, <1>2 DEF OpenPhase

LEMMA OpenLabel ==
  ASSUME OneAtATime, OpenPhase, NEW c \in Caller
  PROVE  /\ pc[c] = "begin" => Beginning(c)
         /\ pc[c] = "fn" => InFn(c)
         /\ pc[c] = "commit" => Committing(c)
         /\ pc[c] = "rollback" => RollingBack(c)
         /\ pc[c] = "backoff" => Silent /\ txn = Nothing
         /\ (\A d \in Caller : ~Busy(d)) => Silent /\ txn = Nothing
<1>1. Busy(c) => \/ Beginning(c) \/ InFn(c) \/ Committing(c) \/ RollingBack(c)
                 \/ pc[c] = "backoff" /\ Silent /\ txn = Nothing
  BY Zenon, OpenCall
<1>2. pc[c] \in {"begin", "fn", "commit", "rollback", "backoff"} => Busy(c)
  BY DEF Busy
<1>3. /\ Beginning(c) => pc[c] = "begin"
      /\ InFn(c) => pc[c] = "fn"
  BY Zenon DEF Beginning, InFn
<1>4. /\ Committing(c) => pc[c] = "commit"
      /\ RollingBack(c) => pc[c] = "rollback"
  BY Zenon DEF Committing, RollingBack
<1>5. (\A d \in Caller : ~Busy(d)) => Silent /\ txn = Nothing
  <2>1. \A d \in Caller : Beginning(d) \/ InFn(d) \/ Committing(d) \/ RollingBack(d) =>
          pc[d] \in {"begin", "fn", "commit", "rollback"}
    BY Zenon DEF Beginning, InFn, Committing, RollingBack
  <2>2. \A d \in Caller : pc[d] \in {"begin", "fn", "commit", "rollback"} => Busy(d)
    BY DEF Busy
  <2> QED BY Zenon, <2>1, <2>2 DEF OpenPhase
<1> QED BY <1>1, <1>2, <1>3, <1>4, <1>5

(* One call at a time, when the call under way, or the first, goes on.     *)
LEMMA OneKept ==
  ASSUME OneAtATime, NEW c \in Caller, \A d \in Caller : d # c => pc'[d] = pc[d],
         Busy(c) \/ \A d \in Caller : ~Busy(d)
  PROVE  OneAtATime'
<1>1. \A d \in Caller : d # c => (Busy(d)' <=> Busy(d))
  BY Zenon DEF Busy
<1> QED BY Zenon, <1>1 DEF OneAtATime

(* Committed once, when a call goes on and nothing is committed.           *)
LEMMA OnceKept ==
  ASSUME CommittedOnce, usage = "awaited", usage' = usage, committed' = committed,
         NEW c \in Caller,
         \A d \in Caller : d # c =>
           pc'[d] = pc[d] /\ attempt'[d] = attempt[d] /\ issued'[d] = issued[d],
         Mine(c) # {} => pc'[c] \in {"commit", "resolved", "rejected"},
         pc'[c] = "resolved" =>
           \E x \in Mine(c) : /\ x.try = attempt'[c]
                              /\ x.ran = {c} \X {x.try} \X (1 .. issued'[c])
  PROVE  CommittedOnce'
<1> DEFINE Once(d) ==
      /\ \A x, y \in Mine(d) : x = y
      /\ Mine(d) # {} => pc[d] \in {"commit", "resolved", "rejected"}
      /\ pc[d] = "resolved" =>
           \E x \in Mine(d) : /\ x.try = attempt[d]
                              /\ x.ran = {d} \X {x.try} \X (1 .. issued[d])
<1>1. \A d \in Caller : Once(d)
  BY Zenon DEF CommittedOnce, Mine
<1>2. \A d : Mine(d)' = Mine(d)
  BY Zenon DEF Mine
<1>3. ASSUME NEW d \in Caller PROVE Once(d)'
  <2>1. CASE d # c
    <3>1. pc'[d] = pc[d] /\ attempt'[d] = attempt[d] /\ issued'[d] = issued[d] /\ Mine(d)' = Mine(d)
      BY Zenon, <1>2, <2>1
    <3>2. Once(d)
      BY Zenon, <1>1
    <3>3. ASSUME pc[d] = "resolved"
          PROVE  \E x \in Mine(d) : /\ x.try = attempt'[d]
                                    /\ x.ran = {d} \X {x.try} \X (1 .. issued'[d])
      BY Zenon, <3>1, <3>2, <3>3
    <3> QED BY Zenon, <3>1, <3>2, <3>3
  <2>2. Once(c)'
    <3>1. \A x, y \in Mine(c)' : x = y
      BY Zenon, <1>1, <1>2
    <3>2. Mine(c)' # {} => pc'[c] \in {"commit", "resolved", "rejected"}
      BY Zenon, <1>2
    <3> QED BY Zenon, <1>2, <3>1, <3>2
  <2> QED BY Zenon, <2>1, <2>2
<1> QED BY Zenon, <1>3 DEF CommittedOnce, Mine
LEMMA OnceStays ==
  ASSUME CommittedOnce, UNCHANGED <<usage, pc, attempt, issued, committed>>
  PROVE  CommittedOnce'
<1>1. /\ usage' = usage /\ pc' = pc /\ attempt' = attempt /\ issued' = issued
      /\ committed' = committed
  BY Zenon
<1> QED BY <1>1 DEF CommittedOnce

LEMMA StepOpen ==
  ASSUME socket = "open", NEW c, NEW label, NEW r, Step(c, label, r)
  PROVE  /\ pc' = [pc EXCEPT ![c] = label] /\ tasks' = tasks /\ pending' = Append(pending, r)
         /\ requests' = requests \o buildMessage(r)
         /\ UNCHANGED <<usage, socket, responses, txn, committed>>
BY Zenon DEF Step, send, SendAfter, serverVars

(* On a silent connection a request is all there is.                       *)
LEMMA SendAlone ==
  ASSUME socket = "open", Silent, NEW c, NEW label, NEW r \in Request, Step(c, label, r)
  PROVE  tasks' = <<>> /\ pending' = <<r>> /\ responses' = <<>> /\ requests' = buildMessage(r)
<1>1. <<>> \o buildMessage(r) = buildMessage(r)
  BY Zenon, Messages, ConcatEmptySeq
<1>2. Append(<<>>, r) = <<r>>
  BY Zenon, Single
<1>3. /\ tasks' = tasks /\ pending' = Append(pending, r) /\ responses' = responses
      /\ requests' = requests \o buildMessage(r)
  BY Zenon, StepOpen
<1> QED BY Zenon, <1>1, <1>2, <1>3 DEF Silent, Queues

(* fn that awaits its operations goes on when it has its answers.          *)
LEMMA FnHasAnswers ==
  ASSUME NEW c \in Caller, InFn(c), Cardinality(Unanswered(c)) < 1 \/ Unanswered(c) = {}
  PROVE  Silent /\ txn = Work(c, issued[c])
<1>1. ASSUME Operating(c) PROVE FALSE
  <2>1. PICK op \in Operation :
          LET r == Req(op, c, issued[c]) IN
          Sent(r) \/ \E s \in Status : Served(r, s) \/ Arrived(r, s)
    BY Zenon, <1>1 DEF Operating
  <2> DEFINE r == Req(op, c, issued[c])
  <2>2. IsOperationOf(c, r)
    BY DEF IsOperationOf, Req
  <2>3. \A s : Task(r, s).req = r
    BY DEF Task
  <2> HIDE DEF r
  <2>4. \/ pending = <<r>> /\ tasks = <<>>
        \/ pending = <<>> /\ \E t : tasks = <<t>> /\ t.req = r
    BY Zenon, <2>1, <2>3 DEF Sent, Served, Arrived, Queues, r
  <2>5. {pending[i] : i \in DOMAIN pending} \cup {tasks[i].req : i \in DOMAIN tasks} = {r}
    <3>1. CASE pending = <<r>> /\ tasks = <<>>
      BY <3>1
    <3>2. ASSUME NEW t, pending = <<>>, tasks = <<t>>, t.req = r
          PROVE  {pending[i] : i \in DOMAIN pending} \cup {tasks[i].req : i \in DOMAIN tasks} = {r}
      <4>1. DOMAIN tasks = {1} /\ tasks[1] = t /\ DOMAIN pending = {}
        BY <3>2
      <4> QED BY <3>2, <4>1
    <3> QED BY Zenon, <2>4, <3>1, <3>2
  <2>6. Unanswered(c) = {r}
    BY Zenon, <2>2, <2>5 DEF Unanswered
  <2>7. Cardinality(Unanswered(c)) = 1
    BY Zenon, <2>6, FS_Singleton
  <2> QED BY <2>6, <2>7
<1> QED BY Zenon, <1>1 DEF InFn
(* fn throws, whether or not it has its answer.                            *)
LEMMA ThrowOpen ==
  ASSUME TypeOK, socket = "open", NEW c \in Caller, InFn(c), Throw(c)
  PROVE  RollingBack(c)'
<1>0. PICK b : b = Req("ROLLBACK", c, 0)
  BY Zenon
<1>1. /\ pc' = [pc EXCEPT ![c] = "rollback"] /\ tasks' = tasks /\ pending' = Append(pending, b)
      /\ requests' = requests \o buildMessage(b) /\ UNCHANGED <<responses, txn, attempt, issued>>
      /\ Step(c, "rollback", b)
  BY Zenon, <1>0, StepOpen DEF Throw
<1>2. pc'[c] = "rollback"
  BY Zenon, <1>1 DEF TypeOK
<1>3. 0 \in Nat /\ issued[c] \in Nat /\ (issued[c] > 0 => issued[c] - 1 \in Nat)
  <2>1. issued[c] \in 0 .. MaxOps[usage] /\ MaxOps[usage] \in Nat
    BY Zenon, SessionAssumption DEF TypeOK
  <2> QED BY <2>1
<1>4. b \in Request /\ b = Req("ROLLBACK", c, 0)' /\ b.op = "ROLLBACK"
  <2>1. b \in Request
    BY Zenon, <1>0, <1>3, ReqType
  <2> QED BY <1>0, <1>1, <2>1 DEF Req
<1>5. buildMessage(b) = <<b>>
  <2>1. b.op \notin Operation
    BY <1>4 DEF Operation
  <2> QED BY Zenon, <1>4, <2>1, Messages
<1>6. <<>> \o <<b>> = <<b>> /\ Append(<<>>, b) = <<b>>
  BY Zenon, <1>4, <1>5, Messages, ConcatEmptySeq, Single
<1>7. \A r : Append(<<r>>, b) = <<r, b>>
  BY Zenon, Pair
<1>8. \A op : Req(op, c, issued[c])' = Req(op, c, issued[c])
  BY Zenon, <1>1 DEF Req
<1>9. CASE Silent /\ txn = Work(c, issued[c])
  <2>1. Sent(b)'
    BY Zenon, <1>1, <1>5, <1>6, <1>9 DEF Silent, Sent, Queues
  <2>2. Owns(c)'
    BY Zenon, <1>1, <1>3, <1>9, WorkType DEF Owns
  <2> QED BY Zenon, <1>2, <1>4, <2>1, <2>2 DEF RollingBack
<1>10. ASSUME NEW op \in Operation, issued[c] > 0,
              Sent(Req(op, c, issued[c])), txn = Work(c, issued[c] - 1)
       PROVE  RollingBack(c)'
  <2>0. PICK r : r = Req(op, c, issued[c]) /\ r = Req(op, c, issued[c])'
    BY Zenon, <1>8
  <2>1. BothSent(r, b)'
    BY Zenon, <2>0, <1>1, <1>5, <1>7, <1>10 DEF Sent, BothSent, Queues
  <2>2. txn' # Nothing /\ Owns(c)'
    BY Zenon, <1>1, <1>3, <1>10, WorkType DEF Owns
  <2>3. Overtaken(c, r, b)'
    BY Zenon, <2>1, <2>2 DEF Overtaken
  <2> QED BY Zenon, <1>2, <1>4, <2>0, <2>3 DEF RollingBack
<1>11. ASSUME NEW op \in Operation, NEW s \in Status,
              Served(Req(op, c, issued[c]), s) \/ Arrived(Req(op, c, issued[c]), s), Owns(c)
       PROVE  RollingBack(c)'
  <2>0. PICK r : r = Req(op, c, issued[c]) /\ r = Req(op, c, issued[c])'
    BY Zenon, <1>8
  <2>1. (FirstServed(r, s, b) \/ FirstArrived(r, s, b))'
    BY Zenon, <2>0, <1>1, <1>5, <1>6, <1>7, <1>11
       DEF Served, Arrived, FirstServed, FirstArrived, Queues
  <2>2. Owns(c)'
    BY Zenon, <1>1, <1>11 DEF Owns
  <2>3. Overtaken(c, r, b)'
    BY Zenon, <2>1, <2>2 DEF Overtaken
  <2> QED BY Zenon, <1>2, <1>4, <2>0, <2>3 DEF RollingBack
<1> QED BY Zenon, <1>9, <1>10, <1>11 DEF InFn, Operating
(* A call goes on, on an open connection.                                  *)
LEMMA CallOpen ==
  ASSUME TypeOK, TriesLeft, OneAtATime, OpenPhase, CommittedOnce,
         usage = "awaited", socket = "open", NEW c \in Caller, Call(c)
  PROVE  OneAtATime' /\ OpenPhase' /\ CommittedOnce'
<1>1. /\ pc \in [Caller -> Label] /\ attempt \in [Caller -> Attempt]
      /\ issued \in [Caller -> 0 .. MaxOps[usage]] /\ MaxOps[usage] \in Nat
  BY Zenon, SessionAssumption DEF TypeOK, Label
<1>2. 0 \in Nat /\ issued[c] \in Nat
  BY <1>1
<1>3. Mine(c) # {} => pc[c] \in {"commit", "resolved", "rejected"}
  BY Zenon DEF CommittedOnce, Mine
<1>4. ASSUME begin(c) \/ Retry(c) PROVE OneAtATime' /\ OpenPhase' /\ CommittedOnce'
  <2>1. PICK r : /\ Step(c, "begin", r) /\ issued' = issued
                 /\ \/ r = Req("BEGIN", c, 0) /\ attempt' = attempt
                    \/ /\ r = [Req("BEGIN", c, 0) EXCEPT !.try = @ + 1] /\ pc[c] = "backoff"
                       /\ attempt' = [attempt EXCEPT ![c] = @ + 1]
    BY Zenon, <1>4 DEF begin, Retry
  <2>2. pc[c] = "backoff" => attempt[c] + 1 \in Attempt
    <3>1. pc[c] = "backoff" => attempt[c] < MaxRetries /\ attempt[c] \in Attempt /\ MaxRetries \in Nat
      BY Zenon, <1>1, SessionAssumption DEF TriesLeft
    <3> QED BY <3>1 DEF Attempt
  <2>3. r \in Request
    <3>1. attempt[c] \in Attempt
      BY Zenon, <1>1
    <3> QED BY <1>2, <2>1, <2>2, <3>1 DEF Req, Request
  <2>4. r = Req("BEGIN", c, 0)' /\ \A d \in Caller : d # c => attempt'[d] = attempt[d]
    BY <1>1, <2>1 DEF Req
  <2>5. /\ pc' = [pc EXCEPT ![c] = "begin"] /\ txn' = txn /\ committed' = committed /\ usage' = usage
    BY Zenon, <2>1, StepOpen
  <2>6. pc'[c] = "begin" /\ \A d \in Caller : d # c => pc'[d] = pc[d]
    BY Zenon, <1>1, <2>5
  <2>7. pc[c] \in {"idle", "backoff"} /\ (Busy(c) \/ \A d \in Caller : ~Busy(d))
    <3>1. CASE Retry(c)
      BY <3>1 DEF Retry, Busy
    <3>2. CASE begin(c)
      <4>1. pc[c] = "idle" /\ \A d \in Caller : pc[d] = "idle" \/ Settled(d)
        BY Zenon, <3>2 DEF begin
      <4> QED BY <4>1 DEF Busy, Settled
    <3> QED BY Zenon, <1>4, <3>1, <3>2
  <2>8. Silent /\ txn = Nothing
    <3>1. pc[c] = "idle" => ~Busy(c)
      BY DEF Busy
    <3>2. pc[c] = "backoff" \/ \A d \in Caller : ~Busy(d)
      BY Zenon, <2>7, <3>1
    <3> QED BY Zenon, <3>2, OpenLabel
  <2>9. tasks' = <<>> /\ pending' = <<r>> /\ responses' = <<>> /\ requests' = buildMessage(r)
    BY Zenon, <2>1, <2>3, <2>8, SendAlone
  <2>10. Sent(r)'
    BY Zenon, <2>9 DEF Sent, Queues
  <2>11. Beginning(c)'
    BY Zenon, <2>4, <2>5, <2>6, <2>8, <2>10 DEF Beginning
  <2>12. OneAtATime'
    BY Zenon, <2>6, <2>7, OneKept
  <2>13. Mine(c) = {}
    BY <1>3, <2>7
  <2>14. CommittedOnce'
    BY Zenon, <2>1, <2>4, <2>5, <2>6, <2>13, OnceKept
  <2> QED BY Zenon, <2>11, <2>12, <2>14 DEF OpenPhase
<1>5. ASSUME pc[c] = "fn", NEW label \in {"fn", "commit", "rollback"}, NEW r, Step(c, label, r),
             attempt' = attempt, \A d \in Caller : d # c => issued'[d] = issued[d],
             InFn(c)' \/ Committing(c)' \/ RollingBack(c)'
      PROVE  OneAtATime' /\ OpenPhase' /\ CommittedOnce'
  <2>1. pc' = [pc EXCEPT ![c] = label] /\ committed' = committed /\ usage' = usage
    BY Zenon, <1>5, StepOpen
  <2>2. pc'[c] = label /\ \A d \in Caller : d # c => pc'[d] = pc[d]
    BY Zenon, <1>1, <2>1
  <2>3. Busy(c) /\ Mine(c) = {} /\ label # "resolved"
    BY <1>3, <1>5 DEF Busy
  <2>4. OneAtATime'
    BY Zenon, <2>2, <2>3, OneKept
  <2>5. CommittedOnce'
    BY Zenon, <1>5, <2>1, <2>2, <2>3, OnceKept
  <2> QED BY Zenon, <1>5, <2>4, <2>5 DEF OpenPhase
<1>6. CASE Throw(c)
  <2>1. /\ pc[c] = "fn" /\ Step(c, "rollback", Req("ROLLBACK", c, 0))
        /\ attempt' = attempt /\ issued' = issued
    BY Zenon, <1>6 DEF Throw
  <2>2. RollingBack(c)'
    BY Zenon, <1>6, <2>1, OpenLabel, ThrowOpen
  <2> QED BY Zenon, <1>5, <2>1, <2>2
<1>7. CASE commit(c)
  <2>1. /\ pc[c] = "fn" /\ Unanswered(c) = {} /\ Step(c, "commit", Req("COMMIT", c, 0))
        /\ attempt' = attempt /\ issued' = issued
    BY Zenon, <1>7 DEF commit
  <2>2. Silent /\ txn = Work(c, issued[c])
    BY Zenon, <2>1, OpenLabel, FnHasAnswers
  <2>3. PICK r : r = Req("COMMIT", c, 0)
    BY Zenon
  <2>4. r \in Request /\ r = Req("COMMIT", c, 0)'
    BY Zenon, <1>2, <2>1, <2>3, ReqType DEF Req
  <2>5. Sent(r)'
    BY Zenon, <2>1, <2>2, <2>3, <2>4, SendAlone DEF Sent, Queues
  <2>6. pc' = [pc EXCEPT ![c] = "commit"] /\ txn' = txn /\ committed' = committed
    BY Zenon, <2>1, StepOpen
  <2>7. pc'[c] = "commit" /\ txn' = Work(c, issued[c])' /\ Mine(c)' = {}
    <3>1. pc'[c] = "commit"
      BY Zenon, <1>1, <2>6
    <3>2. Mine(c) = {}
      BY <1>3, <2>1
    <3>3. Mine(c)' = Mine(c) /\ Work(c, issued[c])' = Work(c, issued[c])
      BY Zenon, <2>1, <2>6 DEF Mine, Work
    <3> QED BY Zenon, <2>2, <2>6, <3>1, <3>2, <3>3
  <2>8. Committing(c)'
    BY Zenon, <2>4, <2>5, <2>7 DEF Committing
  <2> QED BY Zenon, <1>5, <2>1, <2>8
<1>8. ASSUME NEW op \in Operation, Operate(c, op) PROVE OneAtATime' /\ OpenPhase' /\ CommittedOnce'
  <2>1. /\ pc[c] = "fn" /\ Cardinality(Unanswered(c)) < IF usage = "pipelined" THEN 2 ELSE 1
        /\ Step(c, "fn", Req(op, c, issued[c] + 1)) /\ issued' = [issued EXCEPT ![c] = @ + 1]
        /\ attempt' = attempt
    BY Zenon, <1>8 DEF Operate
  <2>2. Cardinality(Unanswered(c)) < 1
    BY <2>1
  <2>3. Silent /\ txn = Work(c, issued[c])
    BY Zenon, <2>1, <2>2, OpenLabel, FnHasAnswers
  <2>4. issued'[c] = issued[c] + 1 /\ \A d \in Caller : d # c => issued'[d] = issued[d]
    BY Zenon, <1>1, <2>1
  <2>5. issued'[c] > 0 /\ issued'[c] - 1 = issued[c] /\ issued[c] + 1 \in Nat
    BY <1>2, <2>4
  <2>6. PICK r : r = Req(op, c, issued[c] + 1)
    BY Zenon
  <2>7. r \in Request /\ r = Req(op, c, issued[c])'
    BY Zenon, <2>1, <2>4, <2>5, <2>6, ReqType DEF Req
  <2>8. Sent(r)'
    BY Zenon, <2>1, <2>3, <2>6, <2>7, SendAlone DEF Sent, Queues
  <2>9. pc' = [pc EXCEPT ![c] = "fn"] /\ txn' = txn
    BY Zenon, <2>1, StepOpen
  <2>10. pc'[c] = "fn" /\ txn' = Work(c, issued[c] - 1)'
    <3>1. pc'[c] = "fn"
      BY Zenon, <1>1, <2>9
    <3>2. Work(c, issued[c] - 1)' = Work(c, issued[c])
      BY Zenon, <2>1, <2>5 DEF Work
    <3> QED BY Zenon, <2>3, <2>9, <3>1, <3>2
  <2>11. InFn(c)'
    BY Zenon, <2>5, <2>7, <2>8, <2>10 DEF InFn, Operating
  <2> QED BY Zenon, <1>5, <2>1, <2>4, <2>11
<1> QED BY Zenon, <1>4, <1>6, <1>7, <1>8 DEF Call
-----------------------------------------------------------------------------
(***************************************************************************)
(* Answers arrive.                                                         *)
(***************************************************************************)
(* The promise of r, settled by its own answer.                            *)
LEMMA SettledBy ==
  ASSUME NEW r \in Request, NEW s, NEW i, pending[i] = r, responses[i] = Reply(r, s)
  PROVE  [req |-> pending[i], status |-> responses[i].status,
          value |-> /\ responses[i].status = "OK"
                    /\ responses[i].to # Nothing
                    /\ responses[i].to.op = "GET"] = Task(r, s)
<1>1. responses[i].status = s /\ responses[i].to = r
  BY DEF Reply
<1>2. r # Nothing
  BY Zenon, SentinelAssumption
<1>3. (/\ responses[i].status = "OK" /\ responses[i].to # Nothing
       /\ responses[i].to.op = "GET") = (s = "OK" /\ r.op = "GET")
  BY Zenon, <1>1, <1>2
<1> QED BY Zenon, <1>1, <1>3 DEF Task

LEMMA OneValue ==
  ASSUME NEW f, NEW x, f = [i \in 1 .. 1 |-> f[i]], f[1] = x
  PROVE  f = <<x>>
OBVIOUS

LEMMA TwoValues ==
  ASSUME NEW f, NEW x, NEW y, f = [i \in 1 .. 2 |-> f[i]], f[1] = x, f[2] = y
  PROVE  f = <<x, y>>
OBVIOUS

LEMMA ArrivesAlone ==
  ASSUME NEW r \in Request, NEW s, Served(r, s), NEW n \in 1 .. Len(responses), drainResponses(n)
  PROVE  Arrived(r, s)'
<1>1. /\ tasks = <<>> /\ pending = <<r>> /\ responses = <<Reply(r, s)>> /\ requests = <<>>
  BY Zenon DEF Served, Queues
<1>2. Len(responses) = 1 /\ Len(pending) = 1 /\ pending[1] = r /\ responses[1] = Reply(r, s)
  BY Zenon, <1>1, Single
<1>3. n = 1 /\ Matched(n) = 1 /\ Matched(n) + 1 = 2 /\ n + 1 = 2
  BY <1>2 DEF Matched
<1>4. tasks' = [i \in 1 .. 1 |->
                 [req |-> pending[i], status |-> responses[i].status,
                  value |-> /\ responses[i].status = "OK"
                            /\ responses[i].to # Nothing
                            /\ responses[i].to.op = "GET"]]
  BY Zenon, <1>3 DEF drainResponses
<1>5. 1 \in 1 .. 1
  OBVIOUS
<1>6. tasks' = [i \in 1 .. 1 |-> tasks'[i]] /\ tasks'[1] = Task(r, s)
  BY Zenon, <1>2, <1>4, <1>5, SettledBy
<1>7. tasks' = <<Task(r, s)>>
  BY Zenon, <1>6, OneValue
<1>8. /\ pending' = SubSeq(<<r>>, 2, 1) /\ responses' = SubSeq(<<Reply(r, s)>>, 2, 1)
      /\ requests' = <<>>
  BY Zenon, <1>1, <1>2, <1>3 DEF drainResponses
<1>9. pending' = <<>> /\ responses' = <<>>
  BY Zenon, <1>8, Single
<1> QED BY Zenon, <1>7, <1>8, <1>9 DEF Arrived, Queues
LEMMA ArrivesFirst ==
  ASSUME NEW o \in Request, NEW s, NEW b, FirstServed(o, s, b),
         NEW n \in 1 .. Len(responses), drainResponses(n)
  PROVE  FirstArrived(o, s, b)'
<1>1. /\ tasks = <<>> /\ pending = <<o, b>> /\ responses = <<Reply(o, s)>> /\ requests = <<b>>
  BY Zenon DEF FirstServed, Queues
<1>2. Len(responses) = 1 /\ Len(pending) = 2 /\ pending[1] = o /\ responses[1] = Reply(o, s)
  BY Zenon, <1>1, Single, Pair
<1>3. n = 1 /\ Matched(n) = 1 /\ Matched(n) + 1 = 2 /\ n + 1 = 2
  BY <1>2 DEF Matched
<1>4. tasks' = [i \in 1 .. 1 |->
                 [req |-> pending[i], status |-> responses[i].status,
                  value |-> /\ responses[i].status = "OK"
                            /\ responses[i].to # Nothing
                            /\ responses[i].to.op = "GET"]]
  BY Zenon, <1>3 DEF drainResponses
<1>5. 1 \in 1 .. 1
  OBVIOUS
<1>6. tasks' = [i \in 1 .. 1 |-> tasks'[i]] /\ tasks'[1] = Task(o, s)
  BY Zenon, <1>2, <1>4, <1>5, SettledBy
<1>7. tasks' = <<Task(o, s)>>
  BY Zenon, <1>6, OneValue
<1>8. /\ pending' = SubSeq(<<o, b>>, 2, 2) /\ responses' = SubSeq(<<Reply(o, s)>>, 2, 1)
      /\ requests' = <<b>>
  BY Zenon, <1>1, <1>2, <1>3 DEF drainResponses
<1>9. pending' = <<b>> /\ responses' = <<>>
  BY Zenon, <1>8, Single, Pair
<1> QED BY Zenon, <1>7, <1>8, <1>9 DEF FirstArrived, Queues

LEMMA ArriveTogether ==
  ASSUME NEW o \in Request, NEW s, NEW b \in Request, NEW u, BothServed(o, s, b, u),
         NEW n \in 1 .. Len(responses), drainResponses(n)
  PROVE  OneOfEach(o, s, b, u)' \/ BothArrived(o, s, b, u)'
<1>1. /\ tasks = <<>> /\ pending = <<o, b>> /\ responses = <<Reply(o, s), Reply(b, u)>>
      /\ requests = <<>>
  BY Zenon DEF BothServed, Queues
<1>2. /\ Len(responses) = 2 /\ Len(pending) = 2 /\ pending[1] = o /\ responses[1] = Reply(o, s)
      /\ pending[2] = b /\ responses[2] = Reply(b, u)
  BY Zenon, <1>1, Pair
<1>3. \/ n = 1 /\ Matched(n) = 1 /\ Matched(n) + 1 = 2 /\ n + 1 = 2
      \/ n = 2 /\ Matched(n) = 2 /\ Matched(n) + 1 = 3 /\ n + 1 = 3
  BY <1>2 DEF Matched
<1>4. tasks' = [i \in 1 .. Matched(n) |->
                 [req |-> pending[i], status |-> responses[i].status,
                  value |-> /\ responses[i].status = "OK"
                            /\ responses[i].to # Nothing
                            /\ responses[i].to.op = "GET"]]
  BY Zenon DEF drainResponses
<1>5. 1 \in 1 .. 1 /\ 1 \in 1 .. 2 /\ 2 \in 1 .. 2
  OBVIOUS
<1>6. requests' = <<>>
  BY Zenon, <1>1 DEF drainResponses
<1>7. CASE n = 1
  <2>1. Matched(n) = 1 /\ Matched(n) + 1 = 2 /\ n + 1 = 2
    BY <1>3, <1>7
  <2>2. tasks' = [i \in 1 .. 1 |-> tasks'[i]] /\ tasks'[1] = Task(o, s)
    BY Zenon, <1>2, <1>4, <1>5, <2>1, SettledBy
  <2>3. tasks' = <<Task(o, s)>>
    BY Zenon, <2>2, OneValue
  <2>4. pending' = SubSeq(<<o, b>>, 2, 2) /\ responses' = SubSeq(<<Reply(o, s), Reply(b, u)>>, 2, 2)
    BY Zenon, <1>1, <1>2, <2>1 DEF drainResponses
  <2>5. pending' = <<b>> /\ responses' = <<Reply(b, u)>>
    BY Zenon, <2>4, Pair
  <2> QED BY Zenon, <1>6, <2>3, <2>5 DEF OneOfEach, Queues
<1>8. CASE n = 2
  <2>1. Matched(n) = 2 /\ Matched(n) + 1 = 3 /\ n + 1 = 3
    BY <1>3, <1>8
  <2>2. tasks' = [i \in 1 .. 2 |-> tasks'[i]] /\ tasks'[1] = Task(o, s) /\ tasks'[2] = Task(b, u)
    BY Zenon, <1>2, <1>4, <1>5, <2>1, SettledBy
  <2>3. tasks' = <<Task(o, s), Task(b, u)>>
    BY Zenon, <2>2, TwoValues
  <2>4. pending' = SubSeq(<<o, b>>, 3, 2) /\ responses' = SubSeq(<<Reply(o, s), Reply(b, u)>>, 3, 2)
    BY Zenon, <1>1, <1>2, <2>1 DEF drainResponses
  <2>5. pending' = <<>> /\ responses' = <<>>
    BY Zenon, <2>4, Pair
  <2> QED BY Zenon, <1>6, <2>3, <2>5 DEF BothArrived, Queues
<1> QED BY Zenon, <1>3, <1>7, <1>8

(* Answers settle the promises of the call that is under way.              *)
LEMMA ReceiveOpen ==
  ASSUME TypeOK, OneAtATime, OpenPhase, CommittedOnce, Receive
  PROVE  OneAtATime' /\ OpenPhase' /\ CommittedOnce'
<1>1. PICK n \in 1 .. Len(responses) : drainResponses(n)
  BY Zenon DEF Receive
<1>2. tasks = <<>> /\ UNCHANGED <<usage, pc, attempt, issued, txn, committed>>
  BY Zenon, <1>1 DEF drainResponses, clientVars, serverVars
<1>3. responses # <<>>
  <2>1. Len(<<>>) = 0
    OBVIOUS
  <2> QED BY <1>1, <2>1
<1>4. OneAtATime' /\ CommittedOnce'
  <2>1. OneAtATime'
    BY Zenon, <1>2 DEF OneAtATime, Busy
  <2>2. CommittedOnce'
    BY Zenon, <1>2, OnceStays
  <2> QED BY Zenon, <2>1, <2>2
<1>5. \A op, c, m : Req(op, c, m)' = Req(op, c, m) /\ Work(c, m)' = Work(c, m)
  BY Zenon, <1>2 DEF Req, Work
<1>6. \A c : Owns(c)' <=> Owns(c)
  BY Zenon, <1>2 DEF Owns
<1>7. 0 \in Nat /\ \A c \in Caller : issued[c] \in Nat
  <2>1. issued \in [Caller -> 0 .. MaxOps[usage]] /\ MaxOps[usage] \in Nat
    BY Zenon, SessionAssumption DEF TypeOK
  <2> QED BY <2>1
<1>8. ASSUME NEW c \in Caller, Beginning(c) PROVE Beginning(c)'
  <2>1. PICK r : r = Req("BEGIN", c, 0)
    BY Zenon
  <2>2. r \in Request /\ r = Req("BEGIN", c, 0)'
    BY Zenon, <1>5, <1>7, <2>1, ReqType
  <2>3. Served(r, "OK") /\ txn = Work(c, 0) /\ pc[c] = "begin"
    BY Zenon, <1>2, <1>3, <1>8, <2>1, Single DEF Beginning, Sent, Arrived, Queues
  <2>4. Arrived(r, "OK")'
    BY Zenon, <1>1, <2>2, <2>3, ArrivesAlone
  <2>5. txn' = Work(c, 0)' /\ pc'[c] = "begin"
    BY Zenon, <1>2, <1>5, <2>3
  <2> QED BY Zenon, <2>2, <2>4, <2>5 DEF Beginning
<1>9. ASSUME NEW c \in Caller, InFn(c) PROVE InFn(c)'
  <2>1. PICK op \in Operation, s \in Status :
          /\ Served(Req(op, c, issued[c]), s) /\ issued[c] > 0
          /\ Owns(c) /\ (s \in {"OK", "NOT_FOUND"} => txn = Work(c, issued[c]))
    BY Zenon, <1>2, <1>3, <1>9, Single DEF InFn, Operating, Silent, Sent, Arrived, Queues
  <2>2. PICK r : r = Req(op, c, issued[c])
    BY Zenon
  <2>3. r \in Request /\ r = Req(op, c, issued[c])' /\ issued'[c] > 0 /\ pc'[c] = "fn"
    BY Zenon, <1>2, <1>5, <1>7, <1>9, <2>1, <2>2, ReqType DEF InFn
  <2>4. Arrived(r, s)'
    BY Zenon, <1>1, <2>1, <2>2, <2>3, ArrivesAlone
  <2>5. Owns(c)' /\ (s \in {"OK", "NOT_FOUND"} => txn' = Work(c, issued[c])')
    BY Zenon, <1>2, <1>5, <1>6, <2>1
  <2>6. Operating(c)'
    BY Zenon, <2>3, <2>4, <2>5 DEF Operating
  <2> QED BY Zenon, <2>3, <2>6 DEF InFn
<1>10. ASSUME NEW c \in Caller, Committing(c) PROVE Committing(c)'
  <2>1. PICK r : r = Req("COMMIT", c, 0)
    BY Zenon
  <2>2. r \in Request /\ r = Req("COMMIT", c, 0)'
    BY Zenon, <1>5, <1>7, <2>1, ReqType
  <2>3. PICK s \in Final :
          /\ Served(r, s) /\ txn = Nothing /\ pc[c] = "commit"
          /\ s = "OK" => Work(c, issued[c]) \in committed
    BY Zenon, <1>2, <1>3, <1>10, <2>1, Single DEF Committing, Sent, Arrived, Queues
  <2>4. Arrived(r, s)'
    BY Zenon, <1>1, <2>2, <2>3, ArrivesAlone
  <2>5. txn' = Nothing /\ pc'[c] = "commit" /\ (s = "OK" => Work(c, issued[c])' \in committed')
    BY Zenon, <1>2, <1>5, <2>3
  <2> QED BY Zenon, <2>2, <2>3, <2>4, <2>5 DEF Committing
<1>11. ASSUME NEW c \in Caller, RollingBack(c) PROVE RollingBack(c)'
  <2>1. PICK b : b = Req("ROLLBACK", c, 0)
    BY Zenon
  <2>2. b \in Request /\ b = Req("ROLLBACK", c, 0)' /\ pc'[c] = "rollback"
    BY Zenon, <1>2, <1>5, <1>7, <1>11, <2>1, ReqType DEF RollingBack
  <2>3. ~Sent(b)
    BY Zenon, <1>3 DEF Sent, Queues
  <2>4. ASSUME NEW u \in Final, Served(b, u) \/ Arrived(b, u), txn = Nothing PROVE RollingBack(c)'
    <3>1. Served(b, u)
      BY Zenon, <1>2, <2>4, Single DEF Arrived, Queues
    <3>2. Arrived(b, u)'
      BY Zenon, <1>1, <2>2, <3>1, ArrivesAlone
    <3> QED BY Zenon, <1>2, <2>2, <2>4, <3>2 DEF RollingBack
  <2>5. ASSUME NEW op \in Operation, Overtaken(c, Req(op, c, issued[c]), b) PROVE RollingBack(c)'
    <3>1. PICK o : o = Req(op, c, issued[c])
      BY Zenon
    <3>2. o \in Request /\ o = Req(op, c, issued[c])'
      BY Zenon, <1>2, <1>5, <1>7, <3>1, ReqType
    <3>3. \/ \E s \in Status : FirstServed(o, s, b) /\ Owns(c)
          \/ \E s \in Status, u \in Final : BothServed(o, s, b, u) /\ txn = Nothing
      BY Zenon, <1>2, <1>3, <2>5, <3>1, Single, Pair
         DEF Overtaken, BothSent, FirstArrived, OneOfEach, BothArrived, Queues
    <3>4. \/ \E s \in Status : FirstArrived(o, s, b)' /\ Owns(c)'
          \/ \E s \in Status, u \in Final :
               (OneOfEach(o, s, b, u)' \/ BothArrived(o, s, b, u)') /\ txn' = Nothing
      BY Zenon, <1>1, <1>2, <1>6, <2>2, <3>2, <3>3, ArrivesFirst, ArriveTogether
    <3>5. Overtaken(c, o, b)'
      BY Zenon, <3>4 DEF Overtaken
    <3> QED BY Zenon, <2>2, <3>2, <3>5 DEF RollingBack
  <2> QED BY Zenon, <1>11, <2>1, <2>3, <2>4, <2>5 DEF RollingBack
<1> QED BY Zenon, <1>3, <1>4, <1>8, <1>9, <1>10, <1>11 DEF OpenPhase, Silent, Queues
-----------------------------------------------------------------------------
(***************************************************************************)
(* Continuations.                                                          *)
(***************************************************************************)
LEMMA TaskFields ==
  ASSUME NEW r, NEW s
  PROVE  /\ Task(r, s).req = r /\ Task(r, s).status = s
         /\ Task(r, s).value <=> s = "OK" /\ r.op = "GET"
BY Zenon DEF Task

(* When the call that is under way comes to rest, they all are at rest.    *)
LEMMA AllRest ==
  ASSUME OneAtATime, NEW c \in Caller, Busy(c), pc'[c] \in Resting,
         \A d \in Caller : d # c => pc'[d] = pc[d]
  PROVE  \A d \in Caller : pc'[d] \in Resting
<1>1. \A d \in Caller : d # c => ~Busy(d)
  BY Zenon DEF OneAtATime
<1>2. \A d \in Caller : ~Busy(d) => pc[d] \in Resting
  BY DEF Busy, Resting
<1> QED BY Zenon, <1>1, <1>2

(* BEGIN is answered.                                                      *)
LEMMA BegunOpen ==
  ASSUME TypeOK, OneAtATime, CommittedOnce, usage = "awaited",
         NEW c \in Caller, Beginning(c), Continue
  PROVE  OneAtATime' /\ OpenPhase' /\ CommittedOnce'
<1>1. PICK r : r = Req("BEGIN", c, 0)
  BY Zenon
<1>2. /\ pc[c] = "begin" /\ Arrived(r, "OK") /\ txn = Work(c, 0) /\ tasks = <<Task(r, "OK")>>
      /\ pending = <<>> /\ responses = <<>> /\ requests = <<>>
  BY Zenon, <1>1 DEF Continue, Beginning, Sent, Served, Arrived, Queues
<1>3. PICK t : t = Head(tasks)
  BY Zenon
<1>4. t = Task(r, "OK") /\ Tail(tasks) = <<>>
  BY Zenon, <1>2, <1>3, Single
<1>5. t.req = r /\ t.status = "OK" /\ r.op = "BEGIN" /\ r.by = c
  <2>1. Task(r, "OK").req = r /\ Task(r, "OK").status = "OK"
    BY TaskFields
  <2>2. r.op = "BEGIN" /\ r.by = c
    BY <1>1 DEF Req
  <2> QED BY Zenon, <1>4, <2>1, <2>2
<1>6. r.op \notin Operation /\ r.op # "COMMIT" /\ r.op # "ROLLBACK" /\ checkResponse(t)
  BY <1>5 DEF Operation, checkResponse
<1>7. BeginAnswered(t) /\ UNCHANGED <<responses, txn, committed>>
  BY Zenon, <1>3, <1>5, <1>6
     DEF Continue, OperationAnswered, OperationThrows, CommitAnswered, RollbackAnswered, serverVars
<1>8. /\ pc' = [pc EXCEPT ![c] = "fn"] /\ issued' = [issued EXCEPT ![c] = 0] /\ tasks' = <<>>
      /\ UNCHANGED <<usage, attempt, pending, requests>>
  <2>1. /\ pc' = [pc EXCEPT ![c] = IF checkResponse(t) THEN "fn" ELSE "rejected"]
        /\ issued' = [issued EXCEPT ![c] = 0] /\ tasks' = Tail(tasks)
        /\ UNCHANGED <<usage, attempt, pending, requests>>
    BY Zenon, <1>5, <1>7 DEF BeginAnswered
  <2> QED BY <1>4, <1>6, <2>1
<1>9. /\ pc'[c] = "fn" /\ issued'[c] = 0
      /\ \A d \in Caller : d # c => pc'[d] = pc[d] /\ issued'[d] = issued[d]
  BY Zenon, <1>8 DEF TypeOK
<1>10. Silent'
  BY Zenon, <1>2, <1>7, <1>8 DEF Silent, Queues
<1>11. txn' = Work(c, issued[c])'
  <2>1. Work(c, issued[c])' = Work(c, 0)
    BY Zenon, <1>8, <1>9 DEF Work
  <2> QED BY Zenon, <1>2, <1>7, <2>1
<1>12. InFn(c)'
  BY Zenon, <1>9, <1>10, <1>11 DEF InFn
<1>13. Busy(c) /\ Mine(c) = {}
  <2>1. Mine(c) # {} => pc[c] \in {"commit", "resolved", "rejected"}
    BY Zenon DEF CommittedOnce, Mine
  <2> QED BY <1>2, <2>1 DEF Busy
<1>14. OneAtATime'
  BY Zenon, <1>9, <1>13, OneKept
<1>15. CommittedOnce'
  BY Zenon, <1>7, <1>8, <1>9, <1>13, OnceKept
<1> QED BY Zenon, <1>12, <1>14, <1>15 DEF OpenPhase

(* An operation is answered, and fn goes on or throws.                     *)
LEMMA FnOpen ==
  ASSUME TypeOK, OneAtATime, CommittedOnce, usage = "awaited", socket = "open",
         NEW c \in Caller, InFn(c), Continue
  PROVE  OneAtATime' /\ OpenPhase' /\ CommittedOnce'
<1>1. PICK op \in Operation, s \in Status :
        /\ Arrived(Req(op, c, issued[c]), s)
        /\ Owns(c) /\ (s \in {"OK", "NOT_FOUND"} => txn = Work(c, issued[c]))
  BY Zenon DEF InFn, Operating, Continue, Silent, Sent, Served, Queues
<1>2. PICK r : r = Req(op, c, issued[c])
  BY Zenon
<1>3. /\ pc[c] = "fn" /\ tasks = <<Task(r, s)>> /\ pending = <<>> /\ responses = <<>>
      /\ requests = <<>>
  BY Zenon, <1>1, <1>2 DEF InFn, Arrived, Queues
<1>4. PICK t : t = Head(tasks)
  BY Zenon
<1>5. t = Task(r, s) /\ Tail(tasks) = <<>>
  BY Zenon, <1>3, <1>4, Single
<1>6. t.req = r /\ t.status = s /\ r.op = op /\ r.by = c /\ r.try = attempt[c]
  <2>1. Task(r, s).req = r /\ Task(r, s).status = s
    BY Zenon, TaskFields
  <2>2. r.op = op /\ r.by = c /\ r.try = attempt[c]
    BY <1>2 DEF Req
  <2> QED BY Zenon, <1>5, <2>1, <2>2
<1>7. r.op # "BEGIN" /\ r.op # "COMMIT" /\ r.op # "ROLLBACK" /\ IsOperationOf(c, r)
  BY <1>6 DEF Operation, IsOperationOf
<1>8. /\ OperationAnswered(t) \/ OperationThrows(t)
      /\ UNCHANGED <<responses, txn, committed>>
  BY Zenon, <1>4, <1>6, <1>7
     DEF Continue, BeginAnswered, CommitAnswered, RollbackAnswered, serverVars
<1>9. Busy(c) /\ Mine(c) = {}
  <2>1. Mine(c) # {} => pc[c] \in {"commit", "resolved", "rejected"}
    BY Zenon DEF CommittedOnce, Mine
  <2> QED BY <1>3, <2>1 DEF Busy
<1>10. CASE OperationAnswered(t)
  <2>1. /\ Succeeds(t) /\ tasks' = <<>>
        /\ UNCHANGED <<usage, pc, attempt, issued, pending, requests>>
    BY Zenon, <1>3, <1>5, <1>6, <1>7, <1>10 DEF OperationAnswered, clientVars
  <2>2. txn = Work(c, issued[c])
    BY Zenon, <1>1, <1>6, <2>1 DEF Succeeds, checkResponse
  <2>3. Silent'
    BY Zenon, <1>3, <1>8, <2>1 DEF Silent, Queues
  <2>4. Work(c, issued[c])' = Work(c, issued[c])
    BY Zenon, <2>1 DEF Work
  <2>5. InFn(c)'
    BY Zenon, <1>3, <1>8, <2>1, <2>2, <2>3, <2>4 DEF InFn
  <2>6. OneAtATime'
    BY Zenon, <2>1 DEF OneAtATime, Busy
  <2>7. CommittedOnce'
    BY Zenon, <1>8, <2>1, OnceStays
  <2> QED BY Zenon, <2>5, <2>6, <2>7 DEF OpenPhase
<1>11. CASE OperationThrows(t)
  <2>1. PICK b : b = Req("ROLLBACK", c, 0)
    BY Zenon
  <2>2. /\ pc' = [pc EXCEPT ![c] = "rollback"] /\ SendAfter(<<>>, b)
        /\ UNCHANGED <<usage, attempt, issued>>
    BY Zenon, <1>5, <1>6, <1>11, <2>1 DEF OperationThrows
  <2>3. 0 \in Nat
    OBVIOUS
  <2>4. b \in Request /\ b = Req("ROLLBACK", c, 0)'
    BY Zenon, <2>1, <2>2, <2>3, ReqType DEF Req
  <2>5. /\ pending' = Append(<<>>, b) /\ requests' = <<>> \o buildMessage(b) /\ tasks' = <<>>
    BY Zenon, <1>3, <2>2 DEF SendAfter
  <2>6. pending' = <<b>> /\ requests' = buildMessage(b)
    BY Zenon, <2>4, <2>5, Single, Messages, ConcatEmptySeq
  <2>7. Sent(b)'
    BY Zenon, <1>3, <1>8, <2>5, <2>6 DEF Sent, Queues
  <2>8. pc'[c] = "rollback" /\ \A d \in Caller : d # c => pc'[d] = pc[d]
    BY Zenon, <2>2 DEF TypeOK
  <2>9. Owns(c)'
    BY Zenon, <1>1, <1>8, <2>2 DEF Owns
  <2>10. RollingBack(c)'
    BY Zenon, <2>4, <2>7, <2>8, <2>9 DEF RollingBack
  <2>11. OneAtATime'
    BY Zenon, <1>9, <2>8, OneKept
  <2>12. CommittedOnce'
    BY Zenon, <1>8, <1>9, <2>2, <2>8, OnceKept
  <2> QED BY Zenon, <2>10, <2>11, <2>12 DEF OpenPhase
<1> QED BY Zenon, <1>8, <1>10, <1>11
(* COMMIT is answered.                                                     *)
LEMMA CommittedOpen ==
  ASSUME TypeOK, OneAtATime, CommittedOnce, usage = "awaited",
         NEW c \in Caller, Committing(c), Continue
  PROVE  OneAtATime' /\ OpenPhase' /\ CommittedOnce'
<1>1. PICK r : r = Req("COMMIT", c, 0)
  BY Zenon
<1>2. PICK s \in Final :
        /\ Arrived(r, s) /\ txn = Nothing /\ (s = "OK" => Work(c, issued[c]) \in committed)
  BY Zenon, <1>1 DEF Continue, Committing, Sent, Served, Queues
<1>3. /\ pc[c] = "commit" /\ tasks = <<Task(r, s)>>
      /\ pending = <<>> /\ responses = <<>> /\ requests = <<>>
  BY Zenon, <1>2 DEF Committing, Arrived, Queues
<1>4. PICK t : t = Head(tasks)
  BY Zenon
<1>5. t = Task(r, s) /\ Tail(tasks) = <<>>
  BY Zenon, <1>3, <1>4, Single
<1>6. t.req = r /\ t.status = s /\ r.op = "COMMIT" /\ r.by = c
  <2>1. Task(r, s).req = r /\ Task(r, s).status = s
    BY Zenon, TaskFields
  <2>2. r.op = "COMMIT" /\ r.by = c
    BY <1>1 DEF Req
  <2> QED BY Zenon, <1>5, <2>1, <2>2
<1>7. r.op \notin Operation /\ r.op # "BEGIN" /\ r.op # "ROLLBACK"
  BY <1>6 DEF Operation
<1>8. CommitAnswered(t) /\ UNCHANGED <<responses, txn, committed>>
  BY Zenon, <1>4, <1>6, <1>7
     DEF Continue, BeginAnswered, OperationAnswered, OperationThrows, RollbackAnswered, serverVars
<1>9. PICK v : v = IF s = "OK" THEN "resolved" ELSE "rejected"
  BY Zenon
<1>10. /\ pc' = [pc EXCEPT ![c] = v] /\ tasks' = <<>>
       /\ UNCHANGED <<usage, attempt, issued, pending, requests>>
  <2>1. /\ pc' = [pc EXCEPT ![c] = IF checkResponse(t) THEN "resolved"
                                   ELSE AfterRollback(c, t.status = "DEADLOCK")]
        /\ tasks' = Tail(tasks)
        /\ UNCHANGED <<usage, attempt, issued, pending, requests>>
    BY Zenon, <1>6, <1>8 DEF CommitAnswered
  <2>2. (IF checkResponse(t) THEN "resolved" ELSE AfterRollback(c, t.status = "DEADLOCK")) = v
    BY <1>6, <1>9 DEF Final, checkResponse, AfterRollback
  <2> QED BY Zenon, <1>5, <2>1, <2>2
<1>11. v \in Resting /\ v \in {"resolved", "rejected"} /\ (v = "resolved" => s = "OK")
  BY <1>9 DEF Resting
<1>12. pc'[c] = v /\ \A d \in Caller : d # c => pc'[d] = pc[d]
  BY Zenon, <1>10 DEF TypeOK
<1>13. Silent' /\ txn' = Nothing
  BY Zenon, <1>2, <1>3, <1>8, <1>10 DEF Silent, Queues
<1>14. Busy(c)
  BY <1>3 DEF Busy
<1>15. OneAtATime' /\ \A d \in Caller : pc'[d] \in Resting
  BY Zenon, <1>11, <1>12, <1>14, OneKept, AllRest
<1>16. v = "resolved" =>
         \E x \in Mine(c) : x.try = attempt'[c] /\ x.ran = {c} \X {x.try} \X (1 .. issued'[c])
  <2>1. /\ Work(c, issued[c]).by = c /\ Work(c, issued[c]).try = attempt[c]
        /\ Work(c, issued[c]).ran = {c} \X {Work(c, issued[c]).try} \X (1 .. issued[c])
    BY Zenon DEF Work
  <2>2. s = "OK" => Work(c, issued[c]) \in Mine(c)
    BY Zenon, <1>2, <2>1 DEF Mine
  <2> QED BY Zenon, <1>10, <1>11, <2>1, <2>2
<1>17. CommittedOnce'
  <2>1. pc'[c] \in {"commit", "resolved", "rejected"}
    BY Zenon, <1>11, <1>12
  <2> QED BY Zenon, <1>8, <1>10, <1>12, <1>16, <2>1, OnceKept
<1> QED BY Zenon, <1>13, <1>15, <1>17 DEF OpenPhase

(* ROLLBACK is answered, or the operation that it has overtaken.           *)
LEMMA RolledBackOpen ==
  ASSUME TypeOK, OneAtATime, CommittedOnce, usage = "awaited",
         NEW c \in Caller, RollingBack(c), Continue
  PROVE  OneAtATime' /\ OpenPhase' /\ CommittedOnce'
<1>1. PICK b : b = Req("ROLLBACK", c, 0)
  BY Zenon
<1>2. b.op = "ROLLBACK" /\ b.by = c /\ pc[c] = "rollback" /\ tasks # <<>>
  <2>1. b.op = "ROLLBACK" /\ b.by = c
    BY <1>1 DEF Req
  <2> QED BY Zenon, <2>1 DEF RollingBack, Continue
<1>3. b \in Request /\ b.op \notin Operation /\ buildMessage(b) = <<b>>
  <2>1. 0 \in Nat
    OBVIOUS
  <2>2. b.op \notin Operation
    BY <1>2 DEF Operation
  <2> QED BY Zenon, <1>1, <2>1, <2>2, ReqType, Messages
<1>4. UNCHANGED <<responses, txn, committed>>
  BY Zenon DEF Continue, serverVars
<1>5. Busy(c) /\ Mine(c) = {}
  <2>1. Mine(c) # {} => pc[c] \in {"commit", "resolved", "rejected"}
    BY Zenon DEF CommittedOnce, Mine
  <2> QED BY <1>2, <2>1 DEF Busy
<1>6. PICK t : t = Head(tasks)
  BY Zenon
<1>7. ASSUME NEW u \in Final, Arrived(b, u), txn = Nothing
      PROVE  OneAtATime' /\ OpenPhase' /\ CommittedOnce'
  <2>1. tasks = <<Task(b, u)>> /\ pending = <<>> /\ responses = <<>> /\ requests = <<>>
    BY Zenon, <1>7 DEF Arrived, Queues
  <2>2. t = Task(b, u) /\ Tail(tasks) = <<>>
    BY Zenon, <1>6, <2>1, Single
  <2>3. t.req = b
    BY Zenon, <2>2, TaskFields
  <2>4. b.op # "BEGIN" /\ b.op # "COMMIT"
    BY <1>2
  <2>5. RollbackAnswered(t)
    BY Zenon, <1>3, <1>6, <2>3, <2>4
       DEF Continue, BeginAnswered, OperationAnswered, OperationThrows, CommitAnswered
  <2>6. PICK v : v = AfterRollback(c, deadlock[c])
    BY Zenon
  <2>7. /\ pc' = [pc EXCEPT ![c] = v] /\ tasks' = <<>>
        /\ UNCHANGED <<usage, attempt, issued, pending, requests>>
    BY Zenon, <1>2, <2>2, <2>3, <2>5, <2>6 DEF RollbackAnswered
  <2>8. v \in Resting /\ v # "resolved"
    BY <2>6 DEF AfterRollback, Resting
  <2>9. pc'[c] = v /\ \A d \in Caller : d # c => pc'[d] = pc[d]
    BY Zenon, <2>7 DEF TypeOK
  <2>10. Silent' /\ txn' = Nothing
    BY Zenon, <1>4, <1>7, <2>1, <2>7 DEF Silent, Queues
  <2>11. OneAtATime' /\ \A d \in Caller : pc'[d] \in Resting
    BY Zenon, <1>5, <2>8, <2>9, OneKept, AllRest
  <2>12. CommittedOnce'
    BY Zenon, <1>4, <1>5, <2>7, <2>8, <2>9, OnceKept
  <2> QED BY Zenon, <2>10, <2>11, <2>12 DEF OpenPhase
<1>8. ASSUME NEW op \in Operation, NEW o, o = Req(op, c, issued[c]), NEW s, t = Task(o, s)
      PROVE  /\ tasks' = Tail(tasks) /\ OneAtATime' /\ CommittedOnce'
             /\ b = Req("ROLLBACK", c, 0)' /\ pc'[c] = "rollback" /\ (Owns(c) => Owns(c)')
             /\ UNCHANGED <<pending, requests>>
  <2>1. o.op = op /\ t.req = o /\ o.by = c
    <3>1. o.op = op /\ o.by = c
      BY <1>8 DEF Req
    <3>2. Task(o, s).req = o
      BY Zenon, TaskFields
    <3> QED BY Zenon, <1>8, <3>1, <3>2
  <2>2. o.op # "BEGIN" /\ o.op # "COMMIT" /\ o.op # "ROLLBACK" /\ pc[c] # "fn"
    BY <1>2, <2>1 DEF Operation
  <2>3. OperationAnswered(t)
    BY Zenon, <1>6, <2>1, <2>2
       DEF Continue, BeginAnswered, OperationThrows, CommitAnswered, RollbackAnswered
  <2>4. /\ tasks' = Tail(tasks)
        /\ UNCHANGED <<usage, pc, attempt, issued, pending, requests>>
    BY Zenon, <1>6, <2>3 DEF OperationAnswered, clientVars
  <2>5. OneAtATime'
    BY Zenon, <2>4 DEF OneAtATime, Busy
  <2>6. CommittedOnce'
    BY Zenon, <1>4, <2>4, OnceStays
  <2>7. b = Req("ROLLBACK", c, 0)' /\ (Owns(c) => Owns(c)')
    BY Zenon, <1>1, <1>4, <2>4 DEF Req, Owns
  <2> QED BY Zenon, <1>2, <2>4, <2>5, <2>6, <2>7
<1>9. ASSUME NEW op \in Operation, Overtaken(c, Req(op, c, issued[c]), b)
      PROVE  OneAtATime' /\ OpenPhase' /\ CommittedOnce'
  <2>1. PICK o : o = Req(op, c, issued[c])
    BY Zenon
  <2>2. \/ \E s \in Status : FirstArrived(o, s, b) /\ Owns(c)
        \/ \E s \in Status, u \in Final :
             (OneOfEach(o, s, b, u) \/ BothArrived(o, s, b, u)) /\ txn = Nothing
    BY Zenon, <1>2, <1>9, <2>1 DEF Overtaken, BothSent, FirstServed, BothServed, Queues
  <2>3. ASSUME NEW s \in Status, FirstArrived(o, s, b), Owns(c)
        PROVE  OneAtATime' /\ OpenPhase' /\ CommittedOnce'
    <3>1. tasks = <<Task(o, s)>> /\ pending = <<b>> /\ responses = <<>> /\ requests = <<b>>
      BY Zenon, <2>3 DEF FirstArrived, Queues
    <3>2. t = Task(o, s) /\ Tail(tasks) = <<>>
      BY Zenon, <1>6, <3>1, Single
    <3>3. Sent(b)'
      BY Zenon, <1>3, <1>4, <1>8, <2>1, <3>1, <3>2 DEF Sent, Queues
    <3>4. RollingBack(c)'
      BY Zenon, <1>8, <2>1, <2>3, <3>2, <3>3 DEF RollingBack
    <3> QED BY Zenon, <1>8, <2>1, <3>2, <3>4 DEF OpenPhase
  <2>4. ASSUME NEW s \in Status, NEW u \in Final, OneOfEach(o, s, b, u), txn = Nothing
        PROVE  OneAtATime' /\ OpenPhase' /\ CommittedOnce'
    <3>1. tasks = <<Task(o, s)>> /\ pending = <<b>> /\ responses = <<Reply(b, u)>> /\ requests = <<>>
      BY Zenon, <2>4 DEF OneOfEach, Queues
    <3>2. t = Task(o, s) /\ Tail(tasks) = <<>>
      BY Zenon, <1>6, <3>1, Single
    <3>3. Served(b, u)'
      BY Zenon, <1>4, <1>8, <2>1, <3>1, <3>2 DEF Served, Queues
    <3>4. RollingBack(c)'
      BY Zenon, <1>4, <1>8, <2>1, <2>4, <3>2, <3>3 DEF RollingBack
    <3> QED BY Zenon, <1>8, <2>1, <3>2, <3>4 DEF OpenPhase
  <2>5. ASSUME NEW s \in Status, NEW u \in Final, BothArrived(o, s, b, u), txn = Nothing
        PROVE  OneAtATime' /\ OpenPhase' /\ CommittedOnce'
    <3>1. /\ tasks = <<Task(o, s), Task(b, u)>> /\ pending = <<>> /\ responses = <<>>
          /\ requests = <<>>
      BY Zenon, <2>5 DEF BothArrived, Queues
    <3>2. t = Task(o, s) /\ Tail(tasks) = <<Task(b, u)>>
      BY Zenon, <1>6, <3>1, Pair
    <3>3. Arrived(b, u)'
      BY Zenon, <1>4, <1>8, <2>1, <3>1, <3>2 DEF Arrived, Queues
    <3>4. RollingBack(c)'
      BY Zenon, <1>4, <1>8, <2>1, <2>5, <3>2, <3>3 DEF RollingBack
    <3> QED BY Zenon, <1>8, <2>1, <3>2, <3>4 DEF OpenPhase
  <2> QED BY Zenon, <2>2, <2>3, <2>4, <2>5
<1>10. ~Sent(b) /\ \A u : ~Served(b, u)
  BY Zenon, <1>2 DEF Sent, Served, Queues
<1> QED BY Zenon, <1>1, <1>7, <1>9, <1>10 DEF RollingBack
(* A continuation runs, on an open connection.                             *)
LEMMA ContinueOpen ==
  ASSUME TypeOK, OneAtATime, OpenPhase, CommittedOnce,
         usage = "awaited", socket = "open", Continue
  PROVE  OneAtATime' /\ OpenPhase' /\ CommittedOnce'
<1>1. ~Silent
  BY Zenon DEF Continue, Silent, Queues
<1>2. PICK c \in Caller : Beginning(c) \/ InFn(c) \/ Committing(c) \/ RollingBack(c)
  BY Zenon, <1>1 DEF OpenPhase
<1> QED BY Zenon, <1>2, BegunOpen, FnOpen, CommittedOpen, RolledBackOpen
-----------------------------------------------------------------------------
(***************************************************************************)
(* The handler's thread.                                                   *)
(***************************************************************************)
LEMMA RunAt ==
  ASSUME socket = "open", run
  PROVE  /\ requests # <<>>
         /\ UNCHANGED <<usage, pc, attempt, issued, pending, tasks>>
         /\ \A h \in Request : Head(requests) = h =>
              /\ h.op = "BEGIN" => handle_begin
              /\ h.op = "COMMIT" => handle_commit
              /\ h.op = "ROLLBACK" => handle_rollback
              /\ h.op \in Operation =>
                   \E outcomes \in SUBSET {"OK", "NOT_FOUND"} : Perform(h.op, outcomes)
<1>1. UNCHANGED <<usage, pc, attempt, issued, pending, tasks>>
  BY Zenon DEF run, clientVars
<1>2. ~End
  BY Zenon DEF End, StreamEnds
<1>3. \/ handle_begin \/ handle_get \/ handle_put \/ handle_delete
      \/ handle_commit \/ handle_rollback \/ UnknownOpcode
  BY Zenon, <1>2 DEF run
<1>4. requests # <<>>
  BY Zenon, <1>3 DEF handle_begin, handle_get, handle_put, handle_delete, handle_commit,
                     handle_rollback, UnknownOpcode, Perform, At
<1>5. SUFFICES ASSUME NEW h \in Request, Head(requests) = h
               PROVE  /\ h.op = "BEGIN" => handle_begin
                      /\ h.op = "COMMIT" => handle_commit
                      /\ h.op = "ROLLBACK" => handle_rollback
                      /\ h.op \in Operation =>
                           \E outcomes \in SUBSET {"OK", "NOT_FOUND"} : Perform(h.op, outcomes)
  BY Zenon, <1>1, <1>4
<1>6. ~UnknownOpcode
  BY Zenon, <1>5, SentinelAssumption DEF UnknownOpcode
<1>7. /\ handle_begin => h.op = "BEGIN"
      /\ handle_commit => h.op = "COMMIT"
      /\ handle_rollback => h.op = "ROLLBACK"
      /\ handle_get => h.op = "GET" /\ Perform("GET", {"OK", "NOT_FOUND"})
      /\ handle_put => h.op = "PUT" /\ Perform("PUT", {"OK"})
      /\ handle_delete => h.op = "DELETE" /\ Perform("DELETE", {"OK"})
  BY Zenon, <1>5 DEF handle_begin, handle_get, handle_put, handle_delete, handle_commit,
                     handle_rollback, Perform, At
<1>8. {"OK"} \in SUBSET {"OK", "NOT_FOUND"} /\ {"OK", "NOT_FOUND"} \in SUBSET {"OK", "NOT_FOUND"}
  BY Zenon
<1>9. \/ h.op = "BEGIN" /\ handle_begin
      \/ h.op = "COMMIT" /\ handle_commit
      \/ h.op = "ROLLBACK" /\ handle_rollback
      \/ /\ h.op \in Operation
         /\ \E outcomes \in SUBSET {"OK", "NOT_FOUND"} : Perform(h.op, outcomes)
  BY Zenon, <1>3, <1>6, <1>7, <1>8 DEF Operation
<1> QED BY <1>9 DEF Operation

LEMMA AnswerOpen ==
  ASSUME socket = "open", NEW r, NEW s, NEW next, Answer(r, s, next)
  PROVE  responses' = Append(responses, Reply(r, s)) /\ txn' = next
BY Zenon DEF Answer, Reply

(* An operation is read and answered, in a transaction.                    *)
LEMMA PerformOpen ==
  ASSUME socket = "open", txn # Nothing, NEW r \in Request, Head(requests) = r,
         NEW outcomes \in SUBSET {"OK", "NOT_FOUND"}, Perform(r.op, outcomes)
  PROVE  /\ requests' = SubSeq(requests, PayloadSize(r.op) + 2, Len(requests))
         /\ committed' = committed
         /\ \E s \in Status :
              /\ responses' = Append(responses, Reply(r, s))
              /\ \/ txn' = [txn EXCEPT !.ran = @ \cup {<<r.by, r.try, r.n>>}]
                 \/ s \notin {"OK", "NOT_FOUND"} /\ txn' \in {txn, Nothing}
<1>1. PICK ran : ran = [txn EXCEPT !.ran = @ \cup {<<r.by, r.try, r.n>>}]
  BY Zenon
<1>2. /\ requests' = SubSeq(requests, PayloadSize(r.op) + 2, Len(requests))
      /\ committed' = committed
      /\ \/ \E s \in outcomes : Answer(r, s, ran)
         \/ Answer(r, "DEADLOCK", Nothing)
         \/ Answer(r, "ERROR", txn)
  BY Zenon, <1>1 DEF Perform, read_string
<1>3. outcomes \subseteq Status /\ {"DEADLOCK", "ERROR"} \subseteq Status
  BY Zenon DEF Status
<1>4. "DEADLOCK" \notin {"OK", "NOT_FOUND"} /\ "ERROR" \notin {"OK", "NOT_FOUND"}
  BY Zenon
<1> QED BY Zenon, <1>1, <1>2, <1>3, <1>4, AnswerOpen

(* COMMIT and ROLLBACK are answered with the transaction ended.            *)
LEMMA EndsOpen ==
  ASSUME socket = "open", NEW r, Head(requests) = r, handle_commit \/ handle_rollback
  PROVE  /\ txn' = Nothing /\ requests' = Tail(requests)
         /\ \E s \in Final :
              /\ responses' = Append(responses, Reply(r, s))
              /\ handle_commit /\ s = "OK" => committed' = committed \cup {txn}
         /\ handle_commit => committed' \in {committed, committed \cup {txn}}
         /\ handle_rollback => committed' = committed
<1>1. {"OK", "ERROR"} = Final /\ "OK" # "ERROR"
  BY Zenon DEF Final
<1>2. handle_commit => ~handle_rollback
  BY DEF handle_commit, handle_rollback, At
<1>3. CASE handle_commit
  <2>1. /\ requests' = Tail(requests)
        /\ \/ Answer(r, "ERROR", Nothing) /\ committed' = committed
           \/ Answer(r, "OK", Nothing) /\ committed' = committed \cup {txn}
           \/ Answer(r, "ERROR", Nothing) /\ committed' \in {committed, committed \cup {txn}}
    BY Zenon, <1>3 DEF handle_commit
  <2> QED BY Zenon, <1>1, <1>2, <1>3, <2>1, AnswerOpen
<1>4. CASE handle_rollback
  <2>1. PICK s : s = IF txn = Nothing THEN "ERROR" ELSE "OK"
    BY Zenon
  <2>2. requests' = Tail(requests) /\ Answer(r, s, Nothing) /\ committed' = committed
    BY Zenon, <1>4, <2>1 DEF handle_rollback
  <2>3. s \in Final
    BY Zenon, <2>1 DEF Final
  <2> QED BY Zenon, <1>2, <1>4, <2>2, <2>3, AnswerOpen
<1> QED BY Zenon, <1>3, <1>4

(* Committed once, when the call that commits has nothing committed yet.   *)
LEMMA OnceAdds ==
  ASSUME CommittedOnce, UNCHANGED <<usage, pc, attempt, issued>>,
         NEW c \in Caller, Mine(c) = {}, pc[c] \in {"commit", "rejected"},
         NEW w, w.by = c, committed' \in {committed, committed \cup {w}}
  PROVE  CommittedOnce'
<1>1. SUFFICES ASSUME usage = "awaited", NEW d \in Caller,
                      NEW mine, mine = {x \in committed' : x.by = d}
               PROVE  /\ \A x, y \in mine : x = y
                      /\ mine # {} => pc[d] \in {"commit", "resolved", "rejected"}
                      /\ pc[d] = "resolved" =>
                           \E x \in mine : /\ x.try = attempt[d]
                                           /\ x.ran = {d} \X {x.try} \X (1 .. issued[d])
  BY Zenon DEF CommittedOnce
<1>2. CASE d = c
  <2>1. \A x \in mine : x = w
    BY Zenon, <1>1, <1>2 DEF Mine
  <2>2. pc[d] \in {"commit", "resolved", "rejected"} /\ pc[d] # "resolved"
    BY <1>2
  <2> QED BY Zenon, <2>1, <2>2
<1>3. CASE d # c
  <2>1. mine = {x \in committed : x.by = d}
    BY Zenon, <1>1, <1>3
  <2>2. /\ \A x, y \in mine : x = y
        /\ mine # {} => pc[d] \in {"commit", "resolved", "rejected"}
        /\ pc[d] = "resolved" =>
             \E x \in mine : x.try = attempt[d] /\ x.ran = {d} \X {x.try} \X (1 .. issued[d])
    BY <1>1, <2>1 DEF CommittedOnce
  <2> QED BY Zenon, <2>2
<1> QED BY Zenon, <1>2, <1>3
(* What the transaction has run, one operation later.                      *)
LEMMA OneMore ==
  ASSUME TypeOK, NEW c \in Caller, NEW n \in Nat, n > 0, NEW op, NEW r, r = Req(op, c, n)
  PROVE  [Work(c, n - 1) EXCEPT !.ran = @ \cup {<<r.by, r.try, r.n>>}] = Work(c, n)
<1>1. r.by = c /\ r.try = attempt[c] /\ r.n = n
  BY DEF Req
<1>2. ({c} \X {attempt[c]} \X (1 .. (n - 1))) \cup {<<c, attempt[c], n>>}
        = {c} \X {attempt[c]} \X (1 .. n)
  <2>1. (1 .. (n - 1)) \cup {n} = 1 .. n
    OBVIOUS
  <2> DEFINE m == n - 1
  <2>2. (1 .. m) \cup {n} = 1 .. n
    BY <2>1
  <2> HIDE DEF m
  <2>3. ({c} \X {attempt[c]} \X (1 .. m)) \cup {<<c, attempt[c], n>>}
          = {c} \X {attempt[c]} \X ((1 .. m) \cup {n})
    OBVIOUS
  <2> QED BY <2>2, <2>3 DEF m
<1> QED BY <1>1, <1>2 DEF Work

(* BEGIN is served.                                                        *)
LEMMA ServeBegin ==
  ASSUME TypeOK, socket = "open", NEW c \in Caller, Beginning(c), run
  PROVE  Beginning(c)' /\ committed' = committed
<1>1. PICK r : r = Req("BEGIN", c, 0)
  BY Zenon
<1>2. /\ requests # <<>> /\ UNCHANGED <<usage, pc, attempt, issued, pending, tasks>>
      /\ \A h \in Request : Head(requests) = h /\ h.op = "BEGIN" => handle_begin
  BY Zenon, RunAt
<1>3. Sent(r) /\ txn = Nothing /\ pc[c] = "begin"
  BY Zenon, <1>1, <1>2 DEF Beginning, Served, Arrived, Queues
<1>4. r \in Request /\ r.op = "BEGIN" /\ r.by = c /\ r.try = attempt[c]
  <2>1. 0 \in Nat
    OBVIOUS
  <2>2. r \in Request
    BY Zenon, <1>1, <2>1, ReqType
  <2>3. r.op = "BEGIN" /\ r.by = c /\ r.try = attempt[c]
    BY <1>1 DEF Req
  <2> QED BY Zenon, <2>2, <2>3
<1>5. buildMessage(r) = <<r>>
  <2>1. r.op \notin Operation
    BY <1>4 DEF Operation
  <2> QED BY Zenon, <1>4, <2>1, Messages
<1>6. tasks = <<>> /\ pending = <<r>> /\ responses = <<>> /\ requests = <<r>>
  BY Zenon, <1>3, <1>5 DEF Sent, Queues
<1>7. Head(requests) = r /\ Tail(requests) = <<>>
  BY Zenon, <1>6, Single
<1>8. handle_begin
  BY Zenon, <1>2, <1>4, <1>7
<1>9. PICK w : w = [by |-> r.by, try |-> r.try, ran |-> {}]
  BY Zenon
<1>10. Answer(r, "OK", w) /\ requests' = <<>> /\ committed' = committed
  BY Zenon, <1>3, <1>7, <1>8, <1>9 DEF handle_begin
<1>11. responses' = <<Reply(r, "OK")>> /\ txn' = w
  BY Zenon, <1>6, <1>10, AnswerOpen, Single
<1>12. Work(c, 0)' = w
  <2>1. {c} \X {attempt[c]} \X (1 .. 0) = {}
    OBVIOUS
  <2> QED BY Zenon, <1>2, <1>4, <1>9, <2>1 DEF Work
<1>13. Served(r, "OK")'
  BY Zenon, <1>2, <1>6, <1>10, <1>11 DEF Served, Queues
<1>14. r = Req("BEGIN", c, 0)'
  BY Zenon, <1>1, <1>2 DEF Req
<1> QED BY Zenon, <1>2, <1>3, <1>10, <1>11, <1>12, <1>13, <1>14 DEF Beginning

(* An operation is served.                                                 *)
LEMMA ServeOperation ==
  ASSUME TypeOK, socket = "open", NEW c \in Caller, InFn(c), run
  PROVE  InFn(c)' /\ committed' = committed
<1>1. /\ requests # <<>> /\ UNCHANGED <<usage, pc, attempt, issued, pending, tasks>>
      /\ \A h \in Request : Head(requests) = h /\ h.op \in Operation =>
           \E outcomes \in SUBSET {"OK", "NOT_FOUND"} : Perform(h.op, outcomes)
  BY Zenon, RunAt
<1>2. PICK op \in Operation :
        Sent(Req(op, c, issued[c])) /\ txn = Work(c, issued[c] - 1) /\ issued[c] > 0
  BY Zenon, <1>1 DEF InFn, Operating, Silent, Served, Arrived, Queues
<1>3. PICK r : r = Req(op, c, issued[c])
  BY Zenon
<1>4. issued[c] \in Nat /\ issued[c] - 1 \in Nat
  <2>1. issued \in [Caller -> 0 .. MaxOps[usage]] /\ MaxOps[usage] \in Nat
    BY Zenon, SessionAssumption DEF TypeOK
  <2> QED BY <1>2, <2>1
<1>5. r \in Request /\ r.op \in Operation
  <2>1. r.op = op
    BY <1>3 DEF Req
  <2> QED BY Zenon, <1>3, <1>4, <2>1, ReqType
<1>6. tasks = <<>> /\ pending = <<r>> /\ responses = <<>> /\ requests = buildMessage(r)
  BY Zenon, <1>2, <1>3 DEF Sent, Queues
<1>7. Head(requests) = r /\ SubSeq(requests, PayloadSize(r.op) + 2, Len(requests)) = <<>>
  BY Zenon, <1>5, <1>6, ReadsOne
<1>8. PICK outcomes \in SUBSET {"OK", "NOT_FOUND"} : Perform(r.op, outcomes)
  BY Zenon, <1>1, <1>5, <1>7
<1>9. txn # Nothing
  BY Zenon, <1>2, <1>4, WorkType
<1>10. PICK s \in Status :
         /\ responses' = Append(responses, Reply(r, s))
         /\ \/ txn' = [txn EXCEPT !.ran = @ \cup {<<r.by, r.try, r.n>>}]
            \/ s \notin {"OK", "NOT_FOUND"} /\ txn' \in {txn, Nothing}
  BY Zenon, <1>5, <1>7, <1>8, <1>9, PerformOpen
<1>11. requests' = <<>> /\ committed' = committed
  BY Zenon, <1>5, <1>7, <1>8, <1>9, PerformOpen
<1>12. Served(r, s)'
  BY Zenon, <1>1, <1>6, <1>10, <1>11, Single DEF Served, Queues
<1>13. r = Req(op, c, issued[c])' /\ \A n : Work(c, n)' = Work(c, n)
  BY Zenon, <1>1, <1>3 DEF Req, Work
<1>14. [txn EXCEPT !.ran = @ \cup {<<r.by, r.try, r.n>>}] = Work(c, issued[c])
  BY Zenon, <1>2, <1>3, <1>4, OneMore
<1>15. \/ txn' = Work(c, issued[c])
       \/ s \notin {"OK", "NOT_FOUND"} /\ txn' \in {txn, Nothing}
  BY Zenon, <1>10, <1>14
<1>16. txn' # Nothing => txn'.by = c /\ txn'.try = attempt[c]
  <2>1. txn.by = c /\ txn.try = attempt[c]
    BY Zenon, <1>2 DEF Work
  <2>2. Work(c, issued[c]).by = c /\ Work(c, issued[c]).try = attempt[c]
    BY Zenon DEF Work
  <2> QED BY Zenon, <1>15, <2>1, <2>2
<1>17. Owns(c)' /\ (s \in {"OK", "NOT_FOUND"} => txn' = Work(c, issued[c])')
  BY Zenon, <1>1, <1>13, <1>15, <1>16 DEF Owns
<1>18. Operating(c)'
  BY Zenon, <1>1, <1>2, <1>12, <1>13, <1>17 DEF Operating
<1> QED BY Zenon, <1>1, <1>11, <1>18 DEF InFn
(* COMMIT is served.                                                       *)
LEMMA ServeCommit ==
  ASSUME TypeOK, CommittedOnce, socket = "open", NEW c \in Caller, Committing(c), run
  PROVE  Committing(c)' /\ CommittedOnce'
<1>1. PICK r : r = Req("COMMIT", c, 0)
  BY Zenon
<1>2. /\ requests # <<>> /\ UNCHANGED <<usage, pc, attempt, issued, pending, tasks>>
      /\ \A h \in Request : Head(requests) = h /\ h.op = "COMMIT" => handle_commit
  BY Zenon, RunAt
<1>3. Sent(r) /\ txn = Work(c, issued[c]) /\ Mine(c) = {} /\ pc[c] = "commit"
  BY Zenon, <1>1, <1>2 DEF Committing, Served, Arrived, Queues
<1>4. r \in Request /\ r.op = "COMMIT"
  <2>1. 0 \in Nat
    OBVIOUS
  <2>2. r.op = "COMMIT"
    BY <1>1 DEF Req
  <2> QED BY Zenon, <1>1, <2>1, <2>2, ReqType
<1>5. buildMessage(r) = <<r>>
  <2>1. r.op \notin Operation
    BY <1>4 DEF Operation
  <2> QED BY Zenon, <1>4, <2>1, Messages
<1>6. tasks = <<>> /\ pending = <<r>> /\ responses = <<>> /\ requests = <<r>>
  BY Zenon, <1>3, <1>5 DEF Sent, Queues
<1>7. Head(requests) = r /\ Tail(requests) = <<>>
  BY Zenon, <1>6, Single
<1>8. handle_commit
  BY Zenon, <1>2, <1>4, <1>7
<1>9. PICK s \in Final :
        /\ responses' = Append(responses, Reply(r, s))
        /\ s = "OK" => committed' = committed \cup {txn}
  BY Zenon, <1>7, <1>8, EndsOpen
<1>10. /\ txn' = Nothing /\ requests' = <<>>
       /\ committed' \in {committed, committed \cup {txn}}
  BY Zenon, <1>7, <1>8, EndsOpen
<1>11. Served(r, s)'
  BY Zenon, <1>2, <1>6, <1>9, <1>10, Single DEF Served, Queues
<1>12. r = Req("COMMIT", c, 0)' /\ Work(c, issued[c])' = txn
  BY Zenon, <1>1, <1>2, <1>3 DEF Req, Work
<1>13. s = "OK" => Work(c, issued[c])' \in committed'
  BY Zenon, <1>9, <1>12
<1>14. txn.by = c
  BY Zenon, <1>3 DEF Work
<1>15. CommittedOnce'
  <2>1. pc[c] \in {"commit", "rejected"}
    BY Zenon, <1>3
  <2> QED BY Zenon, <1>2, <1>3, <1>10, <1>14, <2>1, OnceAdds
<1> QED BY Zenon, <1>2, <1>3, <1>10, <1>11, <1>12, <1>13, <1>15 DEF Committing

(* ROLLBACK is served, or the operation that it follows.                   *)
LEMMA ServeRollback ==
  ASSUME TypeOK, socket = "open", NEW c \in Caller, RollingBack(c), run
  PROVE  RollingBack(c)' /\ committed' = committed
<1>1. PICK b : b = Req("ROLLBACK", c, 0)
  BY Zenon
<1>2. /\ requests # <<>> /\ UNCHANGED <<usage, pc, attempt, issued, pending, tasks>>
      /\ \A h \in Request : Head(requests) = h =>
           /\ h.op = "ROLLBACK" => handle_rollback
           /\ h.op \in Operation =>
                \E outcomes \in SUBSET {"OK", "NOT_FOUND"} : Perform(h.op, outcomes)
  BY Zenon, RunAt
<1>3. b \in Request /\ b.op = "ROLLBACK"
  <2>1. 0 \in Nat
    OBVIOUS
  <2>2. b.op = "ROLLBACK"
    BY <1>1 DEF Req
  <2> QED BY Zenon, <1>1, <2>1, <2>2, ReqType
<1>4. buildMessage(b) = <<b>>
  <2>1. b.op \notin Operation
    BY <1>3 DEF Operation
  <2> QED BY Zenon, <1>3, <2>1, Messages
<1>5. b = Req("ROLLBACK", c, 0)' /\ pc'[c] = "rollback"
  BY Zenon, <1>1, <1>2 DEF Req, RollingBack
<1>6. ASSUME requests = <<b>>
      PROVE  /\ requests' = <<>> /\ txn' = Nothing /\ committed' = committed
             /\ \E u \in Final : responses' = Append(responses, Reply(b, u))
  <2>1. Head(requests) = b /\ Tail(requests) = <<>>
    BY Zenon, <1>6, Single
  <2>2. handle_rollback
    BY Zenon, <1>2, <1>3, <2>1
  <2> QED BY Zenon, <2>1, <2>2, EndsOpen
<1>7. CASE Sent(b)
  <2>1. tasks = <<>> /\ pending = <<b>> /\ responses = <<>> /\ requests = <<b>>
    BY Zenon, <1>4, <1>7 DEF Sent, Queues
  <2>2. PICK u \in Final : responses' = <<Reply(b, u)>>
    BY Zenon, <1>6, <2>1, Single
  <2>3. Served(b, u)'
    BY Zenon, <1>2, <1>6, <2>1, <2>2 DEF Served, Queues
  <2> QED BY Zenon, <1>5, <1>6, <2>1, <2>3 DEF RollingBack
<1>8. ASSUME NEW op \in Operation, Overtaken(c, Req(op, c, issued[c]), b)
      PROVE  RollingBack(c)' /\ committed' = committed
  <2>1. PICK o : o = Req(op, c, issued[c])
    BY Zenon
  <2>2. issued[c] \in Nat
    <3>1. issued \in [Caller -> 0 .. MaxOps[usage]] /\ MaxOps[usage] \in Nat
      BY Zenon, SessionAssumption DEF TypeOK
    <3> QED BY <3>1
  <2>3. o \in Request /\ o.op \in Operation
    <3>1. o.op = op
      BY <2>1 DEF Req
    <3> QED BY Zenon, <2>1, <2>2, <3>1, ReqType
  <2>4. o = Req(op, c, issued[c])'
    BY Zenon, <1>2, <2>1 DEF Req
  <2>5. SUFFICES Overtaken(c, o, b)' /\ committed' = committed
    BY Zenon, <1>5, <2>4 DEF RollingBack
  <2>6. \/ BothSent(o, b) /\ txn # Nothing /\ Owns(c)
        \/ \E s \in Status : FirstServed(o, s, b) \/ FirstArrived(o, s, b)
    BY Zenon, <1>2, <1>8, <2>1 DEF Overtaken, BothServed, OneOfEach, BothArrived, Queues
  <2>7. CASE BothSent(o, b) /\ txn # Nothing /\ Owns(c)
    <3>1. tasks = <<>> /\ pending = <<o, b>> /\ responses = <<>> /\ requests = buildMessage(o) \o <<b>>
      BY Zenon, <2>7 DEF BothSent, Queues
    <3>2. Head(requests) = o /\ SubSeq(requests, PayloadSize(o.op) + 2, Len(requests)) = <<b>>
      BY Zenon, <1>3, <2>3, <3>1, ReadsOne
    <3>3. PICK outcomes \in SUBSET {"OK", "NOT_FOUND"} : Perform(o.op, outcomes)
      BY Zenon, <1>2, <2>3, <3>2
    <3>4. PICK s \in Status :
            /\ responses' = Append(responses, Reply(o, s))
            /\ \/ txn' = [txn EXCEPT !.ran = @ \cup {<<o.by, o.try, o.n>>}]
               \/ s \notin {"OK", "NOT_FOUND"} /\ txn' \in {txn, Nothing}
      BY Zenon, <2>3, <2>7, <3>2, <3>3, PerformOpen
    <3>5. requests' = <<b>> /\ committed' = committed
      BY Zenon, <2>3, <2>7, <3>2, <3>3, PerformOpen
    <3>6. FirstServed(o, s, b)'
      BY Zenon, <1>2, <3>1, <3>4, <3>5, Single DEF FirstServed, Queues
    <3>7. txn \in Txn
      BY Zenon, <2>7 DEF TypeOK
    <3>8. PICK more : more = [txn EXCEPT !.ran = @ \cup {<<o.by, o.try, o.n>>}]
      BY Zenon
    <3>9. more.by = txn.by /\ more.try = txn.try
      BY <3>7, <3>8 DEF Txn
    <3>10. Owns(c)'
      BY Zenon, <1>2, <2>7, <3>4, <3>8, <3>9 DEF Owns
    <3> QED BY Zenon, <3>5, <3>6, <3>10 DEF Overtaken
  <2>8. ASSUME NEW s \in Status, FirstServed(o, s, b)
        PROVE  Overtaken(c, o, b)' /\ committed' = committed
    <3>1. tasks = <<>> /\ pending = <<o, b>> /\ responses = <<Reply(o, s)>> /\ requests = <<b>>
      BY Zenon, <2>8 DEF FirstServed, Queues
    <3>2. PICK u \in Final : responses' = <<Reply(o, s), Reply(b, u)>>
      BY Zenon, <1>6, <3>1, Pair
    <3>3. BothServed(o, s, b, u)'
      BY Zenon, <1>2, <1>6, <3>1, <3>2 DEF BothServed, Queues
    <3> QED BY Zenon, <1>6, <3>1, <3>3 DEF Overtaken
  <2>9. ASSUME NEW s \in Status, FirstArrived(o, s, b)
        PROVE  Overtaken(c, o, b)' /\ committed' = committed
    <3>1. tasks = <<Task(o, s)>> /\ pending = <<b>> /\ responses = <<>> /\ requests = <<b>>
      BY Zenon, <2>9 DEF FirstArrived, Queues
    <3>2. PICK u \in Final : responses' = <<Reply(b, u)>>
      BY Zenon, <1>6, <3>1, Single
    <3>3. OneOfEach(o, s, b, u)'
      BY Zenon, <1>2, <1>6, <3>1, <3>2 DEF OneOfEach, Queues
    <3> QED BY Zenon, <1>6, <3>1, <3>3 DEF Overtaken
  <2> QED BY Zenon, <2>6, <2>7, <2>8, <2>9
<1>9. \A u : ~Served(b, u) /\ ~Arrived(b, u)
  BY Zenon, <1>2 DEF Served, Arrived, Queues
<1> QED BY Zenon, <1>1, <1>7, <1>8, <1>9 DEF RollingBack

(* The server takes a step, on an open connection.                         *)
LEMMA RunOpen ==
  ASSUME TypeOK, OneAtATime, OpenPhase, CommittedOnce, socket = "open", run
  PROVE  OneAtATime' /\ OpenPhase' /\ CommittedOnce'
<1>1. requests # <<>> /\ UNCHANGED <<usage, pc, attempt, issued, pending, tasks>>
  BY Zenon, RunAt
<1>2. OneAtATime'
  BY Zenon, <1>1 DEF OneAtATime, Busy
<1>3. committed' = committed => CommittedOnce'
  BY Zenon, <1>1, OnceStays
<1>4. PICK c \in Caller : Beginning(c) \/ InFn(c) \/ Committing(c) \/ RollingBack(c)
  BY Zenon, <1>1 DEF OpenPhase, Silent, Queues
<1>5. \/ Beginning(c)' /\ committed' = committed
      \/ InFn(c)' /\ committed' = committed
      \/ Committing(c)' /\ CommittedOnce'
      \/ RollingBack(c)' /\ committed' = committed
  BY Zenon, <1>4, ServeBegin, ServeOperation, ServeCommit, ServeRollback
<1> QED BY Zenon, <1>2, <1>3, <1>5 DEF OpenPhase-----------------------------------------------------------------------------
(***************************************************************************)
(* The connection is closed.                                               *)
(***************************************************************************)
LEMMA NoCommitPart ==
  ASSUME TypeOK, NoCommit, NEW m \in Nat, m > 0, NEW n \in 0 .. Len(requests),
         requests' = SubSeq(requests, m, n)
  PROVE  NoCommit'
<1> DEFINE S == Request \cup {Payload}
<1>1. requests \in Seq(S)
  BY Zenon DEF TypeOK
<1> HIDE DEF S
<1>2. Len(requests) \in Nat /\ DOMAIN requests = 1 .. Len(requests)
  BY <1>1, LenProperties
<1>3. \A i \in m .. n : requests[i] \in S
  BY <1>1, <1>2, ElementOfSeq
<1>4. /\ SubSeq(requests, m, n) \in Seq(S)
      /\ Len(SubSeq(requests, m, n)) = IF m <= n THEN n - m + 1 ELSE 0
      /\ \A i \in 1 .. n - m + 1 : SubSeq(requests, m, n)[i] = requests[m + i - 1]
  BY <1>2, <1>3, SubSeqProperties
<1>5. DOMAIN requests' = 1 .. (IF m <= n THEN n - m + 1 ELSE 0)
  BY <1>4, LenProperties
<1>6. SUFFICES ASSUME NEW i \in DOMAIN requests', requests'[i] # Payload
               PROVE  requests'[i].op # "COMMIT"
  BY Zenon DEF NoCommit
<1>7. i \in 1 .. n - m + 1 /\ m + i - 1 \in DOMAIN requests
  BY <1>2, <1>5, <1>6
<1>8. requests'[i] = requests[m + i - 1]
  BY <1>4, <1>7
<1> DEFINE j == m + i - 1
<1>9. j \in DOMAIN requests /\ requests'[i] = requests[j]
  BY <1>7, <1>8
<1> HIDE DEF j
<1> QED BY Zenon, <1>6, <1>9 DEF NoCommit

(* Only a COMMIT on its own is a commit on its way to the server.          *)
LEMMA NoCommitAlone ==
  ASSUME NEW r \in Request, r.op # "COMMIT", requests = buildMessage(r)
  PROVE  NoCommit
BY Zenon, Messages DEF NoCommit

LEMMA NoCommitPair ==
  ASSUME NEW o \in Request, NEW b \in Request, o.op # "COMMIT", b.op # "COMMIT",
         requests = buildMessage(o) \o <<b>>
  PROVE  NoCommit
<1> DEFINE S == Request \cup {Payload}
           m == buildMessage(o)
           t == <<b>>
<1>1. m \in Seq(S) /\ m[1] = o /\ \A i \in DOMAIN m : i # 1 => m[i] = Payload
  BY Zenon, Messages
<1>2. t \in Seq(S) /\ Len(t) = 1 /\ t[1] = b
  <2>1. b \in S
    OBVIOUS
  <2> HIDE DEF S
  <2> QED BY <2>1
<1> HIDE DEF S, m, t
<1>3. Len(m) \in Nat /\ DOMAIN m = 1 .. Len(m)
  BY <1>1, LenProperties
<1>4. requests = m \o t
  BY DEF m, t
<1>5. /\ requests \in Seq(S) /\ Len(requests) = Len(m) + 1
      /\ \A i \in 1 .. Len(m) + 1 :
           requests[i] = IF i <= Len(m) THEN m[i] ELSE t[i - Len(m)]
  <2>1. /\ m \o t \in Seq(S) /\ Len(m \o t) = Len(m) + Len(t)
        /\ \A i \in 1 .. Len(m) + Len(t) :
             (m \o t)[i] = IF i <= Len(m) THEN m[i] ELSE t[i - Len(m)]
    BY Zenon, <1>1, <1>2, ConcatProperties
  <2> QED BY Zenon, <1>2, <1>4, <2>1
<1>6. DOMAIN requests = 1 .. Len(m) + 1
  BY <1>5, LenProperties
<1>7. SUFFICES ASSUME NEW i \in 1 .. Len(m) + 1, requests[i] # Payload
               PROVE  requests[i].op # "COMMIT"
  BY <1>6 DEF NoCommit
<1>8. CASE i <= Len(m)
  <2>1. i \in DOMAIN m /\ requests[i] = m[i]
    BY <1>3, <1>5, <1>8
  <2> QED BY Zenon, <1>1, <1>7, <2>1
<1>9. CASE i = Len(m) + 1
  <2>1. requests[i] = b
    BY <1>2, <1>3, <1>5, <1>9
  <2> QED BY Zenon, <2>1
<1>10. i <= Len(m) \/ i = Len(m) + 1
  BY <1>3
<1> QED BY Zenon, <1>8, <1>9, <1>10

LEMMA NoCommitSilent ==
  ASSUME requests = <<>> PROVE NoCommit
<1>1. DOMAIN <<>> = {}
  OBVIOUS
<1> QED BY Zenon, <1>1 DEF NoCommit

LEMMA CommitInOpen ==
  ASSUME TypeOK, OpenPhase
  PROVE  \/ NoCommit
         \/ \E c \in Caller : /\ requests = <<Req("COMMIT", c, 0)>> /\ pc[c] = "commit"
                              /\ Owns(c) /\ Mine(c) = {}
<1>1. /\ \A op \in {"BEGIN", "COMMIT", "ROLLBACK"}, c \in Caller :
           /\ Req(op, c, 0) \in Request /\ Req(op, c, 0).op = op
           /\ buildMessage(Req(op, c, 0)) = <<Req(op, c, 0)>>
  <2>1. SUFFICES ASSUME NEW op \in {"BEGIN", "COMMIT", "ROLLBACK"}, NEW c \in Caller, NEW r,
                        r = Req(op, c, 0)
                 PROVE  r \in Request /\ r.op = op /\ buildMessage(r) = <<r>>
    BY Zenon
  <2>2. 0 \in Nat
    OBVIOUS
  <2>3. r.op = op /\ r.op \notin Operation
    BY <2>1 DEF Req, Operation
  <2> QED BY Zenon, <2>1, <2>2, <2>3, ReqType, Messages
<1>2. \A op \in Operation, c \in Caller :
        Req(op, c, issued[c]) \in Request /\ Req(op, c, issued[c]).op # "COMMIT"
  <2>1. SUFFICES ASSUME NEW op \in Operation, NEW c \in Caller, NEW r, r = Req(op, c, issued[c])
                 PROVE  r \in Request /\ r.op # "COMMIT"
    BY Zenon
  <2>2. issued[c] \in Nat
    <3>1. issued \in [Caller -> 0 .. MaxOps[usage]] /\ MaxOps[usage] \in Nat
      BY Zenon, SessionAssumption DEF TypeOK
    <3> QED BY <3>1
  <2>3. r.op # "COMMIT"
    BY <2>1 DEF Req, Operation
  <2> QED BY Zenon, <2>1, <2>2, <2>3, ReqType
<1>3. "BEGIN" # "COMMIT" /\ "ROLLBACK" # "COMMIT"
  BY Zenon
<1>4. ASSUME NEW c \in Caller, Beginning(c) PROVE NoCommit
  BY Zenon, <1>1, <1>3, <1>4, NoCommitAlone, NoCommitSilent
     DEF Beginning, Sent, Served, Arrived, Queues
<1>5. ASSUME NEW c \in Caller, InFn(c) PROVE NoCommit
  BY Zenon, <1>2, <1>5, NoCommitAlone, NoCommitSilent
     DEF InFn, Operating, Silent, Sent, Served, Arrived, Queues
<1>6. ASSUME NEW c \in Caller, Committing(c)
      PROVE  NoCommit \/ (/\ requests = <<Req("COMMIT", c, 0)>> /\ pc[c] = "commit"
                          /\ Owns(c) /\ Mine(c) = {})
  <2>1. CASE requests = <<>>
    BY Zenon, <2>1, NoCommitSilent
  <2>2. CASE requests # <<>>
    <3>1. /\ Sent(Req("COMMIT", c, 0)) /\ txn = Work(c, issued[c]) /\ Mine(c) = {}
          /\ pc[c] = "commit"
      BY Zenon, <1>6, <2>2 DEF Committing, Served, Arrived, Queues
    <3>2. txn.by = c /\ txn.try = attempt[c]
      BY Zenon, <3>1 DEF Work
    <3> QED BY Zenon, <1>1, <3>1, <3>2 DEF Sent, Queues, Owns
  <2> QED BY Zenon, <2>1, <2>2
<1>7. ASSUME NEW c \in Caller, RollingBack(c) PROVE NoCommit
  <2>1. PICK b : b = Req("ROLLBACK", c, 0)
    BY Zenon
  <2>2. b \in Request /\ b.op # "COMMIT" /\ buildMessage(b) = <<b>>
    BY Zenon, <1>1, <1>3, <2>1
  <2>3. \/ requests = <<>> \/ requests = <<b>>
        \/ \E op \in Operation : requests = buildMessage(Req(op, c, issued[c])) \o <<b>>
    BY Zenon, <1>7, <2>1, <2>2
       DEF RollingBack, Overtaken, Sent, Served, Arrived, BothSent, FirstServed, FirstArrived,
           BothServed, OneOfEach, BothArrived, Queues
  <2> QED BY Zenon, <1>2, <2>2, <2>3, NoCommitAlone, NoCommitPair, NoCommitSilent
<1> QED BY Zenon, <1>4, <1>5, <1>6, <1>7, NoCommitSilent DEF OpenPhase, Silent, Queues
(* disconnect(), or the network fails.                                     *)
LEMMA CloseOpen ==
  ASSUME TypeOK, OneAtATime, OpenPhase, CommittedOnce, close
  PROVE  OneAtATime' /\ ClosedPhase' /\ CommittedOnce'
<1>1. /\ tasks = <<>> /\ tasks' = [i \in DOMAIN pending |-> Rejected(pending[i])]
      /\ pending' = <<>> /\ responses' = <<>>
      /\ UNCHANGED <<usage, pc, attempt, issued, txn, committed>>
  BY Zenon DEF close, clientVars, serverVars
<1>2. PICK n \in 0 .. Len(requests) : requests' = SubSeq(requests, 1, n)
  BY Zenon DEF close
<1>3. OneAtATime' /\ CommittedOnce'
  <2>1. OneAtATime'
    BY Zenon, <1>1 DEF OneAtATime, Busy
  <2> QED BY Zenon, <1>1, <2>1, OnceStays
<1>4. \A op, c, m : Req(op, c, m)' = Req(op, c, m)
  BY Zenon, <1>1 DEF Req
<1>5. /\ pending = <<>> => tasks' = <<>>
      /\ \A r : pending = <<r>> => tasks' = <<Rejected(r)>>
      /\ \A o, b : pending = <<o, b>> => tasks' = <<Rejected(o), Rejected(b)>>
  <2>1. PICK f : f = [i \in DOMAIN pending |-> Rejected(pending[i])]
    BY Zenon
  <2>2. tasks' = f
    BY Zenon, <1>1, <2>1
  <2>3. ASSUME pending = <<>> PROVE f = <<>>
    <3>1. DOMAIN pending = {}
      BY <2>3
    <3>2. f = [i \in {} |-> Rejected(pending[i])]
      BY Zenon, <2>1, <3>1
    <3> QED BY <3>2
  <2>4. ASSUME NEW r, pending = <<r>> PROVE f = <<Rejected(r)>>
    <3>1. DOMAIN pending = 1 .. 1 /\ 1 \in 1 .. 1 /\ pending[1] = r
      BY <2>4
    <3>2. f = [i \in 1 .. 1 |-> f[i]] /\ f[1] = Rejected(r)
      BY Zenon, <2>1, <3>1
    <3> QED BY Zenon, <3>2, OneValue
  <2>5. ASSUME NEW o, NEW b, pending = <<o, b>> PROVE f = <<Rejected(o), Rejected(b)>>
    <3>1. /\ DOMAIN pending = 1 .. 2 /\ 1 \in 1 .. 2 /\ 2 \in 1 .. 2
          /\ pending[1] = o /\ pending[2] = b
      BY <2>5
    <3>2. f = [i \in 1 .. 2 |-> f[i]] /\ f[1] = Rejected(o) /\ f[2] = Rejected(b)
      BY Zenon, <2>1, <3>1
    <3> QED BY Zenon, <3>2, TwoValues
  <2> QED BY Zenon, <2>2, <2>3, <2>4, <2>5
<1>6. ASSUME NEW c \in Caller, Beginning(c) PROVE ClosedCall(c)'
  <2>1. PICK r : r = Req("BEGIN", c, 0)
    BY Zenon
  <2>2. pending = <<r>> /\ pc[c] = "begin"
    BY Zenon, <1>1, <1>6, <2>1, Single DEF Beginning, Sent, Served, Arrived, Queues
  <2>3. tasks' = <<Rejected(Req("BEGIN", c, 0)')>> /\ pc'[c] = "begin"
    BY Zenon, <1>1, <1>4, <1>5, <2>1, <2>2
  <2> QED BY Zenon, <2>3 DEF ClosedCall, Rejected
<1>7. ASSUME NEW c \in Caller, InFn(c) PROVE ClosedCall(c)'
  <2>1. /\ pc[c] = "fn"
        /\ pending = <<>> \/ \E op \in Operation : pending = <<Req(op, c, issued[c])>>
    BY Zenon, <1>1, <1>7, Single DEF InFn, Operating, Silent, Sent, Served, Arrived, Queues
  <2>2. /\ pc'[c] = "fn"
        /\ \/ tasks' = <<>>
           \/ \E op \in Operation : tasks' = <<Rejected(Req(op, c, issued[c])')>>
    BY Zenon, <1>1, <1>4, <1>5, <2>1 DEF Rejected
  <2> QED BY Zenon, <2>2 DEF ClosedCall
<1>8. ASSUME NEW c \in Caller, Committing(c) PROVE ClosedCall(c)'
  <2>1. PICK r : r = Req("COMMIT", c, 0)
    BY Zenon
  <2>2. pending = <<r>> /\ pc[c] = "commit"
    BY Zenon, <1>1, <1>8, <2>1, Single DEF Committing, Sent, Served, Arrived, Queues
  <2>3. tasks' = <<Rejected(Req("COMMIT", c, 0)')>> /\ pc'[c] = "commit"
    BY Zenon, <1>1, <1>4, <1>5, <2>1, <2>2
  <2> QED BY Zenon, <2>3 DEF ClosedCall, Rejected
<1>9. ASSUME NEW c \in Caller, RollingBack(c) PROVE ClosedCall(c)'
  <2>1. PICK b : b = Req("ROLLBACK", c, 0)
    BY Zenon
  <2>2. /\ pc[c] = "rollback"
        /\ \/ pending = <<b>>
           \/ \E op \in Operation : pending = <<Req(op, c, issued[c]), b>>
    BY Zenon, <1>1, <1>9, <2>1, Single, Pair
       DEF RollingBack, Overtaken, Sent, Served, Arrived, BothSent, FirstServed, FirstArrived,
           BothServed, OneOfEach, BothArrived, Queues
  <2>3. /\ pc'[c] = "rollback"
        /\ \/ tasks' = <<Rejected(b)>>
           \/ \E op \in Operation : tasks' = <<Rejected(Req(op, c, issued[c])'), Rejected(b)>>
    BY Zenon, <1>1, <1>4, <1>5, <2>2
  <2>4. b = Req("ROLLBACK", c, 0)'
    BY Zenon, <1>4, <2>1
  <2> QED BY Zenon, <2>3, <2>4 DEF ClosedCall, Rejected
<1>10. \/ tasks' = <<>> /\ \A c \in Caller : pc'[c] \in Resting
       \/ \E c \in Caller : ClosedCall(c)'
  <2>1. CASE Silent /\ \A c \in Caller : pc[c] \in Resting
    BY Zenon, <1>1, <1>5, <2>1 DEF Silent, Queues
  <2> QED BY Zenon, <1>6, <1>7, <1>8, <1>9, <2>1 DEF OpenPhase
<1>11. NoCommit' \/ \E c \in Caller : LateCommit(c)'
  <2>1. CASE NoCommit
    <3>1. 1 \in Nat /\ 1 > 0
      OBVIOUS
    <3> QED BY Zenon, <1>2, <2>1, <3>1, NoCommitPart
  <2>2. ASSUME NEW c \in Caller, requests = <<Req("COMMIT", c, 0)>>, pc[c] = "commit",
               Owns(c), Mine(c) = {}
        PROVE  NoCommit' \/ LateCommit(c)'
    <3>1. PICK r : r = Req("COMMIT", c, 0)
      BY Zenon
    <3>2. requests' = <<>> \/ requests' = <<r>>
      <4>1. n = 0 \/ n = 1
        BY <1>2, <2>2, <3>1
      <4>2. SubSeq(<<r>>, 1, 0) = <<>> /\ SubSeq(<<r>>, 1, 1) = <<r>>
        <5>1. <<r>> \in Seq({r})
          OBVIOUS
        <5>2. SubSeq(<<r>>, 1, Len(<<r>>)) = <<r>>
          BY Zenon, <5>1, SubSeqFull
        <5> QED BY Zenon, <5>2, Single
      <4> QED BY Zenon, <1>2, <2>2, <3>1, <4>1, <4>2
    <3>3. CASE requests' = <<>>
      <4>1. DOMAIN <<>> = {}
        OBVIOUS
      <4> QED BY Zenon, <3>3, <4>1 DEF NoCommit
    <3>4. CASE requests' = <<r>>
      <4>1. Owns(c)' /\ Mine(c)' = {}
        BY Zenon, <1>1, <2>2 DEF Owns, Mine
      <4>2. r = Req("COMMIT", c, 0)'
        BY Zenon, <1>4, <3>1
      <4>3. pc'[c] \in {"commit", "rejected"}
        BY Zenon, <1>1, <2>2
      <4> QED BY Zenon, <3>4, <4>1, <4>2, <4>3 DEF LateCommit
    <3> QED BY Zenon, <3>2, <3>3, <3>4
  <2> QED BY Zenon, <2>1, <2>2, CommitInOpen
<1> QED BY Zenon, <1>1, <1>3, <1>10, <1>11 DEF ClosedPhase-----------------------------------------------------------------------------
(***************************************************************************)
(* Steps on a closed connection.                                           *)
(***************************************************************************)
LEMMA ClosedLabel ==
  ASSUME OneAtATime, ClosedPhase, NEW c \in Caller
  PROVE  /\ pc[c] \in {"begin", "fn", "commit", "rollback"} => ClosedCall(c)
         /\ pc[c] = "backoff" \/ (\A d \in Caller : ~Busy(d)) => tasks = <<>>
<1>1. \A d \in Caller : ClosedCall(d) => pc[d] \in {"begin", "fn", "commit", "rollback"}
  BY Zenon DEF ClosedCall
<1>2. \A d \in Caller : pc[d] \in {"begin", "fn", "commit", "rollback"} =>
        Busy(d) /\ pc[d] \notin Resting /\ pc[d] # "backoff"
  BY DEF Busy, Resting
<1>3. pc[c] = "backoff" => Busy(c)
  BY DEF Busy
<1> QED BY Zenon, <1>1, <1>2, <1>3 DEF ClosedPhase, OneAtATime

(* A COMMIT still to be read, when the calls go on.                        *)
LEMMA LateStays ==
  ASSUME ClosedPhase, UNCHANGED <<requests, txn, committed>>,
         \A d \in Caller : pc[d] \in {"commit", "rejected"} =>
           attempt'[d] = attempt[d] /\ pc'[d] \in {"commit", "rejected"}
  PROVE  NoCommit' \/ \E c \in Caller : LateCommit(c)'
<1>1. CASE NoCommit
  BY Zenon, <1>1 DEF NoCommit
<1>2. ASSUME NEW c \in Caller, LateCommit(c) PROVE LateCommit(c)'
  <2>1. pc[c] \in {"commit", "rejected"}
    BY Zenon, <1>2 DEF LateCommit
  <2>2. attempt'[c] = attempt[c] /\ pc'[c] \in {"commit", "rejected"}
    BY Zenon, <2>1
  <2>3. Req("COMMIT", c, 0)' = Req("COMMIT", c, 0)
    BY Zenon, <2>2 DEF Req
  <2>4. requests = <<Req("COMMIT", c, 0)>> /\ Owns(c) /\ Mine(c) = {}
    BY Zenon, <1>2 DEF LateCommit
  <2>5. Owns(c)' /\ Mine(c)' = {}
    BY Zenon, <2>2, <2>4 DEF Owns, Mine
  <2> QED BY Zenon, <2>2, <2>3, <2>4, <2>5 DEF LateCommit
<1> QED BY Zenon, <1>1, <1>2 DEF ClosedPhase

(* send() without a socket.                                                *)
LEMMA StepClosed ==
  ASSUME socket = "closed", NEW c, NEW label, NEW r, Step(c, label, r)
  PROVE  /\ pc' = [pc EXCEPT ![c] = label] /\ tasks' = Append(tasks, Rejected(r))
         /\ UNCHANGED <<usage, socket, pending, responses, requests, txn, committed>>
BY Zenon DEF Step, send, SendAfter, serverVars

LEMMA FnHasRejections ==
  ASSUME NEW c \in Caller, ClosedCall(c), pc[c] = "fn", pending = <<>>,
         Cardinality(Unanswered(c)) < 1 \/ Unanswered(c) = {}
  PROVE  tasks = <<>>
<1>1. ASSUME NEW op \in Operation, tasks = <<Rejected(Req(op, c, issued[c]))>> PROVE FALSE
  <2>1. PICK r, t : r = Req(op, c, issued[c]) /\ t = Rejected(r)
    BY Zenon
  <2>2. IsOperationOf(c, r)
    BY <2>1 DEF IsOperationOf, Req
  <2>3. t.req = r /\ tasks = <<t>>
    BY Zenon, <1>1, <2>1 DEF Rejected
  <2>4. DOMAIN tasks = {1} /\ tasks[1] = t /\ DOMAIN pending = {}
    BY <2>3
  <2>5. {pending[i] : i \in DOMAIN pending} \cup {tasks[i].req : i \in DOMAIN tasks} = {r}
    BY <2>3, <2>4
  <2>6. Unanswered(c) = {r}
    BY Zenon, <2>2, <2>5 DEF Unanswered
  <2>7. Cardinality(Unanswered(c)) = 1
    BY Zenon, <2>6, FS_Singleton
  <2> QED BY <2>6, <2>7
<1>2. pc[c] # "begin" /\ pc[c] # "commit" /\ pc[c] # "rollback"
  BY Zenon
<1> QED BY Zenon, <1>1, <1>2 DEF ClosedCall

(* A call goes on, on a closed connection.                                 *)
LEMMA CallClosed ==
  ASSUME TypeOK, OneAtATime, ClosedPhase, CommittedOnce,
         usage = "awaited", socket = "closed", NEW c \in Caller, Call(c)
  PROVE  OneAtATime' /\ ClosedPhase' /\ CommittedOnce'
<1>1. pc \in [Caller -> Label] /\ attempt \in [Caller -> Attempt]
  BY Zenon DEF TypeOK, Label
<1>2. pending = <<>> /\ responses = <<>>
  BY Zenon DEF ClosedPhase
<1>3. Mine(c) # {} => pc[c] \in {"commit", "resolved", "rejected"}
  BY Zenon DEF CommittedOnce, Mine
<1>4. ASSUME NEW label \in {"begin", "fn", "commit", "rollback"}, NEW r, Step(c, label, r),
             pc[c] \in {"idle", "backoff", "fn"}, Busy(c) \/ \A d \in Caller : ~Busy(d),
             \A d \in Caller : d # c => attempt'[d] = attempt[d] /\ issued'[d] = issued[d],
             pc'[c] = label /\ tasks' = Append(tasks, Rejected(r)) => ClosedCall(c)'
      PROVE  OneAtATime' /\ ClosedPhase' /\ CommittedOnce'
  <2>1. /\ pc' = [pc EXCEPT ![c] = label] /\ tasks' = Append(tasks, Rejected(r))
        /\ UNCHANGED <<usage, pending, responses, requests, txn, committed>>
    BY Zenon, <1>4, StepClosed
  <2>2. pc'[c] = label /\ \A d \in Caller : d # c => pc'[d] = pc[d]
    BY Zenon, <1>1, <2>1
  <2>3. Mine(c) = {} /\ label # "resolved" /\ pc[c] \notin {"commit", "rejected"}
    BY <1>3, <1>4
  <2>4. OneAtATime'
    BY Zenon, <1>4, <2>2, OneKept
  <2>5. CommittedOnce'
    BY Zenon, <1>4, <2>1, <2>2, <2>3, OnceKept
  <2>6. \A d \in Caller : pc[d] \in {"commit", "rejected"} =>
          attempt'[d] = attempt[d] /\ pc'[d] \in {"commit", "rejected"}
    BY Zenon, <1>4, <2>2, <2>3
  <2>7. NoCommit' \/ \E d \in Caller : LateCommit(d)'
    BY Zenon, <2>1, <2>6, LateStays
  <2>8. ClosedCall(c)' /\ pending' = <<>> /\ responses' = <<>>
    BY Zenon, <1>2, <1>4, <2>1, <2>2
  <2> QED BY Zenon, <2>4, <2>5, <2>7, <2>8 DEF ClosedPhase
<1>5. CASE begin(c) \/ Retry(c)
  <2>1. PICK r : /\ Step(c, "begin", r) /\ issued' = issued
                 /\ \/ r = Req("BEGIN", c, 0) /\ attempt' = attempt
                    \/ /\ r = [Req("BEGIN", c, 0) EXCEPT !.try = @ + 1]
                       /\ attempt' = [attempt EXCEPT ![c] = @ + 1]
    BY Zenon, <1>5 DEF begin, Retry
  <2>2. r = Req("BEGIN", c, 0)' /\ \A d \in Caller : d # c => attempt'[d] = attempt[d]
    BY <1>1, <2>1 DEF Req
  <2>3. pc[c] \in {"idle", "backoff"} /\ (Busy(c) \/ \A d \in Caller : ~Busy(d))
    <3>1. CASE Retry(c)
      BY <3>1 DEF Retry, Busy
    <3>2. CASE begin(c)
      <4>1. pc[c] = "idle" /\ \A d \in Caller : pc[d] = "idle" \/ Settled(d)
        BY Zenon, <3>2 DEF begin
      <4> QED BY <4>1 DEF Busy, Settled
    <3> QED BY Zenon, <1>5, <3>1, <3>2
  <2>4. tasks = <<>>
    <3>1. pc[c] = "idle" => ~Busy(c)
      BY DEF Busy
    <3> QED BY Zenon, <2>3, <3>1, ClosedLabel
  <2>5. pc'[c] = "begin" /\ tasks' = Append(tasks, Rejected(r)) => ClosedCall(c)'
    BY Zenon, <2>2, <2>4, Single DEF ClosedCall, Rejected
  <2>6. pc[c] \in {"idle", "backoff", "fn"} /\ "begin" \in {"begin", "fn", "commit", "rollback"}
    BY Zenon, <2>3
  <2> QED BY Zenon, <1>4, <2>1, <2>2, <2>3, <2>5, <2>6
<1>6. pc[c] = "fn" => Busy(c) /\ ClosedCall(c) /\ pc[c] \in {"idle", "backoff", "fn"}
  <2>1. pc[c] = "fn" => Busy(c)
    BY DEF Busy
  <2>2. pc[c] = "fn" =>
          pc[c] \in {"begin", "fn", "commit", "rollback"} /\ pc[c] \in {"idle", "backoff", "fn"}
    BY Zenon
  <2> QED BY Zenon, <2>1, <2>2, ClosedLabel
<1>7. CASE Throw(c)
  <2>1. /\ pc[c] = "fn" /\ Step(c, "rollback", Req("ROLLBACK", c, 0))
        /\ attempt' = attempt /\ issued' = issued
    BY Zenon, <1>7 DEF Throw
  <2>2. PICK b : b = Req("ROLLBACK", c, 0)
    BY Zenon
  <2>3. b = Req("ROLLBACK", c, 0)' /\ \A op : Req(op, c, issued[c])' = Req(op, c, issued[c])
    BY Zenon, <2>1, <2>2 DEF Req
  <2>4. tasks = <<>> \/ \E op \in Operation : tasks = <<Rejected(Req(op, c, issued[c]))>>
    <3>1. pc[c] # "begin" /\ pc[c] # "commit" /\ pc[c] # "rollback"
      BY Zenon, <2>1
    <3> QED BY Zenon, <1>6, <2>1, <3>1 DEF ClosedCall
  <2>5. ASSUME pc'[c] = "rollback", tasks' = Append(tasks, Rejected(b)) PROVE ClosedCall(c)'
    <3>1. \/ tasks' = <<Rejected(b)>>
          \/ \E op \in Operation : tasks' = <<Rejected(Req(op, c, issued[c])), Rejected(b)>>
      <4>1. Append(<<>>, Rejected(b)) = <<Rejected(b)>>
        BY Zenon, Single
      <4>2. \A x : Append(<<x>>, Rejected(b)) = <<x, Rejected(b)>>
        BY Zenon, Pair
      <4> QED BY Zenon, <2>4, <2>5, <4>1, <4>2
    <3>2. /\ Rejected(Req("ROLLBACK", c, 0))' = Rejected(b)
          /\ \A op : Rejected(Req(op, c, issued[c]))' = Rejected(Req(op, c, issued[c]))
      BY Zenon, <2>1, <2>2 DEF Rejected, Req
    <3> QED BY Zenon, <2>5, <3>1, <3>2 DEF ClosedCall
  <2>6. "rollback" \in {"begin", "fn", "commit", "rollback"}
    BY Zenon
  <2> QED BY Zenon, <1>4, <1>6, <2>1, <2>2, <2>5, <2>6
<1>8. CASE commit(c)
  <2>1. /\ pc[c] = "fn" /\ Unanswered(c) = {} /\ Step(c, "commit", Req("COMMIT", c, 0))
        /\ attempt' = attempt /\ issued' = issued
    BY Zenon, <1>8 DEF commit
  <2>2. tasks = <<>>
    BY Zenon, <1>2, <1>6, <2>1, FnHasRejections
  <2>3. PICK r : r = Req("COMMIT", c, 0)
    BY Zenon
  <2>4. r = Req("COMMIT", c, 0)'
    BY Zenon, <2>1, <2>3 DEF Req
  <2>5. pc'[c] = "commit" /\ tasks' = Append(tasks, Rejected(r)) => ClosedCall(c)'
    BY Zenon, <2>2, <2>4, Single DEF ClosedCall, Rejected
  <2>6. "commit" \in {"begin", "fn", "commit", "rollback"}
    BY Zenon
  <2> QED BY Zenon, <1>4, <1>6, <2>1, <2>3, <2>5, <2>6
<1>9. ASSUME NEW op \in Operation, Operate(c, op)
      PROVE  OneAtATime' /\ ClosedPhase' /\ CommittedOnce'
  <2>1. /\ pc[c] = "fn" /\ Cardinality(Unanswered(c)) < IF usage = "pipelined" THEN 2 ELSE 1
        /\ Step(c, "fn", Req(op, c, issued[c] + 1)) /\ issued' = [issued EXCEPT ![c] = @ + 1]
        /\ attempt' = attempt
    BY Zenon, <1>9 DEF Operate
  <2>2. Cardinality(Unanswered(c)) < 1
    BY <2>1
  <2>3. tasks = <<>>
    BY Zenon, <1>2, <1>6, <2>1, <2>2, FnHasRejections
  <2>4. issued'[c] = issued[c] + 1 /\ \A d \in Caller : d # c => issued'[d] = issued[d]
    BY Zenon, <2>1 DEF TypeOK
  <2>5. PICK r : r = Req(op, c, issued[c] + 1)
    BY Zenon
  <2>6. r = Req(op, c, issued[c])'
    BY Zenon, <2>1, <2>4, <2>5 DEF Req
  <2>7. pc'[c] = "fn" /\ tasks' = Append(tasks, Rejected(r)) => ClosedCall(c)'
    BY Zenon, <2>3, <2>6, Single DEF ClosedCall, Rejected
  <2>8. "fn" \in {"begin", "fn", "commit", "rollback"}
    BY Zenon
  <2> QED BY Zenon, <1>4, <1>6, <2>1, <2>4, <2>5, <2>7, <2>8
<1> QED BY Zenon, <1>5, <1>7, <1>8, <1>9 DEF Call
(* A rejection is thrown, and every call comes to its end.                 *)
LEMMA RejectedFields ==
  ASSUME NEW r
  PROVE  Rejected(r).req = r /\ Rejected(r).status = "CLOSED"
BY Zenon DEF Rejected

LEMMA ContinueClosed ==
  ASSUME TypeOK, OneAtATime, ClosedPhase, CommittedOnce,
         usage = "awaited", socket = "closed", Continue
  PROVE  OneAtATime' /\ ClosedPhase' /\ CommittedOnce'
<1>1. pending = <<>> /\ responses = <<>> /\ tasks # <<>>
  BY Zenon DEF ClosedPhase, Continue
<1>2. PICK c \in Caller : ClosedCall(c)
  BY Zenon, <1>1 DEF ClosedPhase
<1>3. UNCHANGED <<responses, txn, committed>>
  BY Zenon DEF Continue, serverVars
<1>4. PICK t : t = Head(tasks)
  BY Zenon
<1>5. Mine(c) # {} => pc[c] \in {"commit", "resolved", "rejected"}
  BY Zenon DEF CommittedOnce, Mine
<1>6. Busy(c)
  <2>1. pc[c] \in {"begin", "fn", "commit", "rollback"}
    BY Zenon, <1>2 DEF ClosedCall
  <2> QED BY <2>1 DEF Busy
<1>7. ASSUME NEW v \in Label, pc' = [pc EXCEPT ![c] = v], v # "resolved",
             pc[c] = "commit" => v = "rejected",
             UNCHANGED <<usage, attempt, pending, requests>>,
             \A d \in Caller : d # c => issued'[d] = issued[d],
             pc'[c] = v => ClosedCall(c)' \/ (tasks' = <<>> /\ v \in Resting)
      PROVE  OneAtATime' /\ ClosedPhase' /\ CommittedOnce'
  <2>1. pc'[c] = v /\ \A d \in Caller : d # c => pc'[d] = pc[d]
    BY Zenon, <1>7, Moves
  <2>2. pc[c] # "resolved" /\ pc[c] # "rejected"
    BY <1>6 DEF Busy
  <2>3. Mine(c) # {} => v \in {"commit", "resolved", "rejected"}
    BY Zenon, <1>5, <1>7, <2>2
  <2>4. OneAtATime'
    BY Zenon, <1>6, <2>1, OneKept
  <2>5. CommittedOnce'
    BY Zenon, <1>3, <1>7, <2>1, <2>3, OnceKept
  <2>6. \A d \in Caller : pc[d] \in {"commit", "rejected"} =>
          attempt'[d] = attempt[d] /\ pc'[d] \in {"commit", "rejected"}
    BY Zenon, <1>7, <2>1, <2>2
  <2>7. NoCommit' \/ \E d \in Caller : LateCommit(d)'
    BY Zenon, <1>3, <1>7, <2>6, LateStays
  <2>8. pending' = <<>> /\ responses' = <<>>
    BY Zenon, <1>1, <1>3, <1>7
  <2>9. ClosedCall(c)' \/ (tasks' = <<>> /\ \A d \in Caller : pc'[d] \in Resting)
    BY Zenon, <1>6, <1>7, <2>1, AllRest
  <2> QED BY Zenon, <2>4, <2>5, <2>7, <2>8, <2>9 DEF ClosedPhase
<1>8. ASSUME NEW op, NEW n, t = Rejected(Req(op, c, n))
      PROVE  /\ t.status = "CLOSED" /\ t.req.op = op /\ t.req.by = c
             /\ t.req.try = attempt[c] /\ ~checkResponse(t)
             /\ op = "BEGIN" => BeginAnswered(t)
             /\ op = "COMMIT" => CommitAnswered(t)
             /\ op = "ROLLBACK" => RollbackAnswered(t)
             /\ op \in Operation /\ pc[c] = "fn" => OperationThrows(t)
             /\ op \in Operation /\ pc[c] # "fn" => OperationAnswered(t)
  <2>1. t.status = "CLOSED" /\ t.req = Req(op, c, n)
    BY Zenon, <1>8, RejectedFields
  <2>2. t.req.op = op /\ t.req.by = c /\ t.req.try = attempt[c]
    BY <2>1 DEF Req
  <2>3. ~checkResponse(t)
    BY <2>1 DEF checkResponse
  <2>4. \/ BeginAnswered(t) \/ OperationAnswered(t) \/ OperationThrows(t)
        \/ CommitAnswered(t) \/ RollbackAnswered(t)
    BY Zenon, <1>4 DEF Continue
  <2>5. /\ BeginAnswered(t) => op = "BEGIN"
        /\ OperationAnswered(t) => op \in Operation
        /\ OperationThrows(t) => op \in Operation
        /\ CommitAnswered(t) => op = "COMMIT"
        /\ RollbackAnswered(t) => op = "ROLLBACK"
    BY Zenon, <2>2
       DEF BeginAnswered, OperationAnswered, OperationThrows, CommitAnswered, RollbackAnswered
  <2>6. op \in Operation => op # "BEGIN" /\ op # "COMMIT" /\ op # "ROLLBACK"
    BY DEF Operation
  <2>7. "BEGIN" # "COMMIT" /\ "BEGIN" # "ROLLBACK" /\ "COMMIT" # "ROLLBACK"
    BY Zenon
  <2>8. op \in Operation /\ pc[c] = "fn" => ~OperationAnswered(t)
    BY Zenon, <2>2, <2>3 DEF OperationAnswered, Succeeds, IsOperationOf
  <2>9. pc[c] # "fn" => ~OperationThrows(t)
    BY Zenon, <2>2 DEF OperationThrows
  <2> QED BY Zenon, <2>1, <2>2, <2>3, <2>4, <2>5, <2>6, <2>7, <2>8, <2>9
<1>9. CASE pc[c] = "begin" /\ tasks = <<Rejected(Req("BEGIN", c, 0))>>
  <2>1. t = Rejected(Req("BEGIN", c, 0)) /\ Tail(tasks) = <<>>
    BY Zenon, <1>4, <1>9, Single
  <2>2. BeginAnswered(t) /\ ~checkResponse(t) /\ t.req.by = c
    BY Zenon, <1>8, <2>1
  <2>3. /\ pc' = [pc EXCEPT ![c] = "rejected"] /\ tasks' = <<>>
        /\ issued' = [issued EXCEPT ![c] = 0] /\ UNCHANGED <<usage, attempt, pending, requests>>
    BY Zenon, <2>1, <2>2 DEF BeginAnswered
  <2>4. \A d \in Caller : d # c => issued'[d] = issued[d]
    BY Zenon, <2>3 DEF TypeOK
  <2>5. "rejected" \in Label /\ "rejected" # "resolved" /\ "rejected" \in Resting
    BY Zenon DEF Label, Resting
  <2> QED BY Zenon, <1>7, <2>3, <2>4, <2>5
<1>10. CASE /\ pc[c] = "fn"
            /\ \E op \in Operation : tasks = <<Rejected(Req(op, c, issued[c]))>>
  <2>1. PICK op \in Operation : tasks = <<Rejected(Req(op, c, issued[c]))>>
    BY Zenon, <1>10
  <2>2. t = Rejected(Req(op, c, issued[c])) /\ Tail(tasks) = <<>>
    BY Zenon, <1>4, <2>1, Single
  <2>3. OperationThrows(t) /\ t.req.by = c
    BY Zenon, <1>8, <1>10, <2>2
  <2>4. PICK b : b = Req("ROLLBACK", c, 0)
    BY Zenon
  <2>5. /\ pc' = [pc EXCEPT ![c] = "rollback"] /\ SendAfter(<<>>, b)
        /\ UNCHANGED <<usage, attempt, issued>>
    BY Zenon, <2>2, <2>3, <2>4 DEF OperationThrows
  <2>6. tasks' = <<Rejected(b)>> /\ UNCHANGED <<pending, requests>>
    BY Zenon, <2>5, Single DEF SendAfter
  <2>7. Rejected(Req("ROLLBACK", c, 0))' = Rejected(b)
    BY Zenon, <2>4, <2>5 DEF Rejected, Req
  <2>8. pc'[c] = "rollback" => ClosedCall(c)'
    BY Zenon, <2>6, <2>7 DEF ClosedCall
  <2>9. "rollback" \in Label /\ "rollback" # "resolved" /\ pc[c] # "commit"
    BY Zenon, <1>10 DEF Label
  <2> QED BY Zenon, <1>7, <2>5, <2>6, <2>8, <2>9
<1>11. CASE pc[c] = "commit" /\ tasks = <<Rejected(Req("COMMIT", c, 0))>>
  <2>1. t = Rejected(Req("COMMIT", c, 0)) /\ Tail(tasks) = <<>>
    BY Zenon, <1>4, <1>11, Single
  <2>2. CommitAnswered(t) /\ ~checkResponse(t) /\ t.req.by = c /\ t.status = "CLOSED"
    BY Zenon, <1>8, <2>1
  <2>3. /\ pc' = [pc EXCEPT ![c] = AfterRollback(c, t.status = "DEADLOCK")] /\ tasks' = <<>>
        /\ UNCHANGED <<usage, attempt, issued, pending, requests>>
    BY Zenon, <2>1, <2>2 DEF CommitAnswered
  <2>4. AfterRollback(c, t.status = "DEADLOCK") = "rejected"
    BY <2>2 DEF AfterRollback
  <2>5. pc' = [pc EXCEPT ![c] = "rejected"]
    BY Zenon, <2>3, <2>4
  <2>6. "rejected" \in Label /\ "rejected" # "resolved" /\ "rejected" \in Resting
    BY Zenon DEF Label, Resting
  <2> QED BY Zenon, <1>7, <2>3, <2>5, <2>6
<1>12. CASE pc[c] = "rollback" /\ tasks = <<Rejected(Req("ROLLBACK", c, 0))>>
  <2>1. t = Rejected(Req("ROLLBACK", c, 0)) /\ Tail(tasks) = <<>>
    BY Zenon, <1>4, <1>12, Single
  <2>2. RollbackAnswered(t) /\ t.req.by = c
    BY Zenon, <1>8, <2>1
  <2>3. PICK v : v = AfterRollback(c, deadlock[c])
    BY Zenon
  <2>4. /\ pc' = [pc EXCEPT ![c] = v] /\ tasks' = <<>>
        /\ UNCHANGED <<usage, attempt, issued, pending, requests>>
    BY Zenon, <2>1, <2>2, <2>3 DEF RollbackAnswered
  <2>5. v \in Label /\ v # "resolved" /\ v \in Resting
    BY <2>3 DEF AfterRollback, Label, Resting
  <2>6. pc[c] # "commit"
    BY Zenon, <1>12
  <2> QED BY Zenon, <1>7, <2>4, <2>5, <2>6
<1>13. CASE /\ pc[c] = "rollback"
            /\ \E op \in Operation :
                 tasks = <<Rejected(Req(op, c, issued[c])), Rejected(Req("ROLLBACK", c, 0))>>
  <2>1. PICK op \in Operation :
          tasks = <<Rejected(Req(op, c, issued[c])), Rejected(Req("ROLLBACK", c, 0))>>
    BY Zenon, <1>13
  <2>2. /\ t = Rejected(Req(op, c, issued[c]))
        /\ Tail(tasks) = <<Rejected(Req("ROLLBACK", c, 0))>>
    BY Zenon, <1>4, <2>1, Pair
  <2>3. pc[c] # "fn" /\ pc[c] # "commit"
    BY Zenon, <1>13
  <2>4. OperationAnswered(t)
    BY Zenon, <1>8, <2>2, <2>3
  <2>5. tasks' = Tail(tasks) /\ UNCHANGED <<usage, pc, attempt, issued, pending, requests>>
    BY Zenon, <1>4, <2>4 DEF OperationAnswered, clientVars
  <2>6. pc' = [pc EXCEPT ![c] = "rollback"]
    BY <1>13, <2>5 DEF TypeOK
  <2>7. Rejected(Req("ROLLBACK", c, 0))' = Rejected(Req("ROLLBACK", c, 0))
    BY Zenon, <2>5 DEF Rejected, Req
  <2>8. pc'[c] = "rollback" => ClosedCall(c)'
    BY Zenon, <2>2, <2>5, <2>7 DEF ClosedCall
  <2>9. "rollback" \in Label /\ "rollback" # "resolved"
    BY Zenon DEF Label
  <2> QED BY Zenon, <1>7, <2>3, <2>5, <2>6, <2>8, <2>9
<1> QED BY Zenon, <1>1, <1>2, <1>9, <1>10, <1>11, <1>12, <1>13 DEF ClosedCall
(* The server takes a step, on a closed connection.                        *)
LEMMA RunClosed ==
  ASSUME TypeOK, OneAtATime, ClosedPhase, CommittedOnce, socket = "closed", run
  PROVE  OneAtATime' /\ ClosedPhase' /\ CommittedOnce'
<1>1. UNCHANGED <<usage, pc, attempt, issued, pending, tasks>>
  BY Zenon DEF run, clientVars
<1>2. responses' = responses
  <2>1. \A r, s, next : Answer(r, s, next) => responses' = responses
    BY Zenon DEF Answer
  <2>2. \A op, outcomes : Perform(op, outcomes) => responses' = responses
    BY Zenon, <2>1 DEF Perform
  <2>3. /\ handle_begin \/ handle_commit => responses' = responses
        /\ handle_get \/ handle_put \/ handle_delete => responses' = responses
        /\ UnknownOpcode \/ End => responses' = responses
    BY Zenon, <2>1, <2>2 DEF handle_begin, handle_commit, handle_get, handle_put, handle_delete,
                            UnknownOpcode, End
  <2>4. handle_rollback => responses' = responses
    BY Zenon DEF handle_rollback, Answer
  <2> QED BY Zenon, <2>3, <2>4 DEF run
<1>3. OneAtATime' /\ (committed' = committed => CommittedOnce')
  <2>1. OneAtATime'
    BY Zenon, <1>1 DEF OneAtATime, Busy
  <2> QED BY Zenon, <1>1, <2>1, OnceStays
<1>4. \/ tasks' = <<>> /\ \A c \in Caller : pc'[c] \in Resting
      \/ \E c \in Caller : ClosedCall(c)'
  <2>1. ASSUME NEW c \in Caller, ClosedCall(c) PROVE ClosedCall(c)'
    <3>1. \A op, n : Rejected(Req(op, c, n))' = Rejected(Req(op, c, n))
      BY Zenon, <1>1 DEF Rejected, Req
    <3>2. \A op : Rejected(Req(op, c, issued[c]))' = Rejected(Req(op, c, issued[c]))
      BY Zenon, <1>1 DEF Rejected, Req
    <3> QED BY Zenon, <1>1, <2>1, <3>1, <3>2 DEF ClosedCall
  <2> QED BY Zenon, <1>1, <2>1 DEF ClosedPhase
<1>5. pending' = <<>> /\ responses' = <<>>
  BY Zenon, <1>1, <1>2 DEF ClosedPhase
<1>6. \/ handle_begin \/ handle_get \/ handle_put \/ handle_delete
      \/ handle_commit \/ handle_rollback \/ UnknownOpcode \/ End
  BY Zenon DEF run
<1>7. CASE NoCommit
  <2>1. ~handle_commit
    <3>1. SUFFICES ASSUME At("COMMIT") PROVE FALSE
      BY Zenon DEF handle_commit
    <3>2. requests # <<>> /\ Head(requests) # Payload /\ Head(requests).op = "COMMIT"
      BY Zenon, <3>1 DEF At
    <3>3. 1 \in DOMAIN requests /\ Head(requests) = requests[1]
      <4> DEFINE S == Request \cup {Payload}
      <4>1. requests \in Seq(S)
        BY Zenon DEF TypeOK
      <4> HIDE DEF S
      <4> QED BY <3>2, <4>1
    <3> QED BY Zenon, <1>7, <3>2, <3>3 DEF NoCommit
  <2>2. committed' = committed
    BY Zenon, <1>6, <2>1 DEF handle_begin, handle_get, handle_put, handle_delete, handle_rollback,
                             UnknownOpcode, End, Perform
  <2>3. \/ requests' = <<>>
        \/ requests # <<>> /\ requests' = Tail(requests)
        \/ \E op \in Operation : requests' = SubSeq(requests, PayloadSize(op) + 2, Len(requests))
    <3>1. {"GET", "PUT", "DELETE"} = Operation
      BY Zenon DEF Operation
    <3>2. \A outcomes : \A op \in Operation : Perform(op, outcomes) =>
            \/ requests # <<>> /\ requests' = Tail(requests)
            \/ requests' = SubSeq(requests, PayloadSize(op) + 2, Len(requests))
      BY Zenon DEF Perform, At, read_string
    <3> QED BY Zenon, <1>6, <2>1, <3>1, <3>2
            DEF handle_begin, handle_get, handle_put, handle_delete, handle_rollback,
                UnknownOpcode, End, At
  <2>4. Len(requests) \in Nat /\ Len(requests) \in 0 .. Len(requests)
    <3> DEFINE S == Request \cup {Payload}
    <3>1. requests \in Seq(S)
      BY Zenon DEF TypeOK
    <3> HIDE DEF S
    <3> QED BY <3>1
  <2>5. CASE requests' = <<>>
    <3>1. DOMAIN <<>> = {}
      OBVIOUS
    <3>2. NoCommit'
      BY Zenon, <2>5, <3>1 DEF NoCommit
    <3> QED BY Zenon, <1>3, <1>4, <1>5, <2>2, <3>2 DEF ClosedPhase
  <2>6. ASSUME NEW m \in Nat, m > 0, requests' = SubSeq(requests, m, Len(requests))
        PROVE  OneAtATime' /\ ClosedPhase' /\ CommittedOnce'
    <3>1. NoCommit'
      BY Zenon, <1>7, <2>4, <2>6, NoCommitPart
    <3> QED BY Zenon, <1>3, <1>4, <1>5, <2>2, <3>1 DEF ClosedPhase
  <2>7. CASE requests # <<>> /\ requests' = Tail(requests)
    <3>1. requests' = SubSeq(requests, 2, Len(requests))
      <4> DEFINE S == Request \cup {Payload}
      <4>1. requests \in Seq(S)
        BY Zenon DEF TypeOK
      <4> HIDE DEF S
      <4> QED BY Zenon, <2>7, <4>1, TailIsSubSeq
    <3>2. 2 \in Nat /\ 2 > 0
      OBVIOUS
    <3> QED BY Zenon, <2>6, <3>1, <3>2
  <2>8. ASSUME NEW op \in Operation,
               requests' = SubSeq(requests, PayloadSize(op) + 2, Len(requests))
        PROVE  OneAtATime' /\ ClosedPhase' /\ CommittedOnce'
    <3>1. PayloadSize(op) + 2 \in Nat /\ PayloadSize(op) + 2 > 0
      BY DEF PayloadSize, Operation
    <3> QED BY Zenon, <2>6, <2>8, <3>1
  <2> QED BY Zenon, <2>3, <2>5, <2>7, <2>8
<1>8. ASSUME NEW c \in Caller, LateCommit(c) PROVE OneAtATime' /\ ClosedPhase' /\ CommittedOnce'
  <2>1. PICK r : r = Req("COMMIT", c, 0)
    BY Zenon
  <2>2. requests = <<r>> /\ pc[c] \in {"commit", "rejected"} /\ Owns(c) /\ Mine(c) = {}
    BY Zenon, <1>8, <2>1 DEF LateCommit
  <2>3. r.op = "COMMIT" /\ r # Payload
    <3>1. 0 \in Nat
      OBVIOUS
    <3>2. r.op = "COMMIT"
      BY <2>1 DEF Req
    <3> QED BY Zenon, <2>1, <3>1, <3>2, ReqType, SentinelAssumption
  <2>4. Head(requests) = r /\ Tail(requests) = <<>> /\ requests # <<>>
    BY Zenon, <2>2, Single
  <2>5. \A op : At(op) => op = "COMMIT"
    BY Zenon, <2>3, <2>4 DEF At
  <2>6. handle_commit
    <3>1. ~At("BEGIN") /\ ~At("ROLLBACK") /\ \A op \in Operation : ~At(op)
      BY <2>5 DEF Operation
    <3>2. ~At("GET") /\ ~At("PUT") /\ ~At("DELETE")
      BY Zenon, <3>1 DEF Operation
    <3> QED BY Zenon, <1>6, <2>3, <2>4, <3>1, <3>2
            DEF handle_begin, handle_get, handle_put, handle_delete, handle_rollback,
                UnknownOpcode, End, StreamEnds, Perform
  <2>7. /\ requests' = <<>>
        /\ \/ committed' = committed
           \/ txn # Nothing /\ committed' \in {committed, committed \cup {txn}}
    BY Zenon, <2>4, <2>6 DEF handle_commit
  <2>8. CommittedOnce'
    <3>1. txn # Nothing => txn.by = c
      BY Zenon, <2>2 DEF Owns
    <3> QED BY Zenon, <1>1, <1>3, <2>2, <2>7, <3>1, OnceAdds
  <2>9. NoCommit'
    <3>1. DOMAIN <<>> = {}
      OBVIOUS
    <3> QED BY Zenon, <2>7, <3>1 DEF NoCommit
  <2> QED BY Zenon, <1>3, <1>4, <1>5, <2>8, <2>9 DEF ClosedPhase
<1> QED BY Zenon, <1>7, <1>8 DEF ClosedPhase-----------------------------------------------------------------------------
(***************************************************************************)
(* The invariant, and what follows from it.                                *)
(***************************************************************************)
LEMMA InitInv == Init => SInv
<1> SUFFICES ASSUME Init PROVE SInv
  OBVIOUS
<1>1. \A c \in Caller : pc[c] = "idle"
  BY Zenon DEF Init
<1>2. TypeOK
  <2>1. 0 \in Attempt /\ 0 \in 0 .. MaxOps[usage]
    <3>1. MaxOps[usage] \in Nat /\ MaxRetries \in Nat
      BY Zenon, SessionAssumption DEF Init
    <3> QED BY <3>1 DEF Attempt
  <2>2. \A S : <<>> \in Seq(S)
    BY Zenon, EmptySeq
  <2>3. /\ pending \in Seq(Request)
        /\ tasks \in Seq([req: Request, status: Status \cup {"CLOSED"}, value: BOOLEAN])
        /\ requests \in Seq(Request \cup {Payload})
        /\ responses \in Seq([status: Status, to: Request \cup {Nothing}])
    BY Zenon, <2>2 DEF Init
  <2>4. /\ attempt \in [Caller -> Attempt] /\ issued \in [Caller -> 0 .. MaxOps[usage]]
    BY Zenon, <2>1 DEF Init
  <2>5. /\ pc \in [Caller -> {"idle", "begin", "fn", "commit", "rollback", "backoff",
                              "resolved", "rejected"}]
        /\ deadlock \in [Caller -> BOOLEAN]
    BY DEF Init
  <2>6. /\ usage \in Usages /\ socket \in {"open", "closed"}
        /\ handler \in {"running", "ended", "killed"} /\ txn \in Txn \cup {Nothing}
        /\ committed \in SUBSET Txn
    BY Zenon DEF Init
  <2> QED BY Zenon, <2>3, <2>4, <2>5, <2>6 DEF TypeOK
<1>3. TriesLeft
  BY <1>1 DEF TriesLeft
<1>4. OneAtATime
  BY <1>1 DEF OneAtATime, Busy
<1>5. OpenPhase
  <2>1. "idle" \in Resting
    BY Zenon DEF Resting
  <2>2. Silent /\ txn = Nothing
    BY Zenon DEF Init, Silent, Queues
  <2> QED BY Zenon, <1>1, <2>1, <2>2 DEF OpenPhase
<1>6. socket # "closed"
  BY DEF Init
<1>7. CommittedOnce
  <2>1. committed = {} /\ \A c \in Caller : pc[c] # "resolved"
    BY <1>1 DEF Init
  <2> QED BY <2>1 DEF CommittedOnce
<1> QED BY Zenon, <1>2, <1>3, <1>4, <1>5, <1>6, <1>7 DEF SInv, Phases

LEMMA NextInv == SInv /\ [Next]_vars => SInv'
<1> SUFFICES ASSUME SInv, [Next]_vars PROVE SInv'
  OBVIOUS
<1>1. TypeOK /\ TriesLeft /\ Phases /\ CommittedOnce
  BY Zenon DEF SInv
<1>2. CASE UNCHANGED vars
  <2>1. /\ UNCHANGED <<usage, pc, attempt, issued, deadlock, socket>>
        /\ UNCHANGED <<pending, tasks, requests, responses, handler, txn, committed>>
    BY Zenon, <1>2 DEF vars
  <2>2. TypeOK'
    BY Zenon, <1>1, <2>1 DEF TypeOK
  <2>3. TriesLeft' /\ CommittedOnce'
    BY Zenon, <1>1, <2>1, OnceStays DEF TriesLeft
  <2>4. Phases'
    <3>1. ASSUME NEW c \in Caller, Beginning(c) PROVE Beginning(c)'
      BY Zenon, <2>1, <3>1 DEF Beginning, Sent, Served, Arrived, Queues, Req, Work
    <3>2. ASSUME NEW c \in Caller, InFn(c) PROVE InFn(c)'
      BY Zenon, <2>1, <3>2
         DEF InFn, Operating, Silent, Sent, Served, Arrived, Queues, Req, Work, Owns
    <3>3. ASSUME NEW c \in Caller, Committing(c) PROVE Committing(c)'
      BY Zenon, <2>1, <3>3 DEF Committing, Sent, Served, Arrived, Queues, Req, Work, Mine
    <3>4. ASSUME NEW c \in Caller, RollingBack(c) PROVE RollingBack(c)'
      <4>1. \A op, n : Req(op, c, n)' = Req(op, c, n)
        BY Zenon, <2>1 DEF Req
      <4>2. \A o, b : Overtaken(c, o, b) => Overtaken(c, o, b)'
        <5>1. \A o, b : BothSent(o, b) => BothSent(o, b)'
          BY Zenon, <2>1 DEF BothSent, Queues
        <5>2. \A o, s, b : /\ FirstServed(o, s, b) => FirstServed(o, s, b)'
                           /\ FirstArrived(o, s, b) => FirstArrived(o, s, b)'
          BY Zenon, <2>1 DEF FirstServed, FirstArrived, Queues
        <5>3. \A o, s, b, u : /\ BothServed(o, s, b, u) => BothServed(o, s, b, u)'
                              /\ OneOfEach(o, s, b, u) => OneOfEach(o, s, b, u)'
                              /\ BothArrived(o, s, b, u) => BothArrived(o, s, b, u)'
          BY Zenon, <2>1 DEF BothServed, OneOfEach, BothArrived, Queues
        <5>4. Owns(c) => Owns(c)'
          BY Zenon, <2>1 DEF Owns
        <5> QED BY Zenon, <2>1, <5>1, <5>2, <5>3, <5>4 DEF Overtaken
      <4> QED BY Zenon, <2>1, <3>4, <4>1, <4>2
              DEF RollingBack, Sent, Served, Arrived, Queues, Owns
    <3>5. ASSUME NEW c \in Caller, ClosedCall(c) PROVE ClosedCall(c)'
      BY Zenon, <2>1, <3>5 DEF ClosedCall, Rejected, Req
    <3>6. OneAtATime => OneAtATime'
      BY Zenon, <2>1 DEF OneAtATime, Busy
    <3>7. OpenPhase => OpenPhase'
      BY Zenon, <2>1, <3>1, <3>2, <3>3, <3>4 DEF OpenPhase, Silent, Queues
    <3>8. ClosedPhase => ClosedPhase'
      <4>1. ClosedPhase => NoCommit' \/ \E c \in Caller : LateCommit(c)'
        BY Zenon, <2>1, LateStays
      <4> QED BY Zenon, <2>1, <3>5, <4>1 DEF ClosedPhase
    <3> QED BY Zenon, <1>1, <2>1, <3>6, <3>7, <3>8 DEF Phases
  <2> QED BY Zenon, <2>2, <2>3, <2>4 DEF SInv
<1>3. ASSUME Next, TypeOK', TriesLeft', usage' = usage,
             usage = "awaited" =>
               /\ OneAtATime' /\ CommittedOnce'
               /\ socket' = "open" => OpenPhase'
               /\ socket' = "closed" => ClosedPhase'
      PROVE  SInv'
  <2>1. usage # "awaited" => CommittedOnce'
    BY Zenon, <1>3 DEF CommittedOnce
  <2> QED BY Zenon, <1>3, <2>1 DEF SInv, Phases
<1>4. usage = "awaited" =>
        OneAtATime /\ (socket = "open" => OpenPhase) /\ (socket = "closed" => ClosedPhase)
  BY Zenon, <1>1 DEF Phases
<1>5. socket \in {"open", "closed"} /\ "open" # "closed"
  BY Zenon, <1>1 DEF TypeOK
<1>6. ASSUME NEW c \in Caller, Call(c) PROVE SInv'
  <2>1. TypeOK' /\ TriesLeft'
    BY Zenon, <1>1, <1>6, CallType
  <2>2. usage' = usage /\ socket' = socket
    BY Zenon, <1>6 DEF Call, begin, commit, Throw, Retry, Operate, Step
  <2>3. usage = "awaited" /\ socket = "open" => OneAtATime' /\ OpenPhase' /\ CommittedOnce'
    BY Zenon, <1>1, <1>4, <1>6, CallOpen
  <2>4. usage = "awaited" /\ socket = "closed" => OneAtATime' /\ ClosedPhase' /\ CommittedOnce'
    BY Zenon, <1>1, <1>4, <1>6, CallClosed
  <2>5. Next
    BY Zenon, <1>6 DEF Next
  <2> QED BY Zenon, <1>3, <1>5, <2>1, <2>2, <2>3, <2>4, <2>5
<1>7. CASE Receive
  <2>1. TypeOK'
    BY Zenon, <1>1, <1>7, ReceiveType
  <2>2. socket = "open" /\ UNCHANGED <<usage, pc, attempt, socket>>
    BY Zenon, <1>7 DEF Receive, drainResponses, clientVars
  <2>3. TriesLeft'
    BY Zenon, <1>1, <2>2 DEF TriesLeft
  <2>4. usage = "awaited" => OneAtATime' /\ OpenPhase' /\ CommittedOnce'
    BY Zenon, <1>1, <1>4, <1>7, <2>2, ReceiveOpen
  <2>5. Next
    BY Zenon, <1>7 DEF Next
  <2> QED BY Zenon, <1>3, <1>5, <2>1, <2>2, <2>3, <2>4, <2>5
<1>8. CASE Continue
  <2>1. TypeOK' /\ TriesLeft'
    BY Zenon, <1>1, <1>8, ContinueType
  <2>2. usage' = usage /\ socket' = socket
    BY Zenon, <1>8 DEF Continue, BeginAnswered, OperationAnswered, OperationThrows,
                       CommitAnswered, RollbackAnswered, clientVars
  <2>3. usage = "awaited" /\ socket = "open" => OneAtATime' /\ OpenPhase' /\ CommittedOnce'
    BY Zenon, <1>1, <1>4, <1>8, ContinueOpen
  <2>4. usage = "awaited" /\ socket = "closed" => OneAtATime' /\ ClosedPhase' /\ CommittedOnce'
    BY Zenon, <1>1, <1>4, <1>8, ContinueClosed
  <2>5. Next
    BY Zenon, <1>8 DEF Next
  <2> QED BY Zenon, <1>3, <1>5, <2>1, <2>2, <2>3, <2>4, <2>5
<1>9. CASE close
  <2>1. TypeOK'
    BY Zenon, <1>1, <1>9, CloseType
  <2>2. socket = "open" /\ socket' = "closed" /\ UNCHANGED <<usage, pc, attempt>>
    BY Zenon, <1>9 DEF close, clientVars
  <2>3. TriesLeft'
    BY Zenon, <1>1, <2>2 DEF TriesLeft
  <2>4. usage = "awaited" => OneAtATime' /\ ClosedPhase' /\ CommittedOnce'
    BY Zenon, <1>1, <1>4, <1>9, <2>2, CloseOpen
  <2>5. Next
    BY Zenon, <1>9 DEF Next
  <2> QED BY Zenon, <1>3, <1>5, <2>1, <2>2, <2>3, <2>4, <2>5
<1>10. CASE run
  <2>1. TypeOK'
    BY Zenon, <1>1, <1>10, RunType
  <2>2. UNCHANGED <<usage, pc, attempt, socket>>
    BY Zenon, <1>10 DEF run, clientVars
  <2>3. TriesLeft'
    BY Zenon, <1>1, <2>2 DEF TriesLeft
  <2>4. usage = "awaited" /\ socket = "open" => OneAtATime' /\ OpenPhase' /\ CommittedOnce'
    BY Zenon, <1>1, <1>4, <1>10, RunOpen
  <2>5. usage = "awaited" /\ socket = "closed" => OneAtATime' /\ ClosedPhase' /\ CommittedOnce'
    BY Zenon, <1>1, <1>4, <1>10, RunClosed
  <2>6. Next
    BY Zenon, <1>10 DEF Next
  <2> QED BY Zenon, <1>3, <1>5, <2>1, <2>2, <2>3, <2>4, <2>5, <2>6
<1> QED BY Zenon, <1>2, <1>6, <1>7, <1>8, <1>9, <1>10 DEF Next

LEMMA SpecInv == Spec => []SInv
  BY InitInv, NextInv, PTL DEF Spec

(* Every variable of the connection, of its calls and of its handler keeps *)
(* its type, however the application uses the client.                      *)
THEOREM TypeCorrect == Spec => []TypeOK
<1>1. SInv => TypeOK
  BY Zenon DEF SInv
<1> QED BY <1>1, SpecInv, PTL

(* drainResponses resolves each promise with the answer to its own         *)
(* request, when calls follow one another and fn awaits its operations.    *)
THEOREM AnswersFindTheirRequests == Spec => []AwaitedInOrder
<1>1. SInv => AwaitedInOrder
  <2>1. SUFFICES ASSUME SInv, usage = "awaited" PROVE ResponsesInOrder
    BY Zenon DEF AwaitedInOrder
  <2>2. \/ responses = <<>>
        \/ \E r, s : responses = <<Reply(r, s)>> /\ (pending = <<r>> \/ \E b : pending = <<r, b>>)
        \/ \E o, s, b, u : responses = <<Reply(o, s), Reply(b, u)>> /\ pending = <<o, b>>
    <3>1. socket \in {"open", "closed"}
      BY Zenon, <2>1 DEF SInv, TypeOK
    <3>2. CASE socket = "closed"
      BY Zenon, <2>1, <3>2 DEF SInv, Phases, ClosedPhase
    <3>3. CASE socket = "open"
      <4>1. OpenPhase
        BY Zenon, <2>1, <3>3 DEF SInv, Phases
      <4>2. ASSUME NEW c \in Caller, Beginning(c) \/ InFn(c) \/ Committing(c)
            PROVE  responses = <<>> \/ \E r, s : responses = <<Reply(r, s)>> /\ pending = <<r>>
        BY Zenon, <4>2 DEF Beginning, InFn, Operating, Committing, Silent, Sent, Served, Arrived, Queues
      <4>3. ASSUME NEW c \in Caller, RollingBack(c)
            PROVE  \/ responses = <<>>
                   \/ \E r, s : /\ responses = <<Reply(r, s)>>
                                /\ pending = <<r>> \/ \E b : pending = <<r, b>>
                   \/ \E o, s, b, u : responses = <<Reply(o, s), Reply(b, u)>> /\ pending = <<o, b>>
        BY Zenon, <4>3
           DEF RollingBack, Overtaken, Sent, Served, Arrived, BothSent, FirstServed, FirstArrived,
               BothServed, OneOfEach, BothArrived, Queues
      <4> QED BY Zenon, <4>1, <4>2, <4>3 DEF OpenPhase, Silent, Queues
    <3> QED BY Zenon, <3>1, <3>2, <3>3
  <2>3. \A r, s : Reply(r, s).to = r
    BY Zenon DEF Reply
  <2>4. CASE responses = <<>>
    <3>1. DOMAIN <<>> = {}
      OBVIOUS
    <3> QED BY Zenon, <2>4, <3>1 DEF ResponsesInOrder
  <2>5. ASSUME NEW r, NEW s, responses = <<Reply(r, s)>>,
               pending = <<r>> \/ \E b : pending = <<r, b>>
        PROVE  ResponsesInOrder
    <3>1. DOMAIN responses = {1} /\ responses[1].to = r
      BY Zenon, <2>3, <2>5, Single
    <3>2. pending[1] = r /\ 1 <= Len(pending)
      BY <2>5
    <3> QED BY <3>1, <3>2 DEF ResponsesInOrder
  <2>6. ASSUME NEW o, NEW s, NEW b, NEW u, responses = <<Reply(o, s), Reply(b, u)>>,
               pending = <<o, b>>
        PROVE  ResponsesInOrder
    <3>1. DOMAIN responses = {1, 2} /\ responses[1].to = o /\ responses[2].to = b
      BY Zenon, <2>3, <2>6, Pair
    <3>2. pending[1] = o /\ pending[2] = b /\ Len(pending) = 2
      BY Zenon, <2>6, Pair
    <3> QED BY <3>1, <3>2 DEF ResponsesInOrder
  <2> QED BY Zenon, <2>2, <2>4, <2>5, <2>6
<1> QED BY <1>1, SpecInv, PTL

(* The handler's open transaction always belongs to the attempt that is    *)
(* under way: no error, deadlock or retry leaves an orphan in txn_.        *)
THEOREM NoOrphans == Spec => []OpenTxnIsOwned
<1>1. SInv => OpenTxnIsOwned
  <2>1. SUFFICES ASSUME SInv, usage = "awaited", socket = "open", txn # Nothing
                 PROVE  /\ attempt[txn.by] = txn.try
                        /\ pc[txn.by] \in {"begin", "fn", "commit", "rollback"}
    BY Zenon DEF OpenTxnIsOwned
  <2>2. PICK c \in Caller : Beginning(c) \/ InFn(c) \/ Committing(c) \/ RollingBack(c)
    BY Zenon, <2>1 DEF SInv, Phases, OpenPhase
  <2>3. \A n : txn = Work(c, n) => txn.by = c /\ txn.try = attempt[c]
    <3>1. \A n : Work(c, n).by = c /\ Work(c, n).try = attempt[c]
      BY Zenon DEF Work
    <3> QED BY Zenon, <3>1
  <2>4. pc[c] \in {"begin", "fn", "commit", "rollback"}
    BY Zenon, <2>2 DEF Beginning, InFn, Committing, RollingBack
  <2>5. txn.by = c /\ txn.try = attempt[c]
    BY Zenon, <2>1, <2>2, <2>3
       DEF Beginning, InFn, Operating, Committing, RollingBack, Overtaken, Owns
  <2> QED BY Zenon, <2>4, <2>5
<1> QED BY <1>1, SpecInv, PTL

(* transact() commits at most one attempt, though it retries and though a  *)
(* COMMIT may be read after the connection is gone; when it resolves it    *)
(* has committed exactly the operations of its last attempt.               *)
THEOREM TakesEffectOnce == Spec => []CommittedOnce
<1>1. SInv => CommittedOnce
  BY Zenon DEF SInv
<1> QED BY <1>1, SpecInv, PTL
=============================================================================
