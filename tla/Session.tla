------------------------------ MODULE Session ------------------------------
(***************************************************************************)
(* One connection: the TypeScript client (Connection, Transaction and      *)
(* KeyVDB.transact) and the thread that serves it (ClientHandler).  The    *)
(* database behind the handler is reduced to what its calls answer.        *)
(*                                                                         *)
(* A stream is read five bytes, one header, at a time.  Keys and values    *)
(* have three bytes, so that each takes five with its length; the first of *)
(* those is the zero high byte of the length.                              *)
(***************************************************************************)
EXTENDS Naturals, FiniteSets, Sequences

CONSTANTS
  Caller,      \* the transact() calls made on the client
  MaxRetries,  \* maxRetries of transact()
  Calls,       \* bound: the calls that are made, for each usage
  MaxOps,      \* bound: operations in one attempt, for each usage
  Usages,      \* how the application uses the client
  Payload,     \* five bytes of a request's payload
  Nothing      \* no transaction, no request

ASSUME SessionAssumption ==
  /\ MaxRetries \in Nat
  /\ Calls \in [Usages -> SUBSET Caller] /\ MaxOps \in [Usages -> Nat]
  /\ Usages \subseteq {"awaited", "pipelined", "shared"}

VARIABLES
  usage,      \* one call at a time whose fn awaits each operation, or lets
              \* two of them go unanswered; or calls that overlap
  pc,         \* where each call of transact() is
  attempt,    \* its loop counter
  issued,     \* operations issued in this attempt
  deadlock,   \* err in the catch block is a DeadlockError
  socket,     \* the client's socket: open, or destroyed
  pending,    \* pendingResolvers: the requests whose promises are pending
  tasks,      \* promises settled, with continuations yet to run
  requests,   \* bytes on the way to the server
  responses,  \* responses on the way to the client
  handler,    \* the handler's thread
  txn,        \* txn_: the attempt that opened it and the operations it ran
  committed   \* history: the transactions committed

clientVars == <<usage, pc, attempt, issued, deadlock>>
serverVars == <<handler, txn, committed>>
vars == <<usage, pc, attempt, issued, deadlock, socket, pending, tasks,
          requests, responses, handler, txn, committed>>

Operation == {"GET", "PUT", "DELETE"}
Status    == {"OK", "NOT_FOUND", "ERROR", "DEADLOCK"}
Attempt   == 0 .. MaxRetries
Request   == [op: Operation \cup {"BEGIN", "COMMIT", "ROLLBACK"},
              by: Caller, try: Attempt, n: Nat]
Txn       == [by: Caller, try: Attempt,
              ran: SUBSET (Caller \X Attempt \X Nat)]

ASSUME SentinelAssumption ==
  /\ Payload \notin Request
  /\ Nothing \notin Request /\ Nothing \notin Txn

(* Headers' worth of payload after the header: a key, or a key and a value. *)
PayloadSize(op) == CASE op \in {"GET", "DELETE"} -> 1
                     [] op = "PUT" -> 2
                     [] OTHER -> 0

buildMessage(r) == <<r>> \o [i \in 1 .. PayloadSize(r.op) |-> Payload]

TypeOK ==
  /\ usage \in Usages
  /\ pc \in [Caller -> {"idle", "begin", "fn", "commit", "rollback", "backoff",
                        "resolved", "rejected"}]
  /\ attempt \in [Caller -> Attempt]
  /\ issued \in [Caller -> 0 .. MaxOps[usage]]
  /\ deadlock \in [Caller -> BOOLEAN]
  /\ socket \in {"open", "closed"}
  /\ pending \in Seq(Request)
  /\ tasks \in Seq([req: Request, status: Status \cup {"CLOSED"}, value: BOOLEAN])
  /\ requests \in Seq(Request \cup {Payload})
  /\ responses \in Seq([status: Status, to: Request \cup {Nothing}])
  /\ handler \in {"running", "ended", "killed"}
  /\ txn \in Txn \cup {Nothing}
  /\ committed \in SUBSET Txn

(* connect() has succeeded and run() is about to read. *)
Init ==
  /\ usage \in Usages
  /\ pc = [c \in Caller |-> "idle"]
  /\ attempt = [c \in Caller |-> 0]
  /\ issued = [c \in Caller |-> 0]
  /\ deadlock = [c \in Caller |-> FALSE]
  /\ socket = "open"
  /\ pending = <<>> /\ tasks = <<>> /\ requests = <<>> /\ responses = <<>>
  /\ handler = "running"
  /\ txn = Nothing
  /\ committed = {}

-----------------------------------------------------------------------------
(***************************************************************************)
(* Connection.  send() rejects at once when there is no socket.            *)
(***************************************************************************)
Req(op, c, n) == [op |-> op, by |-> c, try |-> attempt[c], n |-> n]

Rejected(r) == [req |-> r, status |-> "CLOSED", value |-> FALSE]

(* Leaves tasks to the caller: rest is what it makes of the queue. *)
SendAfter(rest, r) ==
  \/ /\ socket = "open"
     /\ pending' = Append(pending, r)
     /\ requests' = requests \o buildMessage(r)
     /\ tasks' = rest
  \/ /\ socket = "closed"
     /\ tasks' = Append(rest, Rejected(r))
     /\ UNCHANGED <<pending, requests>>

send(r) == SendAfter(tasks, r)

(***************************************************************************)
(* A chunk of n responses arrives and drainResponses resolves the oldest   *)
(* promises, before any of their continuations runs.  A response that      *)
(* finds no promise is dropped.                                            *)
(***************************************************************************)
Matched(n) == IF n <= Len(pending) THEN n ELSE Len(pending)

drainResponses(n) ==
  /\ socket = "open" /\ tasks = <<>>
  /\ n <= Len(responses)
  /\ tasks' = [i \in 1 .. Matched(n) |->
                 [req |-> pending[i], status |-> responses[i].status,
                  value |-> /\ responses[i].status = "OK"
                            /\ responses[i].to # Nothing
                            /\ responses[i].to.op = "GET"]]
  /\ pending' = SubSeq(pending, Matched(n) + 1, Len(pending))
  /\ responses' = SubSeq(responses, n + 1, Len(responses))
  /\ UNCHANGED <<socket, requests>> /\ UNCHANGED clientVars /\ UNCHANGED serverVars

(* disconnect(), or the network fails: the server still gets some of what  *)
(* was sent, and every pending promise is rejected.                        *)
close ==
  /\ socket = "open" /\ tasks = <<>>
  /\ socket' = "closed"
  /\ tasks' = [i \in DOMAIN pending |-> Rejected(pending[i])]
  /\ pending' = <<>>
  /\ \E n \in 0 .. Len(requests) : requests' = SubSeq(requests, 1, n)
  /\ responses' = <<>>
  /\ UNCHANGED clientVars /\ UNCHANGED serverVars

-----------------------------------------------------------------------------
(***************************************************************************)
(* KeyVDB.transact, and Transaction, whose done is TRUE once pc has left   *)
(* "fn".  fn issues any operations, then returns or throws.                *)
(***************************************************************************)
IsOperationOf(c, r) ==
  r.op \in Operation /\ r.by = c /\ r.try = attempt[c]

Unanswered(c) ==
  {r \in {pending[i] : i \in DOMAIN pending} \cup {tasks[i].req : i \in DOMAIN tasks} :
     IsOperationOf(c, r)}

Settled(c) == pc[c] \in {"resolved", "rejected"}

(* c goes on to label, sending r. *)
Step(c, label, r) ==
  /\ pc' = [pc EXCEPT ![c] = label]
  /\ send(r)
  /\ UNCHANGED <<usage, socket, responses>> /\ UNCHANGED serverVars

begin(c) ==
  /\ pc[c] = "idle" /\ c \in Calls[usage]
  /\ usage = "shared" \/ \A d \in Caller : pc[d] = "idle" \/ Settled(d)
  /\ Step(c, "begin", Req("BEGIN", c, 0))
  /\ UNCHANGED <<attempt, issued, deadlock>>

(* get, put or delete of the Transaction. *)
Operate(c, op) ==
  /\ pc[c] = "fn"
  /\ issued[c] < MaxOps[usage]
  /\ Cardinality(Unanswered(c)) < IF usage = "pipelined" THEN 2 ELSE 1
  /\ issued' = [issued EXCEPT ![c] = @ + 1]
  /\ Step(c, "fn", Req(op, c, issued[c] + 1))
  /\ UNCHANGED <<attempt, deadlock>>

commit(c) ==
  /\ pc[c] = "fn"
  /\ Unanswered(c) = {}
  /\ Step(c, "commit", Req("COMMIT", c, 0))
  /\ UNCHANGED <<attempt, issued, deadlock>>

(* fn throws an error of its own, perhaps a timeout that has overtaken an   *)
(* answer, and the catch block rolls back.                                 *)
Throw(c) ==
  /\ pc[c] = "fn"
  /\ Step(c, "rollback", Req("ROLLBACK", c, 0))
  /\ UNCHANGED <<attempt, issued, deadlock>>

(* The timer of the backoff fires and the loop goes round. *)
RetryUncounted(c) ==
  /\ pc[c] = "backoff"
  /\ Step(c, "begin", Req("BEGIN", c, 0))
  /\ UNCHANGED <<attempt, issued, deadlock>>

Retry(c) ==
  /\ pc[c] = "backoff"
  /\ attempt' = [attempt EXCEPT ![c] = @ + 1]
  /\ Step(c, "begin", [Req("BEGIN", c, 0) EXCEPT !.try = @ + 1])
  /\ UNCHANGED <<issued, deadlock>>

(***************************************************************************)
(* The continuations.  checkResponse lets OK and NOT_FOUND pass; get() on  *)
(* an OK without a value throws a RangeError.                              *)
(***************************************************************************)
checkResponse(t) == t.status \in {"OK", "NOT_FOUND"}

Succeeds(t) ==
  checkResponse(t) /\ (t.req.op = "GET" /\ t.status = "OK" => t.value)

BeginAnswered(t) ==
  LET c == t.req.by IN
  /\ t.req.op = "BEGIN"
  /\ pc' = [pc EXCEPT ![c] = IF checkResponse(t) THEN "fn" ELSE "rejected"]
  /\ issued' = [issued EXCEPT ![c] = 0]
  /\ tasks' = Tail(tasks)
  /\ UNCHANGED <<usage, attempt, deadlock, pending, requests>>

(* fn goes on, or has ended already and nobody looks at the result. *)
OperationAnswered(t) ==
  /\ t.req.op \in Operation
  /\ \/ Succeeds(t)
     \/ pc[t.req.by] # "fn"
     \/ ~IsOperationOf(t.req.by, t.req)
  /\ tasks' = Tail(tasks)
  /\ UNCHANGED <<pending, requests>> /\ UNCHANGED clientVars

OperationThrows(t) ==
  LET c == t.req.by IN
  /\ t.req.op \in Operation
  /\ ~Succeeds(t)
  /\ pc[c] = "fn" /\ IsOperationOf(c, t.req)
  /\ pc' = [pc EXCEPT ![c] = "rollback"]
  /\ deadlock' = [deadlock EXCEPT ![c] = (t.status = "DEADLOCK")]
  /\ SendAfter(Tail(tasks), Req("ROLLBACK", c, 0))
  /\ UNCHANGED <<usage, attempt, issued>>

(* The end of the catch block. *)
RetryAnyError(c, isDeadlock) ==
  IF attempt[c] < MaxRetries THEN "backoff" ELSE "rejected"

RetryOnceMore(c, isDeadlock) ==
  IF isDeadlock /\ attempt[c] <= MaxRetries THEN "backoff" ELSE "rejected"

AfterRollback(c, isDeadlock) ==
  IF isDeadlock /\ attempt[c] < MaxRetries THEN "backoff" ELSE "rejected"

CommitAnswered(t) ==
  LET c == t.req.by IN
  /\ t.req.op = "COMMIT"
  /\ pc' = [pc EXCEPT ![c] = IF checkResponse(t) THEN "resolved"
                             ELSE AfterRollback(c, t.status = "DEADLOCK")]
  /\ tasks' = Tail(tasks)
  /\ UNCHANGED <<usage, attempt, issued, deadlock, pending, requests>>

RollbackAnswered(t) ==
  LET c == t.req.by IN
  /\ t.req.op = "ROLLBACK"
  /\ pc' = [pc EXCEPT ![c] = AfterRollback(c, deadlock[c])]
  /\ deadlock' = [deadlock EXCEPT ![c] = FALSE]
  /\ tasks' = Tail(tasks)
  /\ UNCHANGED <<usage, attempt, issued, pending, requests>>

Continue ==
  /\ tasks # <<>>
  /\ \/ BeginAnswered(Head(tasks))
     \/ OperationAnswered(Head(tasks))
     \/ OperationThrows(Head(tasks))
     \/ CommitAnswered(Head(tasks))
     \/ RollbackAnswered(Head(tasks))
  /\ UNCHANGED <<socket, responses>> /\ UNCHANGED serverVars

-----------------------------------------------------------------------------
(***************************************************************************)
(* ClientHandler.  run() reads a header and calls its handler, which       *)
(* answers and leaves next in txn_.  To a client that is gone the answer   *)
(* is lost, or the write raises SIGPIPE, which nobody handles.             *)
(***************************************************************************)
At(op) == /\ handler = "running" /\ requests # <<>>
          /\ Head(requests) # Payload /\ Head(requests).op = op

Answer(r, status, next) ==
  \/ /\ socket = "open"
     /\ responses' = Append(responses, [status |-> status, to |-> r])
     /\ txn' = next
     /\ UNCHANGED handler
  \/ /\ socket = "closed"
     /\ txn' = next
     /\ UNCHANGED <<responses, handler>>
  \/ /\ socket = "closed"
     /\ handler' = "killed"
     /\ txn' = Nothing
     /\ UNCHANGED responses

handle_begin ==
  /\ At("BEGIN")
  /\ LET r == Head(requests) IN
     \/ txn # Nothing /\ Answer(r, "ERROR", txn)
     \/ txn = Nothing /\ Answer(r, "OK", [by |-> r.by, try |-> r.try, ran |-> {}])
  /\ requests' = Tail(requests)
  /\ UNCHANGED committed

(* What is left once read_string has read the payload. *)
ReadKeyOnly(op) == SubSeq(requests, 3, Len(requests))
read_string(op) == SubSeq(requests, PayloadSize(op) + 2, Len(requests))

(* Without a transaction the request is refused with its payload unread.   *)
(* DeadlockException ends the transaction, other exceptions leave it open. *)
Perform(op, outcomes) ==
  /\ At(op)
  /\ LET r == Head(requests) IN
     \/ /\ txn = Nothing
        /\ requests' = Tail(requests)
        /\ Answer(r, "ERROR", Nothing)
     \/ /\ txn # Nothing
        /\ Len(requests) > PayloadSize(op)
        /\ requests' = read_string(op)
        /\ \/ \E s \in outcomes : Answer(r, s, [txn EXCEPT !.ran = @ \cup {<<r.by, r.try, r.n>>}])
           \/ Answer(r, "DEADLOCK", Nothing)
           \/ Answer(r, "ERROR", txn)
  /\ UNCHANGED committed

handle_get    == Perform("GET", {"OK", "NOT_FOUND"})
handle_put    == Perform("PUT", {"OK"})
handle_delete == Perform("DELETE", {"OK"})

(* Commit may throw before or after its record has become durable. *)
handle_commit ==
  /\ At("COMMIT")
  /\ LET r == Head(requests) IN
     \/ txn = Nothing /\ Answer(r, "ERROR", Nothing) /\ UNCHANGED committed
     \/ txn # Nothing /\ Answer(r, "OK", Nothing) /\ committed' = committed \cup {txn}
     \/ /\ txn # Nothing
        /\ Answer(r, "ERROR", Nothing)
        /\ committed' \in {committed, committed \cup {txn}}
  /\ requests' = Tail(requests)

RollbackKeepsTxn ==
  /\ At("ROLLBACK")
  /\ Answer(Head(requests), IF txn = Nothing THEN "ERROR" ELSE "OK", txn)
  /\ requests' = Tail(requests)
  /\ UNCHANGED committed

handle_rollback ==
  /\ At("ROLLBACK")
  /\ Answer(Head(requests), IF txn = Nothing THEN "ERROR" ELSE "OK", Nothing)
  /\ requests' = Tail(requests)
  /\ UNCHANGED committed

(* A payload that nobody read is taken for a header. *)
UnknownOpcode ==
  /\ handler = "running" /\ requests # <<>> /\ Head(requests) = Payload
  /\ Answer(Nothing, "ERROR", txn)
  /\ requests' = Tail(requests)
  /\ UNCHANGED committed

(* read_exact meets the end of the stream, between requests or inside one: *)
(* the loop ends and an open transaction is rolled back.                   *)
StreamEnds ==
  /\ handler = "running" /\ socket = "closed"
  /\ \/ requests = <<>>
     \/ \E op \in Operation :
          At(op) /\ txn # Nothing /\ Len(requests) <= PayloadSize(op)

EndLeavesTxn ==
  /\ StreamEnds
  /\ handler' = "ended"
  /\ requests' = <<>>
  /\ UNCHANGED <<responses, txn, committed>>

End ==
  /\ StreamEnds
  /\ handler' = "ended"
  /\ requests' = <<>>
  /\ txn' = Nothing
  /\ UNCHANGED <<responses, committed>>

run ==
  /\ \/ handle_begin \/ handle_get \/ handle_put \/ handle_delete
     \/ handle_commit \/ handle_rollback \/ UnknownOpcode \/ End
  /\ UNCHANGED <<socket, pending, tasks>> /\ UNCHANGED clientVars

Call(c) ==
  \/ begin(c) \/ commit(c) \/ Throw(c) \/ Retry(c)
  \/ \E op \in Operation : Operate(c, op)

Receive == \E n \in 1 .. Len(responses) : drainResponses(n)

Next ==
  \/ \E c \in Caller : Call(c)
  \/ Receive \/ Continue \/ close \/ run

Spec == Init /\ [][Next]_vars

(***************************************************************************)
(* The event loop runs, data arrives, timers fire, the handler's thread is *)
(* scheduled (its lock requests return, see LockReturns), and fn ends once *)
(* it has its answers.  Nothing obliges a client to begin or disconnect.   *)
(***************************************************************************)
Ends(c) == Unanswered(c) = {} /\ (commit(c) \/ Throw(c))

FairSpec ==
  /\ Spec
  /\ WF_vars(Receive) /\ WF_vars(Continue) /\ WF_vars(run)
  /\ \A c \in Caller : WF_vars(Retry(c)) /\ WF_vars(Ends(c))

-----------------------------------------------------------------------------
(* "Requests are pipelined - responses arrive in order": a response        *)
(* settles the promise of the request it answers.                          *)
ResponsesInOrder ==
  \A i \in DOMAIN responses : i <= Len(pending) /\ responses[i].to = pending[i]

(* It holds when fn awaits each operation, through deadlocks, errors,      *)
(* rollbacks of transactions that the server has dropped, and retries.     *)
AwaitedInOrder == usage = "awaited" => ResponsesInOrder

(* The transaction open in the server is that of an attempt in progress:   *)
(* an orphan would hold its locks for as long as the connection lasts.     *)
OpenTxnIsOwned ==
  usage = "awaited" /\ socket = "open" /\ txn # Nothing =>
    /\ attempt[txn.by] = txn.try
    /\ pc[txn.by] \in {"begin", "fn", "commit", "rollback"}

(* transact() takes effect at most once, and when it resolves exactly once *)
(* and with all the operations of its last attempt, which are its own.     *)
(* It holds of awaited calls that follow one another on a connection: no   *)
(* attempt follows one that may have committed.                            *)
CommittedOnce == usage = "awaited" =>
  \A c \in Caller :
    LET mine == {x \in committed : x.by = c} IN
    /\ \A x, y \in mine : x = y
    /\ mine # {} => pc[c] \in {"commit", "resolved", "rejected"}
    /\ pc[c] = "resolved" =>
         \E x \in mine :
           /\ x.try = attempt[c]
           /\ x.ran = {c} \X {x.try} \X (1 .. issued[c])

(* transact() ends: its promise settles whatever the server answers and    *)
(* whenever the connection goes, after at most maxRetries + 1 attempts.    *)
Settles == \A c \in Caller : pc[c] = "begin" ~> Settled(c)

(* A client that goes away leaves no transaction behind.                   *)
ClosedIsCleanedUp == socket = "closed" ~> txn = Nothing /\ handler # "running"
=============================================================================
