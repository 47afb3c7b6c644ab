# KeyVDB: a TLA+ verification of the storage engine

KeyVDB is an embedded key-value store: a B+Tree over a page file, a write-ahead log,
two-phase locking per key, a TCP server with a thread per connection, and a TypeScript
client. This directory holds TLA+ models of its parts, translated from the C++ and
TypeScript sources, the TLC configurations that check them, and TLAPS proofs. Paths below
are relative to the repository.

## 1. Inventory of the system

| Part | State it keeps | Operations | What makes it correct |
|---|---|---|---|
| `LockManager` (`src/txn/lock_manager.*`) | per key: shared holders, exclusive holder; per transaction: keys to release; threads asleep on one condition variable | `lock`, `release_all`, `can_grant` | readers and a writer never share a key; nothing held is forgotten; no wake-up is lost; every call returns |
| `DB`, `Transaction` (`src/db.*`) | write set with before-images, `done_`; the mutex `db_mu_` | `Open`, `Close`, `Begin`, `Get`, `Put`, `Delete`, `Commit`, `Rollback`, destructor | atomicity, isolation, durability of acknowledged commits |
| `LogManager` (`src/wal/log_manager.*`) | the log file, next LSN, next transaction id | append, `flush`, `read_all`, `truncate`, scan at start | a record is in the file before its page changes; ids do not collide within one log |
| `RecoveryManager` (`src/wal/recovery_manager.*`) | none: works on the log | analysis, redo, undo | after it, exactly the committed writes are in the tree; repeatable after a second crash |
| `BufferPool` (`src/storage/buffer_pool.*`) | frames, page table, LRU list, free frames | `fetch_page`, `unpin_page`, `flush_page`, `flush_all`, `new_page`, `delete_page` | no write is lost; a pinned page keeps its frame; frames stay usable |
| `FreeList`, `DiskManager` (`src/storage/`) | page 0: free pages and root slot; the file | `load`, `save`, `allocate`, `free`, root slot; page reads and writes, growth, fsync | each page is allocated or free, once; the two parts of page 0 do not clobber each other |
| `BTree`, `Node` (`src/btree/`) | pages: slots, cells, children, siblings | `get`, `insert`, `remove`, split, merge, borrow | keys sorted, separators right, leaves linked and at one depth: a map; the pages in the file make a tree after a crash |
| `Server`, `ClientHandler` (`server/`) | listening socket; per connection one transaction slot | accept loop, `handle_*`, clean-up at disconnect, shutdown | one reply per request, in order; no transaction outlives its connection |
| TypeScript client (`client/src/`) | receive buffer, queue of pending requests, `done` | `send`, `drainResponses`, `begin`, `transact`, ... | each reply reaches its request; `transact` ends and leaves nothing open |
| Shell (`src/main.cpp`) | none | a loop over `DB` | not modelled: pure I/O |

**How the parts meet.** A connection thread calls `Transaction`, which first asks the lock
manager (own mutex, may sleep), then, under `db_mu_`, appends to the log (own mutex) and
changes the tree through the pool. `Commit` appends its record, fsyncs the log, takes
`db_mu_` to flush *every* dirty page and fsync the file, and then releases its locks: four
steps with other threads between them. `Rollback` restores before-images under `db_mu_`,
appends ABORT, releases. The pool writes dirty pages back whenever it needs a frame
(steal) and `Commit` writes all of them (force), whoever dirtied them. `Open` replays the
log, flushes, truncates.

**What is hard.** Interleavings of committing, rolling back and reading threads; failures
between any two of these steps and during recovery; pages of uncommitted transactions in
the file; reuse of transaction ids after truncation; upgrades and timeouts in the lock
manager; recycling of pages and frames; values that the log's encoding cannot tell apart;
long sequences of splits, borrowing and merging; a split that is in the file by half.
`PROJECT.json` lists each hazard at its line.

## 2. Modules

| Module | Models | Composed with |
|---|---|---|
| `LockTable` | the lock manager's tables and what `lock`/`release_all` do to them under the mutex | extended by `LockManager` and `KeyVDB` |
| `LockManager` | the threads around the table: sleeping, signalled, timed out | `MCLockManager` |
| `KeyVDB` | `DB`, `Transaction`, log, recovery, failures, over `LockTable` | `MCKeyVDB` |
| `BufferPool` | pool, free list, disk manager | `MCBufferPool` |
| `Node` | one slotted page: cells with sizes, compaction, split, merge, steal | extended by `BTree` |
| `BTree` | the tree: search, insertion, removal, rebalancing, its pages | `MCBTree`; implements `Store` |
| `Store` | what the tree promises: a map | instantiated by `BTree` |
| `TreePages` | the tree's pages in the pool and in the file, crashes, over `BTree` | `MCTreePages` |
| `Session` | one connection: the TypeScript client, the byte stream, `ClientHandler` | `MCSession` |
| `ReplayInv` | no code: the invariant that says why recovery is right | extends `KeyVDB`; extended by `MCKeyVDB` and the proofs |
| `LockTableProofs`, `LockManagerProofs` | theorems about locks | extend the lock modules |
| `LogProofs` | lemmas: what an append and a cut do to the log | extends `ReplayInv`, `LockTableProofs` |
| `KeyVDBProofs` | theorems about the running database | extends `LogProofs` |
| `AppendProofs` | lemmas: each kind of record keeps the log explained | extends `LogProofs` |
| `RecoveryProofs` | theorems about failures and recovery | extends `KeyVDBProofs`, `AppendProofs` |
| `BufferPoolProofs`, `SessionProofs` | theorems about the pool and about a connection | extend their modules |

Names follow the source; members drop their trailing underscore.

**LockTable / LockManager.** `lock_table`, `shared_holders`, `exclusive_holder` and
`txn_locks` are the members of the class. A `lock()` call is one action when it is granted
at once (`LockGranted`), otherwise a record in `waiters` until it is granted after a
wake-up (`ResumeGranted`), goes back to sleep (`ResumeBlocks`) or throws (`TimeoutThrows`).
The mutex makes each of these atomic; `SpuriousWakeup` and `DeadlinePasses` are the
platform's.

**KeyVDB.** An action is what a thread does while it owns `db_mu_` or the mutex of the log
or of the lock manager. `pc` says how far a `Commit` or `Rollback` has come; `call` is an
operation between its lock and its work. `tree` is the tree as the process sees it, `disk`
the file, `synced` the file at its last fsync; `wal` the log with its synced prefix. A key
stands for the page it is on: `evict_frame(k)` writes it back at any time. `Encode` and
`Decode` are what the record format keeps of a value: zero bytes both for absence and for
the empty string. `ProcessCrash` keeps files as they are, `PowerLoss` keeps any prefix of
the log not shorter than the synced one and, key by key, the written or the synced page; the
record after that prefix may be left in part (`Torn`), and then `Open` fails, since `read_all`
throws at a record whose payload is cut off. `Fails` is an I/O error in `Commit` (an append,
the fsync of the log, the flush of the pages) or at the ABORT record of `Rollback`: `done_` is
set, so the handler drops the transaction without a rollback and its locks stay held. `Close`
is the orderly end of the process, in one step; with `shutdown` it may find transactions open, as the
server's destructor may, which waits for no connection thread. `CrashKind` says which of these
failures a run has.
`Open` is a sequence of steps (`Open`, `redo`, `RedoDone`, `undo`, `Checkpoint`,
`Truncate`) that a failure may interrupt anywhere. A lock request that waits or times out
changes nothing here; `LockManager` is about it.

Three variables are history: `committed` (the last committed value of each key), `acked`
(transactions of the current log whose `Commit` has returned) and `residue`, which marks
the keys that a failure left wrong for good. These are `Stranded`: what the file has is not
what was committed, and the log has no record that recovery replays, since the writer had rolled
back or the record was lost with the power. A shutdown that truncates the log under an open
transaction marks the keys that it wrote.

**BufferPool.** The frames, page table, LRU list, free frames, free pages, page 0 and file
as in the classes. A page's bytes are one datum, plus the id in its header, which is what
`evict_frame` uses. Page 0 is an array of words: the count, the free pages, and the root slot
right behind the last entry that fits (`ROOT_ID_OFFSET`); `save` writes entries where they come
to lie, so that one too many would be in the root slot, and `load` reads back as many as are
counted. Callers follow the discipline of `BTree`: they fetch allocated pages,
and unpin with `dirty` what they wrote. Failed assertions stop the program and are guards.
`contents` and `root` are history: what was last written.

**Node.** A node is its header and its live cells in slot order. `heap` is what all its cells
take, those of removed cells included: `remove_cell` gives back a slot, `compact` the rest.
So `is_full`, `underflow` and the split point are computed as the code does, from bytes that
may belong to no cell. Insertion compacts when it must; an update with a value of another
size removes the old cell first; a separator of another length is removed and inserted again.
Keys are integers with a length each, values have a size.

**BTree.** A call is one action, since `DB` makes it under `db_mu_`. `find_leaf` gives the
breadcrumbs; `insert_into_parent` and `fix_underflow` are folded over them, bottom up, and
stop where the code returns. Pages come from the free list or the end of the file. A call can
go wrong in three ways that the code does not report, and `fault` names the one that
happened: an assertion failed and the process is gone (`assert`), the result of an insertion
after a split was ignored (`no_room`), or a rebalancing left a key that does not divide its
neighbours (`separator`). The constant `Faults` says which of them a run lets happen; a step
with another fault is not taken. `Store` is a function from keys to values with `get`,
`insert` and `remove`; `BTree` implements it with `store` as what `get` would return for
each key.

**TreePages.** Adds `file`, the pages that have been written. Calls change pages in the pool;
`evict_frame` and `flush_all` write them; page 0 (root slot, free list) is written inside the
call, as in the code. `Crash` stops everything, and `FileIsReadable` looks at what is left.

**Session.** The client side is one event loop: `pc`, `attempt`, `issued` and `deadlock` are
where each `transact()` call is, `pending` is the queue of unsettled promises, and `tasks`
the settled ones whose continuations have yet to run (`Continue` runs the oldest). A chunk
of data (`drainResponses`) settles several promises before any continuation. `requests` is
the byte stream in units of five bytes, the size of a header; a key or a value of three
bytes with its length is one unit, `Payload`. `handle_*` are the handlers, each with the
answers that the database behind it may give: a value, none, `DEADLOCK`, an error. `close`
is a disconnection by either the application or the network; a prefix of what was sent
still reaches the server. A write to a closed connection is lost, or kills the process by
SIGPIPE, which the server does not ignore. `usage` is the application's discipline:
`awaited` (one `transact()` after the other, each operation awaited), `pipelined` (two
operations outstanding), `shared` (overlapping `transact()` calls). `committed` is history:
the transactions committed and the operations each had run.

## 3. Runs

| Run | Instance | States | Shows |
|---|---|---|---|
| `locks` | 3 transactions, 2 keys | 91 thousand | `LockExclusion`, `HoldersRecorded`, `EntriesAreHeld`, `NoLostWakeup`, `TwoPhase`, `LockReturns` |
| `failures` | 2 threads, 2 transaction ids, 1 key, every kind of failure | 657 thousand | `TreeIsCommitted`, `AckedIsDurable`, `ForceAtCommit`, `RepeatableReads`, `RInv` |
| `buffer_pool` | 2 frames, 3 pages, 2 free-list entries | 404 thousand | `CacheCoherent`, `PoolConsistent`, `PagesAccounted`, `PageZeroShared`, `PinnedPagesStay` |
| `btree` | four starts (below), up to 7 keys of two lengths, 3 sizes of values, pages of 34 bytes | 26 thousand | `ImplementsStore`, `CellsAreFound`, `NodesAreSound`, `PagesOwned`, `LeavesLinked`, `Balanced` |
| `session` | 2 calls, 1 retry, 2 operations (1 when calls overlap), all usages | 188 thousand | `AwaitedInOrder`, `OpenTxnIsOwned`, `CommittedOnce`, `Settles`, `ClosedIsCleanedUp` |
| `rolled_back`, `unlogged`, `oversize_value`, `lost_frames`, `pipelined`, `misplaced_separator`, `torn_split` | small | | the code departs from what its comments, docs or tests say (section 5) |

**Bounds and why they are enough.** *Locks*: three transactions give two readers and an
upgrading writer on a key, two keys give a cycle of waiters; `MaxRecorded = 2` lets a lock
be taken twice or upgraded. *KeyVDB*: two threads suffice for every pairwise race of
commit, rollback and write; ids restart at each truncation, so two ids cover any number of
lives. `MaxLog` limits BEGIN and WRITE records, never COMMIT and ABORT. 6 gives two transactions
their BEGIN and four writes; one that is cut off by a failure behind a committed writer of the
same key needs 5. One key is what a run with every kind of failure affords, since page losses are
chosen key by key. What more keys add, a transaction with some of its pages in the file, is left
to the proofs: the safety properties of this run are proved for any number of keys (section 4).
Values: one
ordinary value and absence already tell old from new; the oversize value has a run of its own
and the empty one is item 8 of section 5, since they break the property. *BufferPool*: with two frames and
three pages every fetch may evict, a pin may block the LRU victim, and the free list of two
fills up. `VIEW` leaves out the words of page 0 behind the entries that are counted, which nothing
reads. *BTree*: a page of 34 bytes holds two leaf cells or three separators, so
a root splits at the third key and there are three levels at the sixth. `MCStarts` has four
starts: three keys with values of three sizes (updates that move, compaction, a value too
large for a page), six keys inserted in every order and then removed in every order, and two
trees of three levels that insertions have built, from which seven keys come and go. Within a
start, calls alternate between insertions and removals at most `turns` times. Keys 2, 4 and 6
are longer than the others, so separators change length. Here `VIEW` leaves out the last call and its
result, on which no step depends; TLC evaluates properties of steps on every step. Only `assert`
is in `Faults`: the two other faults, which break the map, are in section 5. *TreePages*: three
keys are the fewest that split the root. *Session*: a second call shows what the first left on the connection, one retry
gives an attempt that follows another, and two operations a request that follows a
`DEADLOCK`; overlapping calls already meet with one operation each. Symmetry is used for threads, keys and data, which are interchangeable; the liveness runs use none.
Deadlock is not checked in `session`, where calls end and connections close, nor in `btree`
and `torn_split`, where a failed assertion, a crash or the bound on turns ends a behaviour.

**Fairness.** `LockReturns`: time passes (`Expires`) and a thread whose wait has timed out
runs (`TimesOut`), which the C++ runtime and the scheduler give. Nothing is assumed of
holders: they may keep their locks forever. `Settles` and `ClosedIsCleanedUp`: the event
loop runs (`Continue`), data arrives while the connection lasts (`Receive`), timers fire
(`Retry`), the handler's thread runs (`run`; its lock requests return, by `LockReturns`),
and `fn` ends once it has its answers (`Ends`). A missing answer is not helped by any of
these, and nothing obliges a client to begin or to disconnect.

## 4. Proofs

TLAPS checks these for all values of the constants, under the assumptions stated beside
their declarations (transaction ids are positive naturals, the sentinels are no values,
the bounds are naturals; for the pool, finitely many frames and room for at least one pin;
for a connection, a payload and a missing transaction are not requests).

* `LockManagerProofs`: `Exclusion`, `NothingLeaks`, `TableIsCompact`, `WakeupsArrive`,
  `LockingIsTwoPhase`. The invariant joins the type invariant with
  `LockExclusion`, `HoldersRecorded`, `EntriesAreHeld` and `NoLostWakeup`: exclusion
  is inductive only together with the record of holders, since `release_all` frees what is
  recorded; wake-ups need that a transaction with an empty record holds nothing, which is
  why the early return of `release_all` may skip `notify_all`. `LockTableProofs` has the
  facts about the table itself, shared by both users of it.
* `KeyVDBProofs`: `TypeCorrect`, `Exclusion`, `CommitsAreDurable`, `CommitForces`,
  `ReadsAreRepeatable`, under every kind of failure. The inductive invariant `IInv` adds to types and locks:
  `FreshIds` (ids in the log and of open transactions are below the next one, so a restart
  reuses none), `Position` (recovery stays inside the log), `Sessions` (each thread its own
  transaction), `Owned` (a call and a write set entry have their lock), `Logged` (the
  commit protocol: where each COMMIT record is, and what is synced, at each `pc`) and
  `Forced` (what a committing transaction wrote is what the tree, and in the end the
  device, holds). `CommitForces` needs `Owned` and `Exclusion`: nobody else can have changed
  the key between the COMMIT record and the flush.
* `RecoveryProofs`: `LogExplainsTheTree` and, from it, `RecoveredIsCommitted`, which is
  `TreeIsCommitted` for any number of threads, keys and failures. Replaying a log is a fold over
  it; the invariant `RInv` avoids the induction by stating the result position by position.
  The writers of a key come in turn, each ended, and its COMMIT synced, before the next
  one writes (`InTurn`, from the locks); a transaction has one before-image of a key
  (`OneBefore`); a before-image is what the writers in front of it have left (`Chain`); the
  committed value is what all of them leave (`History`). So the last live after-image below
  `rpos` is what redo has put in the tree (`Redone`), and the before-image of an unfinished writer
  what undo has put back (`Undone`); a key without records is as committed on the device
  (`Untouched`); and while recovery runs, a key that is not a residue has a live record, or is as
  committed in the file already (`Restorable`). A power failure cuts the log at or after its synced part, where `InTurn` has
  put every COMMIT that a later record of the key builds on, so the prefix satisfies the same
  invariant. Values too large for the tree are allowed: redo stops at them. The
  hypothesis `Empty \notin Value` is item 8 of section 5: the log encodes the empty string
  and no value alike, and without it the theorem is false. TLC checks `RInv` in the run
  `failures`.
* `BufferPoolProofs`: `TypeCorrect`, `NoWriteIsLost`, `IndexesAgree`, `PagesAreAccounted`,
  `PageZeroIsShared`, `PinsHold`, each a property of the run `buffer_pool`.
  The five invariants hold each other up: a write survives eviction because the page table,
  the LRU list and the header's id agree, and a recycled page is not in a frame because it is
  accounted as free. To be inductive they need three more facts: no free frame is listed
  twice, pages beyond the end of the file hold nothing (`Beyond`), and a page in the pool is
  allocated (`Resident`). There is one lemma per operation; `StepKinds` sorts the steps into
  those that take a frame, those that drop a page and those that move nothing, from which
  the action property follows. A list that fits on page 0 is read back as it was saved
  (`SavedList`). Sequences are handled without induction: "no repetition"
  is injectivity, and removal is removal at an index.
* `SessionProofs`: `TypeCorrect` for every usage, and `AnswersFindTheirRequests`, `NoOrphans` and
  `TakesEffectOnce` for awaited calls, each a property of the run `session`, for any number of
  calls, retries and operations. None of the three is inductive: whether an answer meets its
  promise depends on what the server will make of the bytes that are under way. The invariant
  `SInv` gives, for each place that a call can be in, what the four queues contain and what the
  handler's transaction is. On an open connection (`OpenPhase`) at most two requests are
  under way, an operation and the ROLLBACK of an `fn` that did not wait for it; each is sent,
  served or settled, in this order, which makes ten shapes (`Silent` ... `BothArrived`). The
  operation in front of a ROLLBACK still finds its transaction open (`Overtaken`), so its
  payload is read and the stream stays in step: this is what fails with two operations
  outstanding (item 5 of section 5). On a closed one (`ClosedPhase`) every promise is rejected
  and nothing is committed, except by a COMMIT that was sent before, is alone in the stream and
  comes from a call that has committed nothing (`LateCommit`); that call is rejected without
  another attempt, so it takes effect at most once. `TriesLeft` bounds the attempts. There is
  one lemma per phase and kind of step. `SInv` also holds on the instance of `session`.

**Only model-checked.** Everything about `BTree` and `TreePages`: the tree is defined by
recursion over its pages, and what a recursive definition computes for every input is an
induction over data, which the installed provers cannot carry out. And the liveness properties
`LockReturns`, `Settles` and `ClosedIsCleanedUp`: liveness under fairness is out of the prover's
reach. Of pipelined and overlapping calls only the types are proved, since the properties of
awaited calls do not hold of them.

## 5. Where the code and its words part

With a run that violates the property:

1. **A rolled-back value can come back** (`rolled_back`). A page dirtied by a transaction
   is written by an eviction or another commit; the transaction rolls back in memory and
   logs ABORT; the process dies. `redo` skips aborted transactions, on the ground that
   "the undo was flushed to disk before shutdown"; nothing flushes it.
2. **Pages may precede their log records** (`unlogged`). No fsync of the log comes before
   a page is written back, so after a power failure an uncommitted value may be in the
   file with no record of it. `docs/interview.md` promises the opposite.
3. **An oversize value** (`oversize_value`). `put_locked` logs before `BTree::insert`
   refuses; the record's replay throws out of `Open`.
4. **Lost frames** (`lost_frames`). `delete_page` has `evict_frame` clear the frame, and nobody
   returns it to `free_frames_`, although the comment has "Clear frame and return to free pool."
   and `buffer_pool.h` "so find_free_frame() can reuse it". After as many deletions of resident
   pages as there are frames the pool is exhausted, with nothing pinned, until the database is
   reopened.
5. **Answers out of step** (`pipelined`). A handler that refuses a request for want of a
   transaction leaves its payload in the stream, and the loop answers the payload as an
   unknown opcode. With two operations outstanding, a `DEADLOCK` on the first is enough; from
   then on each promise is settled by an earlier request's answer, although
   `connection.ts` says that "responses arrive in order".
6. **Misplaced separators** (`misplaced_separator`). An internal node that borrows from its
   left sibling writes the stolen key in front of its old first child, where the comment has
   the parent's separator ("(old_sep, old first_child)"); keys between the two are then not
   found. The mirror case has the same flaw, and so have borrowing from, and merging with, a
   right sibling when the page is not the first child: `sep_slot` is the key to the left of
   the page, not the one between it and its right sibling.
7. **A torn split** (`torn_split`). The root slot is written at once, the new root's page
   when the pool pleases. A process that dies in between leaves a root slot that points to
   a page of zeros, and recovery works through that tree. `docs/interview.md` says of
   a crash in the middle of a split: "With the WAL, we can always recover".

Found while modelling, and excluded from the passing runs by the values or the faults that
they allow:

8. **The empty string.** The log encodes no value and an empty value alike, so that a committed
   `Put(k, "")` is replayed as a deletion.
9. **Overlapping `transact()` calls.** The connection has one transaction slot and
   `transact()` does not wait its turn: one call's rollback ends the other's transaction.
   `CommittedOnce` is claimed for calls that follow one another.
10. **An insertion that is dropped.** After a leaf split, `insert` ignores what
    `insert_leaf_cell` returns; when the half that the
    key belongs to has no room for it, the key is lost and the call returns normally (two small
    values in a leaf, then a large one: `LargeSize = 20` and `Faults = {"no_room"}` show it).
11. **Assertions that ordinary calls meet.** `underflow` counts the bytes of removed cells, so
    a sibling with no cell to give passes for one with cells to spare and `key_at` fails its
    assertion; `split_into` asserts two keys, and a leaf may be full with one. The build
    files do not define `NDEBUG`, so the process stops.
12. **A separator that changes places.** A new separator of another length is removed and
    inserted by key; when an equal separator is next to it, its child comes out on the other
    side. The model counts it among the `separator` faults.
13. **Shutdown keeps what was not committed.** `server/main.cpp` has SIGINT "trigger a clean
    shutdown", which ends in `Close` while connection threads are in their transactions; `Close`
    writes their pages and truncates the log, so that their writes are there for good.
    `db.h` asks for `Close` as the last call; `recovery_manager.h` has "Every uncommitted
    transaction is fully absent from the B+Tree".
14. **A failed commit keeps its locks.** `db.h` has "Locks are released all-at-once at Commit()
    or Rollback()"; when an append or an fsync throws, `release_all` is not reached and nobody
    else calls it. The mutant `FailsAndReleases` shows the other side: with the
    locks released and the writes left in the tree, others would read what is not committed.
15. **A torn record stops `Open`.** `scan_for_max_ids` and `read_all` end the log at a header
    that is cut off ("truncated record — stop"), but `read_all` throws at a payload that is. After a power failure in the
    middle of an unacknowledged write, the database no longer opens.

`TreeIsCommitted` exempts the keys of 1, 2 and 13 through `residue`, and those under the locks of
14 while they are held, and holds otherwise; 3 and 8 are excluded by the choice of values, 6, 10
and 12 by `Faults`. Of 9, 11 and 15 no property claims the contrary: the properties of awaited
calls are not claimed of overlapping ones, and a failed assertion or a failed `Open` ends the
behaviour.

## 6. Not modelled

* The server's accept loop: it keeps no state but the stop flag, and hands each connection to
  a thread of its own.
* What connection threads do between `Close` and the end of the process, a moment later: the
  model takes both as one step. A failure inside `Close`, before the log is cut, is in the model
  as evictions of the dirty pages and then the failure.
* Of the tree, the branch of `fix_underflow` for a root that underflows, which no caller
  reaches, and what is left of a page after a failed assertion. A tree damaged by a fault is
  not followed any further.
* A crash inside a call of the tree: `TreePages` has crashes between calls only, which leave
  pages written and unwritten in the same combinations, except those of page 0. Nor a crash after
  `BTree::create`, which has the window of item 7 once more: `TreePages` starts with the first
  root in the file.
* Of the client, the time-out of `connect()` and transactions opened with `begin()` outside
  `transact()`; an `fn` that catches the error of an operation and issues another, which
  `transaction.ts` rules out after a `DEADLOCK` ("You must roll back"); of the stream, keys and values of other
  lengths than three bytes, whose unread payload would split into headers differently. A
  network that goes silent: the server learns of every disconnection as the end of the stream.
  The sockets have no keep-alive and no read time-out, so a peer that vanishes without a word
  would keep its transaction and its locks.
* I/O errors other than those of `Fails`: in a read, in the append of `Begin`, `Put` or `Delete`,
  in `undo_all`, and what a failing append leaves in the middle of the log. LSNs (written,
  never read).
* The `ftruncate` of the log is taken to be durable at once.
* Write-backs by the operating system between two writes of one page: a power failure
  leaves the last written or the last synced version.

## 7. Plan

1. Done: `LockTable`, `LockManager`, `KeyVDB` with their proofs; `BufferPool`; `Session`.
2. Done: `Node`, `BTree` and the map `Store` that it implements; `TreePages`.
3. Done: shutdown with transactions open, errors inside `Commit`, torn records in `KeyVDB`.
4. An abstract store with atomic transactions, implemented by `KeyVDB`.
5. Done: proofs of every safety property of the locks, the database, the pool and the
   connection. Open: an invariant of `BTree` that needs no recursion.
