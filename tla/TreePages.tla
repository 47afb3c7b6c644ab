----------------------------- MODULE TreePages ------------------------------
(***************************************************************************)
(* The pages of the B+Tree in the file.  A call changes pages in the pool; *)
(* the pool writes them one by one, when it needs a frame, or all at a     *)
(* Commit.  Page 0, the root slot and the free list, is written and synced *)
(* inside the call.  A page that the file grew by is zeros until it is     *)
(* written: `file` has no entry for it.  A crash comes between two calls;  *)
(* one inside a call leaves no less behind.                                *)
(***************************************************************************)
EXTENDS BTree

VARIABLES file,   \* the pages that have been written
          alive   \* the process runs

(* A database that has been closed and opened again. *)
PagesInit == Init /\ file = pages /\ alive = TRUE

Call(k) ==
  /\ alive
  /\ get(k) \/ remove(k) \/ \E v \in Value : insert(k, v)
  /\ UNCHANGED <<file, alive>>

Dirty(p) == p \in DOMAIN file => file[p] # pages[p]

evict_frame(p) ==
  /\ alive /\ Dirty(p)
  /\ file' = (p :> pages[p]) @@ file
  /\ UNCHANGED <<vars, alive>>

(* BufferPool::flush_all, in Commit. *)
flush_all ==
  /\ alive /\ \E p \in DOMAIN pages : Dirty(p)
  /\ file' = pages @@ file
  /\ UNCHANGED <<vars, alive>>

(* The process dies, by a signal or a failed assertion. *)
Crash ==
  /\ alive
  /\ alive' = FALSE
  /\ UNCHANGED <<vars, file>>

PagesNext ==
  \/ \E k \in Key : Call(k)
  \/ \E p \in DOMAIN pages : evict_frame(p)
  \/ flush_all
  \/ Crash

PagesSpec == PagesInit /\ [][PagesNext]_<<vars, file, alive>>

(***************************************************************************)
(* What a crash leaves can be read: from the root slot, the search for a   *)
(* key passes through pages that are nodes and that are not free, down to  *)
(* a leaf.  Recovery needs this before it can replay the first record,     *)
(* since it replays through insert() and remove().                         *)
(***************************************************************************)
FileTree == [Tree EXCEPT !.pages = file]

FileIsReadable ==
  ~alive => \A k \in Key : LET path == find_leaf(FileTree, k) IN
              /\ ToSet(path) \subseteq DOMAIN file \ ToSet(free_pages)
              /\ file[Last(path)].leaf
=============================================================================
