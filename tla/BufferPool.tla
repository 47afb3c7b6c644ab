----------------------------- MODULE BufferPool -----------------------------
(***************************************************************************)
(* The page cache (storage/buffer_pool.cpp) over the data file             *)
(* (disk_manager.cpp) and the free list on page 0 (free_list.cpp).  All    *)
(* calls run under the database's mutex, so each is one action.  A page's  *)
(* bytes are one datum, and the id that its header carries.                *)
(***************************************************************************)
EXTENDS SequencesExt, Naturals

CONSTANTS
  FrameId,        \* the frames of the pool
  MaxPages,       \* bound: pages that the data file grows to, beside page 0
  Data,           \* what callers write into a page
  Zero,           \* the contents of a cleared page
  Free,           \* no contents: the page is not allocated
  NoFrame,        \* no entry in page_table_
  MAX_FREE_PAGES, \* entries that fit on page 0
  MaxPin          \* bound: pins on one page

ASSUME PoolAssumption ==
  /\ MaxPages \in Nat \ {0} /\ MAX_FREE_PAGES \in Nat /\ MaxPin \in Nat \ {0}
  /\ IsFiniteSet(FrameId)
  /\ NoFrame \notin FrameId
  /\ Zero \notin Data /\ Free \notin Data \cup {Zero}

PageId == 1 .. MaxPages
INVALID_PAGE_ID == 0 - 1

(* Page 0, in words of the size of a page id: the count of free pages, the *)
(* free pages, and right behind them the root slot.                        *)
ROOT_ID_OFFSET == MAX_FREE_PAGES + 1

Contents == Data \cup {Zero}

VARIABLES
  frames,       \* frames_: header id and data of the page, pin_count, is_dirty, in_use
  page_table,   \* page_table_: the frame of a resident page
  free_frames,  \* free_frames_: a stack
  lru_list,     \* lru_list_: most recently used first
  free_pages,   \* FreeList::free_pages_: a stack
  num_pages,    \* DiskManager::num_pages_, page 0 included
  page0,        \* the words of page 0 in the file
  disk,         \* the other pages in the file
  contents,     \* history: what callers last wrote into each allocated page
  root          \* history: the root page id last set

vars == <<frames, page_table, free_frames, lru_list, free_pages, num_pages,
          page0, disk, contents, root>>

Page == [id: 0 .. MaxPages, data: Contents]
ClearFrame == [id |-> 0, data |-> Zero, pin_count |-> 0, is_dirty |-> FALSE, in_use |-> FALSE]

TypeOK ==
  /\ frames \in [FrameId -> [id: 0 .. MaxPages, data: Contents, pin_count: 0 .. MaxPin,
                             is_dirty: BOOLEAN, in_use: BOOLEAN]]
  /\ page_table \in [PageId -> FrameId \cup {NoFrame}]
  /\ free_frames \in Seq(FrameId)
  /\ lru_list \in Seq(FrameId)
  /\ free_pages \in Seq(PageId) /\ Len(free_pages) <= MAX_FREE_PAGES
  /\ num_pages \in 1 .. MaxPages + 1
  /\ page0 \in [0 .. ROOT_ID_OFFSET -> Nat \cup {INVALID_PAGE_ID}]
  /\ disk \in [PageId -> Page]
  /\ contents \in [PageId -> Contents \cup {Free}]
  /\ root \in PageId \cup {INVALID_PAGE_ID}

(* A new database: load() has written page 0, and the pool is empty. *)
Init ==
  /\ frames = [f \in FrameId |-> ClearFrame]
  /\ page_table = [p \in PageId |-> NoFrame]
  /\ free_frames = SetToSeq(FrameId)
  /\ lru_list = <<>>
  /\ free_pages = <<>>
  /\ num_pages = 1
  /\ page0 = [[i \in 0 .. ROOT_ID_OFFSET |-> 0] EXCEPT ![ROOT_ID_OFFSET] = INVALID_PAGE_ID]
  /\ disk = [p \in PageId |-> [id |-> 0, data |-> Zero]]
  /\ contents = [p \in PageId |-> Free]
  /\ root = INVALID_PAGE_ID

-----------------------------------------------------------------------------
(***************************************************************************)
(* Internal helpers.                                                       *)
(***************************************************************************)
(* lru_map_ has the place of a frame in the list. *)
lru_map(s, f) == CHOOSE i \in DOMAIN s : s[i] = f

Without(s, f) == IF f \in ToSet(s) THEN RemoveAt(s, lru_map(s, f)) ELSE s

TouchAgain(s, f) == <<f>> \o s

touch(s, f) == <<f>> \o Without(s, f)

DiscardDirty(F) == disk

(* write_page for the dirty frames of a set; a page goes to the place that *)
(* its header names.                                                       *)
WriteBack(F) ==
  LET dirty == {f \in F : frames[f].is_dirty} IN
  [p \in PageId |->
     IF \E f \in dirty : frames[f].id = p
     THEN LET f == CHOOSE g \in dirty : frames[g].id = p
          IN  [id |-> p, data |-> frames[f].data]
     ELSE disk[p]]

(* The least recently used frame that is not pinned. *)
Unpinned == {i \in DOMAIN lru_list : frames[lru_list[i]].pin_count = 0}

EvictOldest == lru_list[Len(lru_list)]

Victim == lru_list[Max(Unpinned)]

(***************************************************************************)
(* find_free_frame pops free_frames_, or else evicts: evict_frame writes a *)
(* dirty page back and drops the page_table_ entry of the id in its header.*)
(***************************************************************************)
find_free_frame == IF free_frames # <<>> THEN Last(free_frames)
                   ELSE IF Unpinned # {} THEN Victim ELSE NoFrame

FramesLeft == IF free_frames # <<>> THEN Front(free_frames) ELSE <<>>

Evicted == IF free_frames # <<>> THEN {} ELSE {Victim}

evict_frame(F) ==
  [p \in PageId |-> IF \E f \in F : frames[f].id = p THEN NoFrame ELSE page_table[p]]

(* The page with this header and data becomes resident, pinned once. *)
Install(f, p, page, dirty) ==
  /\ f # NoFrame
  /\ frames' = [frames EXCEPT ![f] =
       [id |-> page.id, data |-> page.data, pin_count |-> 1, is_dirty |-> dirty, in_use |-> TRUE]]
  /\ page_table' = [evict_frame(Evicted) EXCEPT ![p] = f]
  /\ free_frames' = FramesLeft
  /\ lru_list' = touch(lru_list, f)

-----------------------------------------------------------------------------
(***************************************************************************)
(* The operations.  Callers fetch only pages that are allocated, and unpin *)
(* what they have pinned.                                                  *)
(***************************************************************************)
FetchHit(p) ==
  LET f == page_table[p] IN
  /\ contents[p] # Free /\ f # NoFrame
  /\ frames[f].pin_count < MaxPin
  /\ frames' = [frames EXCEPT ![f].pin_count = @ + 1]
  /\ lru_list' = touch(lru_list, f)
  /\ UNCHANGED <<page_table, free_frames, free_pages, num_pages, page0, disk, contents, root>>

(* A fetch that finds no frame returns nullptr and changes nothing. *)
FetchMiss(p) ==
  /\ contents[p] # Free /\ page_table[p] = NoFrame
  /\ Install(find_free_frame, p, WriteBack(Evicted)[p], FALSE)
  /\ disk' = WriteBack(Evicted)
  /\ UNCHANGED <<free_pages, num_pages, page0, contents, root>>

(* A caller that has written into the page unpins it with dirty = true. *)
UnpinRead(p) ==
  LET f == page_table[p] IN
  /\ f # NoFrame /\ frames[f].pin_count > 0
  /\ frames' = [frames EXCEPT ![f].pin_count = @ - 1]
  /\ UNCHANGED <<page_table, free_frames, lru_list, free_pages, num_pages, page0, disk,
                 contents, root>>

UnpinWritten(p, d) ==
  LET f == page_table[p] IN
  /\ f # NoFrame /\ frames[f].pin_count > 0
  /\ frames' = [frames EXCEPT ![f].pin_count = @ - 1, ![f].is_dirty = TRUE, ![f].data = d]
  /\ contents' = [contents EXCEPT ![p] = d]
  /\ UNCHANGED <<page_table, free_frames, lru_list, free_pages, num_pages, page0, disk, root>>

DirtyPages == {p \in PageId : page_table[p] # NoFrame /\ frames[page_table[p]].is_dirty}
Flushed(P) ==
  [p \in PageId |->
     IF p \in P \cap DirtyPages
     THEN [id |-> frames[page_table[p]].id, data |-> frames[page_table[p]].data]
     ELSE disk[p]]

FlushPages(P) ==
  /\ disk' = Flushed(P)
  /\ frames' = [f \in FrameId |->
       [frames[f] EXCEPT !.is_dirty = @ /\ \A p \in P : page_table[p] # f]]

flush_page(p) ==
  /\ page_table[p] # NoFrame
  /\ FlushPages({p})
  /\ UNCHANGED <<page_table, free_frames, lru_list, free_pages, num_pages, page0, contents, root>>

flush_all ==
  /\ FlushPages(PageId)
  /\ UNCHANGED <<page_table, free_frames, lru_list, free_pages, num_pages, page0, contents, root>>

(* save: a read-modify-write of page 0.  The entries go where they come to *)
(* lie: one too many would be written into the root slot.                  *)
save(list) ==
  [i \in 0 .. ROOT_ID_OFFSET |-> IF i \in DOMAIN list THEN list[i]
                                 ELSE IF i = 0 THEN Len(list) ELSE page0[i]]

load == [i \in 1 .. page0[0] |-> page0[i]]

(***************************************************************************)
(* new_page recycles the last page freed, or extends the file by a zeroed  *)
(* page.  With every frame pinned the program stops on an assertion.       *)
(***************************************************************************)
PeekOnly == free_pages

Popped == Front(free_pages)

NewRecycled ==
  /\ free_pages # <<>>
  /\ LET p == Last(free_pages) IN
       /\ Install(find_free_frame, p, [id |-> p, data |-> Zero], TRUE)
       /\ contents' = [contents EXCEPT ![p] = Zero]
  /\ free_pages' = Popped
  /\ page0' = save(Popped)
  /\ disk' = WriteBack(Evicted)
  /\ UNCHANGED <<num_pages, root>>

NewExtended ==
  /\ free_pages = <<>> /\ num_pages \in PageId
  /\ LET p == num_pages IN
       /\ Install(find_free_frame, p, [id |-> p, data |-> Zero], TRUE)
       /\ contents' = [contents EXCEPT ![p] = Zero]
       /\ disk' = [WriteBack(Evicted) EXCEPT ![p] = [id |-> 0, data |-> Zero]]
  /\ num_pages' = num_pages + 1
  /\ UNCHANGED <<free_pages, page0, root>>

(***************************************************************************)
(* delete_page drops a resident page unwritten: evict_frame clears the     *)
(* frame and takes it off the LRU list; nothing puts it on free_frames_.   *)
(* The assertions on the pin count and on a full list are guards.          *)
(***************************************************************************)
FreedPages(p) == Append(free_pages, p)

RoomForOneMore == Len(free_pages) <= MAX_FREE_PAGES

ListHasRoom == Len(free_pages) < MAX_FREE_PAGES

delete_page(p) ==
  LET f == page_table[p] IN
  /\ contents[p] # Free
  /\ ListHasRoom
  /\ \/ f = NoFrame /\ UNCHANGED <<frames, page_table, lru_list>>
     \/ /\ f # NoFrame /\ frames[f].pin_count = 0
        /\ frames' = [frames EXCEPT ![f] = ClearFrame]
        /\ page_table' = evict_frame({f})
        /\ lru_list' = Without(lru_list, f)
  /\ free_pages' = FreedPages(p)
  /\ page0' = save(FreedPages(p))
  /\ contents' = [contents EXCEPT ![p] = Free]
  /\ UNCHANGED <<free_frames, num_pages, disk, root>>

set_root_page_id(p) ==
  /\ contents[p] # Free
  /\ page0' = [page0 EXCEPT ![ROOT_ID_OFFSET] = p]
  /\ root' = p
  /\ UNCHANGED <<frames, page_table, free_frames, lru_list, free_pages, num_pages, disk, contents>>

(* The database is closed and opened: ~BufferPool flushes, load() reads     *)
(* the free list back (it throws at a count that is too large), and the     *)
(* new pool is empty.                                                       *)
Reopen ==
  /\ page0[0] <= MAX_FREE_PAGES
  /\ \A f \in FrameId : frames[f].pin_count = 0
  /\ disk' = Flushed(PageId)
  /\ frames' = [f \in FrameId |-> ClearFrame]
  /\ page_table' = [p \in PageId |-> NoFrame]
  /\ free_frames' = SetToSeq(FrameId)
  /\ lru_list' = <<>>
  /\ free_pages' = load
  /\ UNCHANGED <<num_pages, page0, contents, root>>

Next ==
  \/ \E p \in PageId :
       \/ FetchHit(p) \/ FetchMiss(p)
       \/ UnpinRead(p) \/ \E d \in Data : UnpinWritten(p, d)
       \/ flush_page(p) \/ delete_page(p) \/ set_root_page_id(p)
  \/ flush_all \/ NewRecycled \/ NewExtended \/ Reopen

Spec == Init /\ [][Next]_vars

-----------------------------------------------------------------------------
(* A page is what its last writer made it, through every order of          *)
(* evictions, write-backs, recycling and restarts: the copy in the pool if *)
(* there is one, the file's otherwise; and a clean copy equals the file's. *)
CacheCoherent ==
  \A p \in PageId : contents[p] # Free =>
    LET f == page_table[p] IN
    IF f = NoFrame THEN disk[p] = [id |-> p, data |-> contents[p]]
    ELSE /\ frames[f].data = contents[p]
         /\ ~frames[f].is_dirty => disk[p] = [id |-> p, data |-> contents[p]]

(* The pool's four indexes agree: the table maps resident pages one to one *)
(* to the frames in use, whose headers name them; the LRU list has each of *)
(* these frames once; and a frame on free_frames_ holds no page.           *)
PoolConsistent ==
  /\ \A p \in PageId : page_table[p] # NoFrame =>
       frames[page_table[p]].in_use /\ frames[page_table[p]].id = p
  /\ \A f \in FrameId : frames[f].in_use =>
       frames[f].id \in PageId /\ page_table[frames[f].id] = f
  /\ IsInjective(lru_list)
  /\ ToSet(lru_list) = {f \in FrameId : frames[f].in_use}
  /\ ToSet(free_frames) \cap ToSet(lru_list) = {}

(* Every page of the file is either allocated or on the free list, once:   *)
(* no page is lost, and none is handed out while it is in use.             *)
PagesAccounted ==
  /\ IsInjective(free_pages)
  /\ ToSet(free_pages) = {p \in PageId : p < num_pages /\ contents[p] = Free}

(* Page 0 is shared by two writers, and neither undoes the other's part:   *)
(* it has the free list and the root that were saved last, also when the   *)
(* list is full and its last entry lies next to the root slot.             *)
PageZeroShared == load = free_pages /\ page0[ROOT_ID_OFFSET] = root

(* A pinned page keeps its frame: the pointer that fetch_page and new_page *)
(* return stays good until the page is unpinned.                           *)
PinnedPagesStay ==
  [][\A p \in PageId :
       page_table[p] # NoFrame /\ frames[page_table[p]].pin_count > 0
       => page_table'[p] = page_table[p] /\ frames'[page_table[p]].id = p]_vars

-----------------------------------------------------------------------------
(* buffer_pool.h has evict_frame, which delete_page calls, clear the frame *)
(* and mark it "so find_free_frame() can reuse it".  So, whatever has been *)
(* deleted, a frame is found as long as no page is pinned.                 *)
FramesStayUsable ==
  (\A f \in FrameId : frames[f].pin_count = 0) => find_free_frame # NoFrame
=============================================================================
