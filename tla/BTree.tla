------------------------------- MODULE BTree --------------------------------
(***************************************************************************)
(* The B+Tree (src/src/btree/btree.cpp) over the nodes of Node.  DB calls  *)
(* it under db_mu_, so each call is one step.                              *)
(*                                                                         *)
(* `pages` holds the pages in use, `free_pages` and `root` are page 0,     *)
(* which is written at once, and `num_pages` the length of the file.  A    *)
(* call works on a record of these.  `fault` says how a call went wrong:   *)
(* an assertion stopped the process ("assert"), the result of an insertion *)
(* into a half was ignored ("no_room"), or a rebalancing put a wrong key   *)
(* between two subtrees or removed the wrong one ("separator").            *)
(***************************************************************************)
EXTENDS Node, FiniteSets

CONSTANTS Absent,       \* std::nullopt
          MaxPages,     \* bound: pages besides page 0
          Faults        \* the faults that the calls of a run may meet

ASSUME BTreeAssumption ==
  /\ Absent \notin Value
  /\ MaxPages \in Nat
  /\ Faults \subseteq {"assert", "no_room", "separator"}

VARIABLES pages, root, free_pages, num_pages, fault, call, result
vars == <<pages, root, free_pages, num_pages, fault, call, result>>

Tree == [pages |-> pages, root |-> root, free |-> free_pages, num |-> num_pages, fault |-> fault]

(* BTree::create on a new file. *)
Init ==
  /\ pages = 1 :> init_node(TRUE, INVALID_PAGE_ID)
  /\ root = 1
  /\ free_pages = <<>>
  /\ num_pages = 2
  /\ fault = "none"
  /\ call = <<>>
  /\ result = "none"

-----------------------------------------------------------------------------
(***************************************************************************)
(* Pages.                                                                  *)
(***************************************************************************)
put(t, p, n) == [t EXCEPT !.pages = (p :> n) @@ @]

(* BufferPool::new_page: the id it returns and the tree with that page taken. *)
new_page(t) == IF t.free = <<>> THEN t.num ELSE Last(t.free)
Taken(t) == IF t.free = <<>> THEN [t EXCEPT !.num = @ + 1] ELSE [t EXCEPT !.free = Front(@)]

delete_page(t, p) == [t EXCEPT !.pages = [q \in DOMAIN @ \ {p} |-> @[q]], !.free = Append(@, p)]

reparent(t, S, p) ==
  [t EXCEPT !.pages = [q \in DOMAIN @ |-> IF q \in S THEN [@[q] EXCEPT !.parent = p] ELSE @[q]]]

(* The left_sibling of a leaf's right neighbour, if it has one. *)
relink(t, p, left) == IF p = INVALID_PAGE_ID THEN t ELSE [t EXCEPT !.pages[p].left = left]

Fails(t, f) == [t EXCEPT !.fault = f]

(***************************************************************************)
(* find_leaf: the breadcrumbs, and the leaf at their end.  A key equal to  *)
(* a separator, or to several, is to their right.                          *)
(***************************************************************************)
BoundaryLeft(n, k) == children(n)[lower_bound(n, k) + 1]

upper_bound(n, k) ==
  LET skip[i \in Nat] == IF Holds(n, i, k) THEN skip[i + 1] ELSE i
  IN  skip[lower_bound(n, k)]

NextChild(n, k) == children(n)[upper_bound(n, k) + 1]

find_leaf(t, k) ==
  LET path[p \in Nat] ==
        IF p \notin DOMAIN t.pages \/ t.pages[p].leaf THEN <<p>>
        ELSE <<p>> \o path[NextChild(t.pages[p], k)]
  IN  path[t.root]

(* What get() returns. *)
Lookup(t, k) ==
  LET found[p, slot \in Nat] == IF Holds(t.pages[p], slot, k) THEN t.pages[p].cells[slot + 1].val
                                ELSE Absent
      search[p \in Nat] == IF p \in DOMAIN t.pages THEN found[p, lower_bound(t.pages[p], k)]
                           ELSE Absent
  IN  search[Last(find_leaf(t, k))]

-----------------------------------------------------------------------------
(***************************************************************************)
(* Insertion.  `up` is the separator and the new right node that the level *)
(* below hands to its parent, <<>> when there is none.                     *)
(***************************************************************************)
NewRoot(t, id, r) ==
  IF r.ok THEN [reparent(put(Taken(t), id, r.node), ToSet(children(r.node)), id) EXCEPT !.root = id]
          ELSE Fails(t, "assert")

create_new_root(t, sep, right_id) ==
  NewRoot(t, new_page(t),
          insert_separator([init_node(FALSE, INVALID_PAGE_ID) EXCEPT !.first_child = t.root],
                           sep, right_id))

SplitParentKeepsChildren(t, parent_id, right_id, id, h) ==
  [tree |-> reparent(put(put(Taken(t), parent_id, h.left), id, h.right), {right_id}, parent_id),
   up |-> <<h.sep, id>>]

(* The parent in two halves, one of which has the separator from below. *)
SplitParent(t, parent_id, right_id, id, h) ==
  IF h.ok
  THEN [tree |-> reparent(reparent(put(put(Taken(t), parent_id, h.left), id, h.right),
                                   {right_id}, parent_id), ToSet(children(h.right)), id),
        up |-> <<h.sep, id>>]
  ELSE [tree |-> Fails(t, "assert"), up |-> <<>>]

(* Room in the parent, perhaps after compaction, or a split. *)
IntoParent(t, parent_id, sep, right_id, r) ==
  CASE r.ok -> [tree |-> reparent(put(t, parent_id, r.node), {right_id}, parent_id), up |-> <<>>]
    [] ~r.ok /\ num_keys(r.node) < 2 -> [tree |-> Fails(t, "assert"), up |-> <<>>]
    [] OTHER -> SplitParent(t, parent_id, right_id, new_page(t),
                            add_to_half(split_internal(r.node), Cell(sep, right_id)))

insert_into_parent(s, parent_id) ==
  IF s.up = <<>> THEN s
  ELSE IntoParent(s.tree, parent_id, s.up[1], s.up[2],
                  insert_separator(s.tree.pages[parent_id], s.up[1], s.up[2]))

Rooted(s) == IF s.up = <<>> THEN s.tree ELSE create_new_root(s.tree, s.up[1], s.up[2])

SplitLeafUnlinked(t, id, right_id, h) == put(put(Taken(t), id, h.left), right_id, h.right)

(* The leaf in two halves; whether the cell found room in its half is not   *)
(* looked at.                                                               *)
SplitLeaf(t, id, right_id, h) ==
  [relink(put(put(Taken(t), id, h.left), right_id, h.right), h.right.right, right_id)
     EXCEPT !.fault = IF h.ok THEN @ ELSE "no_room"]

SplitFromTheTop(t, path, right_id, h) ==
  Rooted(FoldLeft(insert_into_parent,
                  [tree |-> SplitLeaf(t, Last(path), right_id, h), up |-> <<h.sep, right_id>>],
                  Front(path)))

SplitAndInsert(t, path, right_id, h) ==
  Rooted(FoldLeft(insert_into_parent,
                  [tree |-> SplitLeaf(t, Last(path), right_id, h), up |-> <<h.sep, right_id>>],
                  Reverse(Front(path))))

IntoLeaf(t, path, c, r) ==
  CASE r.ok -> put(t, Last(path), r.node)
    [] ~r.ok /\ num_keys(r.node) < 2 -> Fails(t, "assert")
    [] OTHER -> SplitAndInsert(t, path, new_page(t),
                               add_to_half(split_leaf(r.node, Last(path), new_page(t)), c))

InsertedAt(t, path, k, v) ==
  IntoLeaf(t, path, Cell(k, v), insert_leaf_cell(t.pages[Last(path)], k, v))

Inserted(t, k, v) == InsertedAt(t, find_leaf(t, k), k, v)

-----------------------------------------------------------------------------
(***************************************************************************)
(* Removal.  `page` is the page that underflows, INVALID_PAGE_ID when the  *)
(* level below left none.                                                  *)
(***************************************************************************)
Done(t) == [tree |-> t, page |-> INVALID_PAGE_ID]

Wrong(t, wrong) == IF wrong THEN Fails(t, "separator") ELSE t

(* A cell has moved from a sibling and the parent's separator is set.       *)
(* `wrong` marks one that does not divide the two siblings afterwards; so   *)
(* does one that was inserted again and came before an equal one.           *)
Borrowed(t, parent_id, page, sib, r, p, wrong) ==
  Done(IF p.ok THEN Wrong(reparent(put(put(put(t, page, r.node), sib, r.sib), parent_id, p.node),
                                   {r.child}, page),
                          wrong \/ children(p.node) # children(t.pages[parent_id]))
               ELSE Fails(t, "assert"))

borrow(t, parent_id, page, sib, slot, r, wrong) ==
  IF r.ok THEN Borrowed(t, parent_id, page, sib, r,
                        set_separator(t.pages[parent_id], slot, r.sep), wrong)
          ELSE Done(Fails(t, "assert"))

(* After a merge, the parent underflows in turn, or was the root and has no *)
(* key left: `left` becomes the root.                                       *)
AfterMerge(t, parent_id, left) ==
  CASE parent_id # t.root /\ underflow(t.pages[parent_id]) -> [tree |-> t, page |-> parent_id]
    [] parent_id = t.root /\ num_keys(t.pages[parent_id]) = 0 ->
         Done([delete_page(reparent(t, {left}, INVALID_PAGE_ID), parent_id) EXCEPT !.root = left])
    [] OTHER -> Done(t)

(* `right` is absorbed by `left` and freed, and a cell of the parent goes. *)
Merged(t, parent_id, left, right, slot, m) ==
  LET merged == put(put(t, left, m.node), parent_id, remove_cell(t.pages[parent_id], slot)) IN
  delete_page(IF m.node.leaf THEN relink(merged, m.node.right, left)
              ELSE reparent(merged, ToSet(children(t.pages[right])), left), right)

MergedWith(t, parent_id, left, right, slot, m, wrong) ==
  IF m.ok THEN AfterMerge(Wrong(Merged(t, parent_id, left, right, slot, m), wrong), parent_id, left)
          ELSE Done(Fails(t, "assert"))

merge(t, parent_id, left, right, slot, wrong) ==
  MergedWith(t, parent_id, left, right, slot,
             merge_from(t.pages[left], t.pages[right], key_at(t.pages[parent_id], slot)), wrong)

(* There is a child at this position and it can spare a cell. *)
Spare(t, kids, i) == i \in DOMAIN kids /\ ~underflow(t.pages[kids[i]])

(***************************************************************************)
(* One level: the child at position i of the parent underflows.  The slot  *)
(* is that of the key to the left of the child, or the first one; with a   *)
(* right sibling it is the key between the two only if i = 1.              *)
(***************************************************************************)
Rebalance(t, parent_id, kids, i, slot) ==
  LET n == t.pages[kids[i]] IN
  CASE Spare(t, kids, i - 1) ->
         borrow(t, parent_id, kids[i], kids[i - 1], slot,
                steal_from_left(n, t.pages[kids[i - 1]]), ~n.leaf)
    [] ~Spare(t, kids, i - 1) /\ Spare(t, kids, i + 1) ->
         borrow(t, parent_id, kids[i], kids[i + 1], slot,
                steal_from_right(n, t.pages[kids[i + 1]]), ~n.leaf \/ i > 1)
    [] ~Spare(t, kids, i - 1) /\ ~Spare(t, kids, i + 1) /\ i < Len(kids) ->
         merge(t, parent_id, kids[i], kids[i + 1], slot, i > 1)
    [] OTHER -> merge(t, parent_id, kids[i - 1], kids[i], slot, FALSE)

Position(kids, page) == CHOOSE i \in DOMAIN kids : kids[i] = page

(* A parent without keys fails the assertion of child_at. *)
FixUnderflow(t, parent_id, kids, i) ==
  IF Len(kids) = 1 THEN Done(Fails(t, "assert"))
  ELSE Rebalance(t, parent_id, kids, i, IF i = 1 THEN 0 ELSE i - 2)

fix_underflow(s, parent_id) ==
  IF s.page = INVALID_PAGE_ID THEN s
  ELSE FixUnderflow(s.tree, parent_id, children(s.tree.pages[parent_id]),
                    Position(children(s.tree.pages[parent_id]), s.page))

AfterRemoval(t, path) ==
  IF Last(path) = t.root \/ ~underflow(t.pages[Last(path)]) THEN t
  ELSE FoldLeft(fix_underflow, [tree |-> t, page |-> Last(path)], Reverse(Front(path))).tree

RemovedAt(t, path, slot, k) ==
  IF Holds(t.pages[Last(path)], slot, k)
  THEN AfterRemoval(put(t, Last(path), remove_cell(t.pages[Last(path)], slot)), path)
  ELSE t

RemovedFrom(t, path, k) == RemovedAt(t, path, lower_bound(t.pages[Last(path)], k), k)

Removed(t, k) == RemovedFrom(t, find_leaf(t, k), k)

-----------------------------------------------------------------------------
(***************************************************************************)
(* The calls.  After a failed assertion the process is gone; the other     *)
(* faults leave a damaged tree, which the model does not follow.           *)
(***************************************************************************)
Becomes(t, c, r) ==
  /\ fault = "none"
  /\ t.fault \in {"none"} \cup Faults
  /\ t.num <= MaxPages + 1
  /\ fault' = t.fault
  /\ IF t.fault = "assert" THEN UNCHANGED <<pages, root, free_pages, num_pages, call, result>>
     ELSE /\ pages' = t.pages /\ root' = t.root
          /\ free_pages' = t.free /\ num_pages' = t.num
          /\ call' = c /\ result' = r

TooLarge(k, v) == leaf_cell_size(k, v) + 2 > NODE_USABLE_SIZE

get(k) == Becomes(Tree, <<"get", k>>, Lookup(Tree, k))

insert(k, v) ==
  IF TooLarge(k, v) THEN Becomes(Tree, <<"insert", k, v>>, "invalid_argument")
  ELSE \E t \in {Inserted(Tree, k, v)} : Becomes(t, <<"insert", k, v>>, "ok")

remove(k) ==
  \E t \in {Removed(Tree, k)} : Becomes(t, <<"remove", k>>, Lookup(Tree, k) # Absent)

Next == \E k \in Key :
  \/ get(k)
  \/ remove(k)
  \/ \E v \in Value : insert(k, v)

Spec == Init /\ [][Next]_vars

-----------------------------------------------------------------------------
(***************************************************************************)
(* Properties.                                                             *)
(***************************************************************************)
OptionalPage == {INVALID_PAGE_ID} \cup (1 .. MaxPages)
NodeType == [leaf: BOOLEAN, cells: Seq([key: Key, val: Value \cup (1 .. MaxPages)]), heap: Nat,
             parent: OptionalPage, left: OptionalPage, right: OptionalPage,
             first_child: OptionalPage]

(* The variables have their types; an internal node has children and a     *)
(* leaf has values.                                                        *)
TypeOK ==
  /\ DOMAIN pages \subseteq 1 .. MaxPages
  /\ \A p \in DOMAIN pages :
       /\ pages[p] \in NodeType
       /\ \A i \in DOMAIN pages[p].cells : (pages[p].cells[i].val \in Value) <=> pages[p].leaf
       /\ (pages[p].first_child = INVALID_PAGE_ID) <=> pages[p].leaf
  /\ root \in 1 .. MaxPages
  /\ free_pages \in Seq(1 .. MaxPages)
  /\ num_pages \in 2 .. MaxPages + 1
  /\ fault \in {"none"} \cup Faults

Leaves == {p \in DOMAIN pages : pages[p].leaf}
Inner == DOMAIN pages \ Leaves
Children(p) == ToSet(children(pages[p]))

(***************************************************************************)
(* Every call returns what it would on a map: whatever splits, borrowing   *)
(* and merging a call sets off, the key of the call has its new value,     *)
(* every other key keeps its own, and get() finds them (btree.h).          *)
(***************************************************************************)
Contents == [k \in Key |-> Lookup(Tree, k)]

Abstract == INSTANCE Store WITH store <- Contents
ImplementsStore == Abstract!Spec

(* Each cell of a leaf is where find_leaf looks for its key: no cell is     *)
(* cut off by a separator, and no key is in two leaves.                     *)
CellsAreFound ==
  \A p \in Leaves : \A i \in DOMAIN pages[p].cells :
    Last(find_leaf(Tree, pages[p].cells[i].key)) = p

(* Slots are sorted, so that binary search finds what a scan would, and    *)
(* slots and cells never run into each other (the assertion of free_space).*)
NodesAreSound ==
  \A p \in DOMAIN pages : LET n == pages[p] IN
    /\ \A i, j \in DOMAIN n.cells : i < j => IF n.leaf THEN n.cells[i].key < n.cells[j].key
                                                 ELSE n.cells[i].key <= n.cells[j].key
    /\ \A k \in Key : lower_bound(n, k) = Cardinality({i \in DOMAIN n.cells : n.cells[i].key < k})
    /\ free_space(n) >= 0
    /\ n.heap >= Payload(n, num_keys(n))

(* The pages of the tree are those of the file that are not free: each but  *)
(* the root is the child of exactly one page, the one its header names.     *)
PagesOwned ==
  /\ Len(free_pages) = Cardinality(ToSet(free_pages))
  /\ ToSet(free_pages) = (1 .. num_pages - 1) \ DOMAIN pages
  /\ pages[root].parent = INVALID_PAGE_ID
  /\ \A p \in Inner : Cardinality(Children(p)) = num_keys(pages[p]) + 1
  /\ \A p \in DOMAIN pages \ {root} : {q \in Inner : p \in Children(q)} = {pages[p].parent}

(* The sibling links thread the leaves in key order, both ways. *)
LeavesLinked ==
  LET chain[p \in Int] == IF p = INVALID_PAGE_ID THEN <<>> ELSE <<p>> \o chain[pages[p].right]
      first == CHOOSE p \in Leaves : pages[p].left = INVALID_PAGE_ID
      order == chain[first]
      keys == FlattenSeq([i \in DOMAIN order |-> pages[order[i]].cells])
  IN  /\ ToSet(order) = Leaves /\ Len(order) = Cardinality(Leaves)
      /\ \A i \in 2 .. Len(order) : pages[order[i]].left = order[i - 1]
      /\ \A i, j \in DOMAIN keys : i < j => keys[i].key < keys[j].key

(* All leaves are at the same depth. *)
Balanced ==
  LET height[p \in Nat] == IF pages[p].leaf THEN 0 ELSE 1 + height[pages[p].first_child] IN
  \A p \in Inner : \A c \in Children(p) : height[p] = 1 + height[c]
=============================================================================
