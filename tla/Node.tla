-------------------------------- MODULE Node --------------------------------
(***************************************************************************)
(* The slotted page of a B+Tree node (src/src/btree/node.cpp).             *)
(*                                                                         *)
(* A node is its header and its live cells in slot order.  `heap` is what  *)
(* the cells take, those of removed cells included: NODE_DATA_SIZE minus   *)
(* cell_end.  A removed cell gives back its slot only; compact() gives     *)
(* back the rest.  The value of a cell is its value in a leaf, its right   *)
(* child in an internal node.  Sizes are in bytes; slots count from 0.     *)
(***************************************************************************)
EXTENDS Integers, Sequences, SequencesExt

CONSTANTS Key, Value,         \* keys are integers: their order is the order of strings
          KeySize, ValueSize, \* their lengths
          NODE_USABLE_SIZE    \* bytes of a page for slots and cells

ASSUME NodeAssumption ==
  /\ Key \subseteq Int
  /\ KeySize \in [Key -> Nat] /\ ValueSize \in [Value -> Nat]
  /\ NODE_USABLE_SIZE \in Nat

INVALID_PAGE_ID == -1

leaf_cell_size(k, v) == (2 + KeySize[k]) + (2 + ValueSize[v])

internal_cell_size(k) == (2 + KeySize[k]) + 4

total_cell_cost(payload) == 2 + payload

cell_size(n, c) == IF n.leaf THEN leaf_cell_size(c.key, c.val) ELSE internal_cell_size(c.key)

Cell(k, x) == [key |-> k, val |-> x]

init_node(leaf, parent) ==
  [leaf |-> leaf, cells |-> <<>>, heap |-> 0, parent |-> parent,
   left |-> INVALID_PAGE_ID, right |-> INVALID_PAGE_ID, first_child |-> INVALID_PAGE_ID]

-----------------------------------------------------------------------------
num_keys(n) == Len(n.cells)

key_at(n, slot) == n.cells[slot + 1].key

(* The children, first_child first: child_at(i) is children(n)[i + 2]. *)
children(n) == <<n.first_child>> \o [i \in DOMAIN n.cells |-> n.cells[i].val]

free_space(n) == NODE_USABLE_SIZE - 2 * num_keys(n) - n.heap

FullWithoutSlot(n, payload) == free_space(n) < payload

is_full(n, payload) == free_space(n) < total_cell_cost(payload)

(* Removed cells count as occupied until the node is compacted. *)
underflow(n) == NODE_USABLE_SIZE - free_space(n) < NODE_USABLE_SIZE \div 2

(* Binary search: the first slot whose key is not below k. *)
lower_bound(n, k) ==
  LET search[lo, hi \in 0 .. num_keys(n)] ==
        LET mid == lo + (hi - lo) \div 2 IN
        IF lo >= hi THEN lo
        ELSE IF key_at(n, mid) < k THEN search[mid + 1, hi] ELSE search[lo, mid]
  IN  search[0, num_keys(n)]

(* The slot holds the key. *)
Holds(n, slot, k) == slot < num_keys(n) /\ key_at(n, slot) = k

-----------------------------------------------------------------------------
(* The bytes of the live cells among the first m, with and without slots. *)
Payload(n, m) == FoldLeft(LAMBDA sum, c : sum + cell_size(n, c), 0, SubSeq(n.cells, 1, m))

Used(n, m) == Payload(n, m) + 2 * m

compact(n) == [n EXCEPT !.heap = Payload(n, num_keys(n))]

write_cell(n, slot, c) == [n EXCEPT !.cells = InsertAt(@, slot + 1, c), !.heap = @ + cell_size(n, c)]

remove_cell(n, slot) == [n EXCEPT !.cells = RemoveAt(@, slot + 1)]

(* Compacts if that is what it takes; `ok` is FALSE when there is no room. *)
InRoom(n, slot, c) ==
  IF is_full(n, cell_size(n, c)) THEN [ok |-> FALSE, node |-> n]
                                 ELSE [ok |-> TRUE, node |-> write_cell(n, slot, c)]

insert_cell(n, slot, c) == InRoom(IF is_full(n, cell_size(n, c)) THEN compact(n) ELSE n, slot, c)

InOrder(n, c) == insert_cell(n, lower_bound(n, c.key), c)

(* A value of another size is removed first, whether or not the new one fits. *)
Overwrite(n, slot, c) ==
  IF ValueSize[n.cells[slot + 1].val] = ValueSize[c.val]
  THEN [ok |-> TRUE, node |-> [n EXCEPT !.cells[slot + 1] = c]]
  ELSE InOrder(remove_cell(n, slot), c)

LeafCellAt(n, slot, c) ==
  IF Holds(n, slot, c.key) THEN Overwrite(n, slot, c) ELSE insert_cell(n, slot, c)

insert_leaf_cell(n, k, v) == LeafCellAt(n, lower_bound(n, k), Cell(k, v))

insert_separator(n, k, child) == InOrder(n, Cell(k, child))

(* A separator of another length is removed and inserted again. *)
set_separator(n, slot, k) ==
  IF KeySize[key_at(n, slot)] = KeySize[k]
  THEN [ok |-> TRUE, node |-> [n EXCEPT !.cells[slot + 1].key = k]]
  ELSE insert_separator(remove_cell(n, slot), k, n.cells[slot + 1].val)

-----------------------------------------------------------------------------
(* The first slot past the first at which the bytes pass half of the total. *)
SplitIndex(n) ==
  LET half == (NODE_USABLE_SIZE - free_space(n)) \div 2 IN
  CHOOSE i \in 1 .. num_keys(n) :
    /\ i = num_keys(n) \/ Used(n, i + 1) > half
    /\ \A j \in 1 .. i - 1 : Used(n, j + 1) <= half

Prefix(n, m) == [n EXCEPT !.cells = SubSeq(@, 1, m)]

(* A new node with the cells of n from a slot on. *)
Suffix(n, slot) ==
  compact([init_node(n.leaf, n.parent) EXCEPT !.cells = SubSeq(n.cells, slot + 1, num_keys(n))])

(* split_into, for a leaf `id` and its new right neighbour.  The left half  *)
(* keeps the bytes of the cells that left it.                               *)
LeafHalves(n, i, id, right_id) ==
  [left |-> [Prefix(n, i) EXCEPT !.right = right_id],
   right |-> [Suffix(n, i) EXCEPT !.right = n.right, !.left = id],
   sep |-> key_at(n, i)]

split_leaf(n, id, right_id) == LeafHalves(n, SplitIndex(n), id, right_id)

HalvesWithoutFirstChild(n, mid) ==
  [left |-> Prefix(n, mid), right |-> Suffix(n, mid + 1), sep |-> key_at(n, mid)]

(* The middle key goes up; its right child starts the right node. *)
InternalHalves(n, mid) ==
  [left |-> Prefix(n, mid),
   right |-> [Suffix(n, mid + 1) EXCEPT !.first_child = n.cells[mid + 1].val],
   sep |-> key_at(n, mid)]

split_internal(n) == InternalHalves(n, Min({SplitIndex(n), num_keys(n) - 1}))

(* The cell goes to the half that its key belongs to. *)
add(n, c) == IF n.leaf THEN insert_leaf_cell(n, c.key, c.val) ELSE insert_separator(n, c.key, c.val)
InLeft(h, r) == [ok |-> r.ok, left |-> r.node, right |-> h.right, sep |-> h.sep]
InRight(h, r) == [ok |-> r.ok, left |-> h.left, right |-> r.node, sep |-> h.sep]

add_to_half(h, c) == IF c.key < h.sep THEN InLeft(h, add(h.left, c)) ELSE InRight(h, add(h.right, c))

(* Both kinds of merge insert cell by cell; an internal one pulls the       *)
(* separator down in front of the right node's first child.                 *)
Absorb(acc, c) == IF acc.ok THEN add(acc.node, c) ELSE acc

merge_from(n, right, sep) ==
  IF n.leaf
  THEN FoldLeft(Absorb, [ok |-> TRUE, node |-> [n EXCEPT !.right = right.right]], right.cells)
  ELSE FoldLeft(Absorb, [ok |-> TRUE, node |-> n], <<Cell(sep, right.first_child)>> \o right.cells)

(* steal_from_left and steal_from_right: the two nodes afterwards, the new  *)
(* separator and the child that changed parents.  The old separator is not  *)
(* used.  A sibling without keys fails the assertion of key_at.             *)
NoSteal == [ok |-> FALSE]

Stolen(r, sib, sep, child) == [ok |-> r.ok, node |-> r.node, sib |-> sib, sep |-> sep, child |-> child]

TakeLast(n, sib, c) ==
  Stolen(IF n.leaf THEN insert_leaf_cell(n, c.key, c.val)
         ELSE insert_cell([n EXCEPT !.first_child = c.val], 0, Cell(c.key, n.first_child)),
         remove_cell(sib, num_keys(sib) - 1), c.key, IF n.leaf THEN INVALID_PAGE_ID ELSE c.val)

steal_from_left(n, sib) == IF sib.cells = <<>> THEN NoSteal ELSE TakeLast(n, sib, Last(sib.cells))

TakeFirstAsSeparator(n, sib, c) ==
  Stolen(add(n, c), remove_cell(sib, 0), c.key, INVALID_PAGE_ID)

TakeFirst(n, sib, c) ==
  IF n.leaf
  THEN Stolen(insert_leaf_cell(n, c.key, c.val), remove_cell(sib, 0), key_at(sib, 1), INVALID_PAGE_ID)
  ELSE Stolen(insert_separator(n, c.key, sib.first_child),
              [remove_cell(sib, 0) EXCEPT !.first_child = c.val], c.key, sib.first_child)

steal_from_right(n, sib) ==
  IF num_keys(sib) < (IF n.leaf THEN 2 ELSE 1) THEN NoSteal ELSE TakeFirst(n, sib, Head(sib.cells))
=============================================================================
