------------------------------ MODULE MCBTree ------------------------------
(***************************************************************************)
(* Instances of BTree.  A start is a tree that insertions have built, with *)
(* the keys and values of the calls that follow and a bound on how often   *)
(* insertions and removals alternate.                                      *)
(***************************************************************************)
EXTENDS BTree

CONSTANTS small, large, huge,  \* values by size
          LargeSize, MaxKey, LongKeys, Starts

VARIABLES growing, start
MCvars == <<vars, growing, start>>

MCKey == 1 .. MaxKey
MCKeySize == [k \in MCKey |-> IF k \in LongKeys THEN 2 ELSE 1]
MCValueSize ==
  [v \in Value |-> CASE v = small -> 9 [] v = large -> LargeSize [] v = huge -> NODE_USABLE_SIZE]

Start(seed, keys, values, turns) == [seed |-> seed, keys |-> keys, values |-> values, turns |-> turns]
MCStarts ==
  {Start(<<>>, 1 .. 3, {small, large, huge}, 3),         \* sizes differ
   Start(<<>>, 1 .. 6, {small}, 1),                      \* all orders of insertion
   Start(<<1, 7, 6, 5, 4, 3>>, 1 .. 7, {small}, 3),      \* three levels, and back
   Start(<<2, 7, 6, 5, 4, 3>>, 1 .. 7, {small}, 3)}

EmptyTree == [pages |-> 1 :> init_node(TRUE, INVALID_PAGE_ID), root |-> 1, free |-> <<>>,
              num |-> 2, fault |-> "none"]

MCInit ==
  /\ growing = TRUE
  /\ start \in Starts
  /\ \E t \in {FoldLeft(LAMBDA s, k : Inserted(s, k, small), EmptyTree, start.seed)} :
       /\ pages = t.pages /\ root = t.root /\ free_pages = t.free
       /\ num_pages = t.num /\ fault = t.fault
  /\ call = <<>> /\ result = "none"

Turn(grows) ==
  /\ growing' = grows
  /\ start' = IF growing = grows THEN start ELSE [start EXCEPT !.turns = @ - 1]
  /\ start'.turns >= 0

MCNext == \E k \in start.keys :
  \/ get(k) /\ UNCHANGED <<growing, start>>
  \/ remove(k) /\ Turn(FALSE)
  \/ \E v \in start.values : insert(k, v) /\ Turn(TRUE)

MCSpec == MCInit /\ [][MCNext]_MCvars

(* No step depends on the last call and its result. *)
NoReply == <<pages, root, free_pages, num_pages, fault, growing, start>>
=============================================================================
