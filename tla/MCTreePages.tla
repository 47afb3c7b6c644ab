---------------------------- MODULE MCTreePages ----------------------------
(* An instance of TreePages: two cells fill a page. *)
EXTENDS TreePages

MCKey == 1 .. 3
MCKeySize == [k \in MCKey |-> 1]
MCValueSize == [v \in Value |-> 9]
=============================================================================
