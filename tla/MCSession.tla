----------------------------- MODULE MCSession -----------------------------
(***************************************************************************)
(* Instances of Session for TLC.  Two calls of two operations each follow  *)
(* one another; one call pipelines two operations; two calls of one        *)
(* operation overlap.                                                      *)
(***************************************************************************)
EXTENDS Session

CONSTANTS c1, c2

CallsByUsage == [u \in Usages |-> IF u = "pipelined" THEN {c1} ELSE {c1, c2}]
OpsByUsage   == [u \in Usages |-> IF u = "shared" THEN 1 ELSE 2]
=============================================================================
