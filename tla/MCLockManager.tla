--------------------------- MODULE MCLockManager ---------------------------
(***************************************************************************)
(* The lock manager for TLC: enough transactions for two readers and a     *)
(* writer, and enough keys for a cycle of two waiters.                     *)
(***************************************************************************)
EXTENDS LockManager
=============================================================================
