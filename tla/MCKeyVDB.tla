------------------------------ MODULE MCKeyVDB ------------------------------
(* Instances of KeyVDB for TLC. *)
EXTENDS ReplayInv, TLC

Symmetry == Permutations(Conn) \cup Permutations(Key)
=============================================================================
