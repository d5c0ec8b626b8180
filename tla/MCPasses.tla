------------------------------ MODULE MCPasses ------------------------------
(* Model values for Passes. *)
EXTENDS Passes, TLC

SessionSymmetry == Permutations(Sessions)
=============================================================================
