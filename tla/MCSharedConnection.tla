------------------------- MODULE MCSharedConnection -------------------------
(* Model values for SharedConnection. *)
EXTENDS SharedConnection, TLC

CallerSymmetry == Permutations(Callers)
=============================================================================
