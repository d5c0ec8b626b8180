---------------------------- MODULE MCJobStream ----------------------------
(* Model values for JobStream: one session is enough, since streams never  *)
(* look at it.                                                             *)
EXTENDS JobStream, TLC

StreamSymmetry == Permutations(Clients)
=============================================================================
