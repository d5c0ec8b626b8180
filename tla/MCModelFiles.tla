---------------------------- MODULE MCModelFiles ----------------------------
(* ModelFiles with two jobs, over a model that has a hash and one that has  *)
(* none.                                                                    *)
EXTENDS ModelFiles
CONSTANTS hashed, plain, j1, j2
MCModels == {hashed, plain}
MCHashed == {hashed}
MCJobs == {j1, j2}
=============================================================================
