----------------------------- MODULE MCRuntimes -----------------------------
(* Runtimes on a machine that can run CUDA, with the CPU built in, and two  *)
(* jobs that may install the one pack at the same time.                     *)
EXTENDS Runtimes
CONSTANTS cuda, cpu, i1, i2
MCPacks == {cuda}
MCRanking == <<cuda, cpu>>
MCInstalls == {i1, i2}
=============================================================================
