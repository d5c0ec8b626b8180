---------------------------- MODULE JobRegistry ----------------------------
(***************************************************************************)
(* The in-memory registry of background jobs (core/jobs.py): what a job    *)
(* is, how one is created, found, advanced and settled, and which job is   *)
(* forgotten when the registry is full.  The module has no behaviour of    *)
(* its own; JobStream and Passes extend it and drive these operations.     *)
(*                                                                         *)
(* A job id is a uuid in the code; here it is the rank of creation, so     *)
(* jobs[j] is the Job object, which outlives its registration because the  *)
(* runner and the progress streams hold on to it, and kept is the set of   *)
(* ids the registry still knows (_jobs and _order).                        *)
(***************************************************************************)
EXTENDS Integers, Sequences, FiniteSets

CONSTANTS
    Sessions,   \* ids of recording sessions
    NoSession,  \* Job.session_id is None
    MaxJobs     \* JobRegistry(max_jobs), 64 in the code

ASSUME RegistryAssumption ==
    /\ NoSession \notin Sessions
    /\ MaxJobs \in Nat \ {0}

VARIABLES
    jobs,       \* every Job object of this process, in order of creation
    kept        \* the ids still registered

registryVars == <<jobs, kept>>

JobKind   == {"refine", "upload", "diarize", "translate", "minutes"}
JobStatus == {"running", "done", "error"}

Job == [kind : JobKind, session : Sessions \cup {NoSession}, status : JobStatus]

RegistryTypeOK ==
    /\ jobs \in Seq(Job)
    /\ kept \subseteq 1..Len(jobs)

RegistryInit ==
    /\ jobs = <<>>
    /\ kept = {}

-----------------------------------------------------------------------------
NextJob == Len(jobs) + 1

(* active_for(session_id): the registered jobs running on a session.  The  *)
(* code returns the newest one; its callers ask whether there is any.      *)
ActiveFor(s) ==
    {j \in kept : jobs[j].status = "running" /\ jobs[j].session = s}

(* active_for(session_id, kind=k) *)
ActiveForKind(s, k) == {j \in ActiveFor(s) : jobs[j].kind = k}

(* create(): register a new running job, then forget the oldest ones over  *)
(* the cap, whatever their status.                                         *)
Create(k, s) ==
    /\ jobs' = Append(jobs, [kind |-> k, session |-> s, status |-> "running"])
    /\ kept' = {j \in kept \cup {NextJob} : j > NextJob - MaxJobs}

(* complete() and fail(): unconditional on the job's status, and a no-op   *)
(* on a job the registry has forgotten.                                    *)
Settle(j, status) ==
    /\ jobs' = IF j \in kept THEN [jobs EXCEPT ![j].status = status] ELSE jobs
    /\ UNCHANGED kept

Complete(j) == Settle(j, "done")
Fail(j)     == Settle(j, "error")
=============================================================================
