----------------------------- MODULE JobStream -----------------------------
(***************************************************************************)
(* Progress streams over the job registry: GET /jobs/{id}/stream           *)
(* (api/jobs.py) on JobRegistry.subscribe (core/jobs.py), with the runners *)
(* that advance and settle the jobs.                                       *)
(*                                                                         *)
(* A stream holds the Job object, not its id, so it keeps reading a job    *)
(* the registry has forgotten.  Between frames it waits on the event the   *)
(* job's next change sets (_tick), or for fifteen seconds.                 *)
(***************************************************************************)
EXTENDS JobRegistry

CONSTANTS
    Clients,    \* progress streams that may be open at once
    MaxCreated  \* bound: jobs created in one behaviour

ASSUME StreamAssumption == MaxCreated \in Nat

VARIABLES
    worker,     \* worker[j]: is the runner of job j still working?
    stream      \* what each client's stream is doing

vars == <<jobs, kept, worker, stream>>

NoJob == 0

(* closed  - no stream                                                     *)
(* opening - the job was found, the response has not started               *)
(* sent    - a frame has been yielded to the client                        *)
(* waiting - suspended on the job's event; woken once that event is set    *)
(* ended   - the generator has returned and the response is complete       *)
StreamPc == {"closed", "opening", "sent", "waiting", "ended"}

(* shown is the status in the last frame; stale says that the job has      *)
(* changed since that frame was made.                                      *)
Stream == [pc : StreamPc, job : Nat, shown : JobStatus \cup {"nothing"},
           woken : BOOLEAN, stale : BOOLEAN]

Closed == [pc |-> "closed", job |-> NoJob, shown |-> "nothing",
           woken |-> FALSE, stale |-> FALSE]

TypeOK ==
    /\ RegistryTypeOK
    /\ worker \in Seq(BOOLEAN)
    /\ Len(worker) = Len(jobs)
    /\ stream \in [Clients -> Stream]
    /\ \A c \in Clients : stream[c].job \in 0..Len(jobs)

Init ==
    /\ RegistryInit
    /\ worker = <<>>
    /\ stream = [c \in Clients |-> Closed]

-----------------------------------------------------------------------------
(* _wake(job): set the event every current waiter holds, and arm a new one. *)
Wake(j) ==
    stream' = [c \in Clients |->
                 IF stream[c].job # j \/ stream[c].pc \notin {"sent", "waiting"}
                 THEN stream[c]
                 ELSE [stream[c] EXCEPT !.stale = TRUE,
                                        !.woken = stream[c].pc = "waiting"]]

(* A handler creates a job and spawns its runner. *)
Start(k, s) ==
    /\ Len(jobs) < MaxCreated
    /\ Create(k, s)
    /\ worker' = Append(worker, TRUE)
    /\ UNCHANGED stream

(* advance(): only a registered, running job moves.  Progress itself is    *)
(* not in the model, only that its watchers are woken.                     *)
Advance(j) ==
    /\ worker[j]
    /\ j \in kept
    /\ jobs[j].status = "running"
    /\ Wake(j)
    /\ UNCHANGED <<jobs, kept, worker>>

(* Mutant: settling a job wakes nobody. *)
FinishSilently(j) ==
    /\ worker[j]
    /\ worker' = [worker EXCEPT ![j] = FALSE]
    /\ Complete(j) \/ Fail(j)
    /\ UNCHANGED stream

(* The runner's last act: registry.complete or registry.fail. *)
Finish(j) ==
    /\ worker[j]
    /\ worker' = [worker EXCEPT ![j] = FALSE]
    /\ Complete(j) \/ Fail(j)
    /\ IF j \in kept THEN Wake(j) ELSE UNCHANGED stream

-----------------------------------------------------------------------------
(* The endpoint finds the job (404 otherwise) and returns the response. *)
Open(c, j) ==
    /\ stream[c].pc = "closed"
    /\ j \in kept
    /\ stream' = [stream EXCEPT ![c] = [Closed EXCEPT !.pc = "opening", !.job = j]]
    /\ UNCHANGED <<jobs, kept, worker>>

(* Mutant: the endpoint keeps asking for frames after the terminal one. *)
FrameForever(c) ==
    stream' = [stream EXCEPT ![c].shown = jobs[stream[c].job].status,
                             ![c].woken = FALSE,
                             ![c].stale = FALSE,
                             ![c].pc = "sent"]

(* Yield job.snapshot().  The endpoint returns after a terminal frame. *)
Frame(c) ==
    LET status == jobs[stream[c].job].status
    IN  stream' = [stream EXCEPT ![c].shown = status,
                                 ![c].woken = FALSE,
                                 ![c].stale = FALSE,
                                 ![c].pc = IF status = "running" THEN "sent" ELSE "ended"]

(* The generator's first step looks the job up again: a job forgotten in   *)
(* between ends the stream without a frame.                                *)
FirstFrame(c) ==
    /\ stream[c].pc = "opening"
    /\ IF stream[c].job \in kept
       THEN Frame(c)
       ELSE stream' = [stream EXCEPT ![c].pc = "ended"]
    /\ UNCHANGED <<jobs, kept, worker>>

(* Back from a yield: loop while the job is running, otherwise send the    *)
(* terminal frame.  The status is read and the event taken in one step.    *)
Resume(c) ==
    /\ stream[c].pc = "sent"
    /\ IF jobs[stream[c].job].status = "running"
       THEN stream' = [stream EXCEPT ![c].pc = "waiting", ![c].woken = FALSE]
       ELSE Frame(c)
    /\ UNCHANGED <<jobs, kept, worker>>

(* The event was set: send what the job looks like now. *)
NextFrame(c) ==
    /\ stream[c].pc = "waiting"
    /\ stream[c].woken
    /\ Frame(c)
    /\ UNCHANGED <<jobs, kept, worker>>

(* Fifteen seconds without a change: the same frame again. *)
Heartbeat(c) ==
    /\ stream[c].pc = "waiting"
    /\ ~stream[c].woken
    /\ Frame(c)
    /\ UNCHANGED <<jobs, kept, worker>>

(* The client goes away, or reads the end of the response. *)
Hangup(c) ==
    /\ stream[c].pc # "closed"
    /\ stream' = [stream EXCEPT ![c] = Closed]
    /\ UNCHANGED <<jobs, kept, worker>>

-----------------------------------------------------------------------------
Runner(j) ==
    \/ Advance(j)
    \/ Finish(j)

Client(c) ==
    \/ \E j \in 1..Len(jobs) : Open(c, j)
    \/ FirstFrame(c)
    \/ Resume(c)
    \/ NextFrame(c)
    \/ Heartbeat(c)
    \/ Hangup(c)

Next ==
    \/ \E k \in JobKind, s \in Sessions \cup {NoSession} : Start(k, s)
    \/ \E j \in 1..Len(jobs) : Runner(j)
    \/ \E c \in Clients : Client(c)

(* The event loop runs a ready generator.  Nothing is assumed of the       *)
(* heartbeat: a stream must not need it to end.                            *)
Fairness ==
    \A c \in Clients : WF_vars(FirstFrame(c) \/ Resume(c) \/ NextFrame(c))

Spec == Init /\ [][Next]_vars /\ Fairness

-----------------------------------------------------------------------------
(* A stream that has ended has shown its client how the job ended, however *)
(* the frames, the changes of the job and other jobs interleave            *)
(* (subscribe: "ends after the terminal (done/error) snapshot is           *)
(* delivered").                                                            *)
EndsWithTerminalFrame ==
    \A c \in Clients : stream[c].pc = "ended" => stream[c].shown \in {"done", "error"}

(* No settling of a job is lost between two frames: a stream that waits    *)
(* without having been woken has already shown its status.  Waiting        *)
(* on the wrong event, or setting it for nobody, would break it.           *)
NoLostWakeup ==
    \A c \in Clients :
        stream[c].pc = "waiting" /\ ~stream[c].woken =>
            stream[c].shown = jobs[stream[c].job].status

(* Once a job's runner has returned, every stream on it ends or is hung up, *)
(* without help from the fifteen-second heartbeat.                         *)
StreamEnds ==
    \A c \in Clients :
        (/\ stream[c].pc \notin {"closed", "ended"}
         /\ ~worker[stream[c].job]) ~> (stream[c].pc \in {"closed", "ended"})

(* A stream ends with the word its client waits for and sleeps only on what *)
(* it has already told (core/jobs.py:205, api/jobs.py:33).                  *)
StreamInv ==
    /\ TypeOK
    /\ EndsWithTerminalFrame
    /\ NoLostWakeup
=============================================================================
