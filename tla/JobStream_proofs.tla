--------------------------- MODULE JobStream_proofs ---------------------------
(***************************************************************************)
(* While the registry does not overflow, no stream loses the settling of    *)
(* its job, whatever the number of streams, jobs and runners: type          *)
(* correctness of JobStream, NoLostWakeup and EndsWithTerminalFrame.        *)
(***************************************************************************)
EXTENDS JobStream, TLAPS

NoOverflow == MaxCreated <= MaxJobs

(* Nothing is forgotten, so a stream that is open has a registered job; and *)
(* between its first frame and its last the client has seen running.        *)
OpenPc == {"opening", "sent", "waiting"}
Followed ==
    /\ kept = 1..Len(jobs) /\ Len(jobs) <= MaxCreated
    /\ \A c \in Clients :
          /\ stream[c].pc \in OpenPc => stream[c].job \in 1..Len(jobs)
          /\ stream[c].pc \in {"sent", "waiting"} => stream[c].shown = "running"
IInv == StreamInv /\ Followed

-----------------------------------------------------------------------------
LEMMA ClosedType == Closed \in Stream /\ Closed.pc = "closed" /\ Closed.job = 0
BY DEF Closed, Stream, StreamPc, NoJob

LEMMA InvInit == Init => IInv
<1> SUFFICES ASSUME Init PROVE IInv
  OBVIOUS
<1>1. jobs = <<>> /\ Len(jobs) = 0 /\ kept = {} /\ worker = <<>>
  BY DEF Init, RegistryInit
<1>2. jobs \in Seq(Job) /\ worker \in Seq(BOOLEAN) /\ Len(worker) = 0
  BY <1>1
<1>3. stream = [c \in Clients |-> Closed]
  BY DEF Init
<1>. QED
  BY <1>1, <1>2, <1>3, ClosedType, StreamAssumption
  DEF IInv, StreamInv, TypeOK, RegistryTypeOK, EndsWithTerminalFrame, NoLostWakeup, Followed, OpenPc

(* What one client does leaves the others as they are. *)
LEMMA OneStream ==
    ASSUME IInv, NEW c \in Clients, NEW d \in Stream,
           stream' = [stream EXCEPT ![c] = d], UNCHANGED <<jobs, kept, worker>>,
           d.job \in 0..Len(jobs),
           d.pc \in OpenPc => d.job \in 1..Len(jobs),
           d.pc \in {"sent", "waiting"} => d.shown = "running",
           d.pc = "ended" => d.shown \in {"done", "error"},
           d.pc = "waiting" /\ ~d.woken => d.shown = jobs[d.job].status
    PROVE  IInv'
<1> USE DEF IInv, StreamInv, TypeOK
<1>1. stream' \in [Clients -> Stream]
  OBVIOUS
<1>2. \A x \in Clients : stream'[x] = IF x = c THEN d ELSE stream[x]
  OBVIOUS
<1>3. TypeOK'
  BY <1>1, <1>2 DEF RegistryTypeOK
<1>4. EndsWithTerminalFrame' /\ Followed'
  BY <1>2 DEF EndsWithTerminalFrame, Followed
<1>5. NoLostWakeup'
  BY <1>2 DEF NoLostWakeup
<1>. QED
  BY <1>3, <1>4, <1>5

(* A frame shows the status there is, and ends the stream if it is the last.*)
LEMMA FrameKeeps ==
    ASSUME IInv, NEW c \in Clients, stream[c].pc \in OpenPc, Frame(c),
           UNCHANGED <<jobs, kept, worker>>
    PROVE  IInv'
<1> DEFINE status == jobs[stream[c].job].status
           d == [stream[c] EXCEPT !.shown = status, !.woken = FALSE, !.stale = FALSE,
                                  !.pc = IF status = "running" THEN "sent" ELSE "ended"]
<1>0. stream[c] \in Stream /\ stream[c].job \in 1..Len(jobs) /\ jobs \in Seq(Job)
  BY DEF IInv, StreamInv, TypeOK, RegistryTypeOK, Followed
<1>1. status \in JobStatus
  <2>1. jobs[stream[c].job] \in Job
    BY <1>0
  <2>. QED
    BY <2>1 DEF Job
<1>2. stream' = [stream EXCEPT ![c] = d]
  BY DEF Frame
<1> HIDE DEF status
<1>3. d \in Stream
  BY <1>0, <1>1 DEF Stream, StreamPc
<1>4. /\ d.job = stream[c].job /\ d.shown = status
      /\ d.pc = IF status = "running" THEN "sent" ELSE "ended"
  BY <1>0 DEF Stream
<1> HIDE DEF d
<1>5. d.job \in 0..Len(jobs) /\ d.job \in 1..Len(jobs)
  BY <1>0, <1>4
<1>6. d.pc \in {"sent", "waiting"} => d.shown = "running"
  BY <1>4
<1>7. d.pc = "ended" => d.shown \in {"done", "error"}
  BY <1>1, <1>4 DEF JobStatus
<1>8. d.pc # "waiting"
  BY <1>4
<1>. QED
  BY <1>2, <1>3, <1>5, <1>6, <1>7, <1>8, OneStream

LEMMA ClientStep ==
    ASSUME IInv, NEW c \in Clients, Client(c)
    PROVE  IInv'
<1>0. /\ stream[c] \in Stream /\ jobs \in Seq(Job) /\ kept = 1..Len(jobs)
      /\ stream[c].job \in 0..Len(jobs)
  BY DEF IInv, StreamInv, TypeOK, RegistryTypeOK, Followed
<1>1. ASSUME NEW j \in 1..Len(jobs), Open(c, j) PROVE IInv'
  <2> DEFINE d == [Closed EXCEPT !.pc = "opening", !.job = j]
  <2>1. d \in Stream /\ d.pc = "opening" /\ d.job = j
    <3>1. j \in Nat
      BY <1>0
    <3>. QED
      BY <3>1 DEF Closed, Stream, StreamPc
  <2>2. stream' = [stream EXCEPT ![c] = d] /\ UNCHANGED <<jobs, kept, worker>>
    BY <1>1 DEF Open
  <2> HIDE DEF d
  <2>3. d.job \in 0..Len(jobs)
    BY <1>0, <2>1
  <2>. QED
    BY <2>1, <2>2, <2>3, OneStream
<1>2. CASE FirstFrame(c)
  <2>1. stream[c].pc = "opening" /\ stream[c].job \in kept
    BY <1>2 DEF FirstFrame, IInv, Followed, OpenPc
  <2>. QED
    BY <1>2, <2>1, FrameKeeps DEF FirstFrame, OpenPc
<1>3. CASE Resume(c)
  <2>1. CASE jobs[stream[c].job].status = "running"
    <3> DEFINE d == [stream[c] EXCEPT !.pc = "waiting", !.woken = FALSE]
    <3>1. stream' = [stream EXCEPT ![c] = d] /\ UNCHANGED <<jobs, kept, worker>>
      BY <1>3, <2>1 DEF Resume
    <3>2. /\ d \in Stream /\ d.pc = "waiting" /\ d.job = stream[c].job
          /\ d.shown = stream[c].shown
      BY <1>0 DEF Stream, StreamPc
    <3> HIDE DEF d
    <3>3. stream[c].job \in 1..Len(jobs) /\ stream[c].shown = "running"
      BY <1>3 DEF Resume, IInv, Followed, OpenPc
    <3>. QED
      BY <1>0, <2>1, <3>1, <3>2, <3>3, OneStream
  <2>2. CASE jobs[stream[c].job].status # "running"
    BY <1>3, <2>2, FrameKeeps DEF Resume, OpenPc
  <2>. QED
    BY <2>1, <2>2
<1>4. CASE NextFrame(c) \/ Heartbeat(c)
  BY <1>4, FrameKeeps DEF NextFrame, Heartbeat, OpenPc
<1>5. CASE Hangup(c)
  <2>1. stream' = [stream EXCEPT ![c] = Closed] /\ UNCHANGED <<jobs, kept, worker>>
    BY <1>5 DEF Hangup
  <2>2. Closed.job \in 0..Len(jobs)
    BY <1>0, ClosedType
  <2>. QED
    BY <2>1, <2>2, ClosedType, OneStream DEF OpenPc
<1>. QED
  BY <1>1, <1>2, <1>3, <1>4, <1>5 DEF Client

-----------------------------------------------------------------------------
(* Setting the event changes nothing but whether a stream is woken. *)
LEMMA WakeType ==
    ASSUME IInv, NEW j, Wake(j)
    PROVE  /\ stream' \in [Clients -> Stream]
           /\ \A c \in Clients :
                /\ stream'[c].pc = stream[c].pc /\ stream'[c].job = stream[c].job
                /\ stream'[c].shown = stream[c].shown
                /\ stream'[c].woken = stream[c].woken
                   \/ (stream[c].job = j /\ stream'[c].woken = (stream[c].pc = "waiting"))
                /\ stream[c].job = j /\ stream[c].pc = "waiting" => stream'[c].woken
<1>0. stream \in [Clients -> Stream]
  BY DEF IInv, StreamInv, TypeOK
<1>1. ASSUME NEW c \in Clients
      PROVE  /\ [stream[c] EXCEPT !.stale = TRUE, !.woken = stream[c].pc = "waiting"] \in Stream
             /\ stream[c] \in Stream
  <2>1. (stream[c].pc = "waiting") \in BOOLEAN
    OBVIOUS
  <2>. QED
    BY <1>0, <2>1 DEF Stream
<1>2. stream' \in [Clients -> Stream]
  BY <1>1 DEF Wake
<1>3. ASSUME NEW c \in Clients
      PROVE  stream'[c] = IF stream[c].job # j \/ stream[c].pc \notin {"sent", "waiting"}
                          THEN stream[c]
                          ELSE [stream[c] EXCEPT !.stale = TRUE,
                                                 !.woken = stream[c].pc = "waiting"]
  BY DEF Wake
<1>4. ASSUME NEW c \in Clients
      PROVE  /\ stream'[c].pc = stream[c].pc /\ stream'[c].job = stream[c].job
             /\ stream'[c].shown = stream[c].shown
  BY <1>0, <1>3 DEF Stream
<1>5. ASSUME NEW c \in Clients, stream[c].job # j \/ stream[c].pc \notin {"sent", "waiting"}
      PROVE  stream'[c].woken = stream[c].woken
  BY <1>3, <1>5
<1>6. ASSUME NEW c \in Clients, stream[c].job = j, stream[c].pc \in {"sent", "waiting"}
      PROVE  stream'[c].woken = (stream[c].pc = "waiting")
  <2> DEFINE b == stream[c].pc = "waiting"
             d == [stream[c] EXCEPT !.stale = TRUE, !.woken = b]
  <2>1. stream'[c] = d
    BY <1>3, <1>6
  <2>2. d.woken = b
    <3>1. stream[c] \in Stream
      BY <1>0
    <3>2. DOMAIN stream[c] = {"pc", "job", "shown", "woken", "stale"}
      BY <3>1 DEF Stream
    <3> HIDE DEF b
    <3>. QED
      BY <3>2, Zenon
  <2>. QED
    BY <2>1, <2>2
<1>. QED
  BY <1>2, <1>4, <1>5, <1>6

LEMMA RunnerStep ==
    ASSUME IInv, NEW j \in 1..Len(jobs), Runner(j)
    PROVE  IInv'
<1> USE DEF IInv, StreamInv, TypeOK, RegistryTypeOK
<1>1. CASE Advance(j)
  <2>1. Wake(j) /\ UNCHANGED <<jobs, kept, worker>>
    BY <1>1 DEF Advance
  <2>2. TypeOK' /\ EndsWithTerminalFrame' /\ Followed'
    BY <2>1, WakeType DEF EndsWithTerminalFrame, Followed
  <2>3. NoLostWakeup'
    BY <2>1, WakeType DEF NoLostWakeup
  <2>. QED
    BY <2>2, <2>3
<1>2. CASE Finish(j)
  <2>1. j \in kept /\ Wake(j) /\ kept' = kept /\ worker' = [worker EXCEPT ![j] = FALSE]
    BY <1>2 DEF Finish, Complete, Fail, Settle, Followed
  <2>2. PICK status \in {"done", "error"} : jobs' = [jobs EXCEPT ![j].status = status]
    BY <1>2, <2>1 DEF Finish, Complete, Fail, Settle
  <2>3. jobs' \in Seq(Job) /\ Len(jobs') = Len(jobs)
    <3> DEFINE d == [jobs[j] EXCEPT !.status = status]
    <3>1. jobs[j] \in Job
      OBVIOUS
    <3>2. d \in Job
      BY <2>2, <3>1 DEF Job, JobStatus
    <3>3. jobs' = [jobs EXCEPT ![j] = d]
      BY <2>2
    <3> HIDE DEF d
    <3>. QED
      BY <3>2, <3>3
  <2>4. worker' \in Seq(BOOLEAN) /\ Len(worker') = Len(worker)
    BY <2>1
  <2>5. \A k \in 1..Len(jobs) : k # j => jobs'[k] = jobs[k]
    BY <2>2
  <2>6. TypeOK' /\ EndsWithTerminalFrame' /\ Followed'
    BY <2>1, <2>3, <2>4, WakeType DEF EndsWithTerminalFrame, Followed
  <2>7. NoLostWakeup'
    <3> SUFFICES ASSUME NEW c \in Clients, stream'[c].pc = "waiting", ~stream'[c].woken
                 PROVE  stream'[c].shown = jobs'[stream'[c].job].status
      BY DEF NoLostWakeup
    <3>1. stream[c].pc = "waiting" /\ stream[c].job # j /\ ~stream[c].woken
      BY <2>1, WakeType
    <3>2. stream[c].job \in 1..Len(jobs) /\ stream[c].shown = jobs[stream[c].job].status
      BY <3>1 DEF NoLostWakeup, Followed, OpenPc
    <3>. QED
      BY <2>1, <2>5, <3>1, <3>2, WakeType
  <2>. QED
    BY <2>6, <2>7
<1>. QED
  BY <1>1, <1>2 DEF Runner

(* A new job is registered beside the others. *)
LEMMA StartStep ==
    ASSUME NoOverflow, IInv, NEW k \in JobKind, NEW s \in Sessions \cup {NoSession}, Start(k, s)
    PROVE  IInv'
<1> USE DEF IInv, StreamInv, TypeOK, RegistryTypeOK
<1> DEFINE new == [kind |-> k, session |-> s, status |-> "running"]
<1>1. /\ Len(jobs) < MaxCreated /\ jobs' = Append(jobs, new) /\ worker' = Append(worker, TRUE)
      /\ stream' = stream /\ kept' = {j \in kept \cup {NextJob} : j > NextJob - MaxJobs}
  BY DEF Start, Create
<1>2. new \in Job
  BY DEF Job, JobStatus
<1> HIDE DEF new
<1>3. jobs' \in Seq(Job) /\ Len(jobs') = Len(jobs) + 1
  BY <1>1, <1>2
<1>4. worker' \in Seq(BOOLEAN) /\ Len(worker') = Len(worker) + 1
  <2>1. TRUE \in BOOLEAN
    OBVIOUS
  <2>. QED
    BY <1>1, <2>1
<1>5. \A j \in 1..Len(jobs) : jobs'[j] = jobs[j]
  BY <1>1, <1>2
<1>6. kept' = 1..Len(jobs')
  <2>1. kept = 1..Len(jobs) /\ Len(jobs) \in Nat
    BY DEF Followed
  <2>2. \A j \in 1..Len(jobs) + 1 : j > NextJob - MaxJobs
    BY <1>1, <2>1, StreamAssumption, RegistryAssumption DEF NextJob, NoOverflow
  <2>. QED
    BY <1>1, <1>3, <2>1, <2>2 DEF NextJob
<1>7. TypeOK' /\ EndsWithTerminalFrame'
  BY <1>1, <1>3, <1>4, <1>6 DEF EndsWithTerminalFrame
<1>8. Followed'
  BY <1>1, <1>3, <1>6, StreamAssumption DEF Followed
<1>9. NoLostWakeup'
  BY <1>1, <1>5 DEF NoLostWakeup, Followed, OpenPc
<1>. QED
  BY <1>7, <1>8, <1>9

LEMMA InvStep ==
    ASSUME NoOverflow, IInv, [Next]_vars
    PROVE  IInv'
<1>1. CASE UNCHANGED vars
  BY <1>1 DEF vars, IInv, StreamInv, TypeOK, RegistryTypeOK, EndsWithTerminalFrame,
     NoLostWakeup, Followed
<1>. QED
  BY <1>1, ClientStep, RunnerStep, StartStep DEF Next

(* A stream that sleeps has told all there is to tell, and one that ends    *)
(* has told how its job ended, for any number of streams and jobs, as long  *)
(* as the registry does not overflow (core/jobs.py:205).                    *)
THEOREM StreamsAreTold ==
    ASSUME NoOverflow
    PROVE  Spec => []StreamInv
<1>1. IInv /\ [Next]_vars => IInv'
  BY InvStep
<1>2. IInv => StreamInv
  BY DEF IInv
<1>. QED
  BY <1>1, <1>2, InvInit, PTL DEF Spec
=============================================================================
