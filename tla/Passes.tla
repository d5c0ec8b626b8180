------------------------------- MODULE Passes -------------------------------
(***************************************************************************)
(* The life of a recording session and of the whole-file passes that       *)
(* rewrite it: the live connection that records it (ws.py), uploads        *)
(* (api/upload.py, core/upload.py), the refine pass started by hand or by  *)
(* the end of a recording (api/refine.py, core/refine.py), the slot only   *)
(* max_parallel_passes of them hold (core/batch.py), deletion, and what a  *)
(* crash leaves for the next start (Store.recover_statuses).               *)
(*                                                                         *)
(* One action is one stretch of the event loop between two awaits, with    *)
(* the one store call it awaits.  A store call is one atomic step here;    *)
(* SharedConnection looks inside it.                                       *)
(***************************************************************************)
EXTENDS JobRegistry

CONSTANTS
    Requests,    \* POST /sessions/{id}/refine handlers that may overlap
    PassLimit,   \* session.max_parallel_passes
    StoreFails,  \* may a store call raise?
    BuildFails,  \* may constructing the upload's translator raise?
    MaxCreated,  \* bound: jobs created between two starts of the engine
    MaxCrashes   \* bound: crashes

ASSUME PassesAssumption ==
    /\ PassLimit \in Nat \ {0}
    /\ StoreFails \in BOOLEAN
    /\ BuildFails \in BOOLEAN
    /\ MaxCreated \in Nat
    /\ MaxCrashes \in Nat
    /\ Requests \cap Sessions = {}

VARIABLES
    row,      \* row[s]: the sessions table, with what its segments are
    wav,      \* wav[s]: is there a recording file?
    task,     \* task[j]: where the coroutine of job j is
    holders,  \* the jobs between acquiring and releasing the pass slot
    queue,    \* the jobs waiting for it, first come first served
    caller,   \* what each caller of refine.launch is doing
    live,     \* live[s]: where the live connection of session s is
    origin,   \* history: what a session id was first used for
    deleted,  \* history: the sessions a user has deleted
    crashes

storeVars   == <<row, wav>>
slotVars    == <<holders, queue>>
historyVars == <<origin, deleted>>

vars == <<jobs, kept, row, wav, task, holders, queue, caller, live,
          origin, deleted, crashes>>

-----------------------------------------------------------------------------
(* sessions.status, or no row at all. *)
Status == {"absent", "recording", "pending", "processing", "ready", "failed"}

(* What the session's segments are: nothing yet, the live transcript, part *)
(* of an upload's, or the result of a whole-file pass.                     *)
Text == {"none", "live", "partial", "whole"}

Row    == [status : Status, text : Text, refined : BOOLEAN]
Absent == [status |-> "absent", text |-> "none", refined |-> FALSE]

(* unspawned  - refine.launch has created the job, not yet its task        *)
(* spawned    - an upload's task before its first step                     *)
(* decoding   - an upload decodes its files                                *)
(* queueing   - about to ask for the slot                                  *)
(* waiting    - in the slot's queue                                        *)
(* claimed    - holds the slot, the status still says pending              *)
(* working    - transcribing, translating                                  *)
(* swapped    - a refine pass has replaced the rows                        *)
(* written    - an upload has written its rows and released the slot       *)
(* refined    - mark_refined has been committed                            *)
(* failing    - an exception has left the slot                             *)
(* failed     - the failure has been recorded, or could not be             *)
(* summing    - a minutes job at work                                      *)
(* ended      - the runner has returned                                    *)
(* dead       - the coroutine died without settling its job                *)
TaskPc == {"unspawned", "spawned", "decoding", "queueing", "waiting", "claimed",
           "working", "swapped", "written", "refined", "failing", "failed",
           "summing", "ended", "dead"}

Callers  == Requests \cup Sessions
CallerPc == {"idle", "fetch", "read", "created"}
Caller   == [pc : CallerPc, session : Sessions \cup {NoSession},
             seen : Status, job : Nat]
Idle     == [pc |-> "idle", session |-> NoSession, seen |-> "absent", job |-> 0]

TypeOK ==
    /\ RegistryTypeOK
    /\ row \in [Sessions -> Row]
    /\ wav \in [Sessions -> BOOLEAN]
    /\ task \in Seq(TaskPc)
    /\ Len(task) = Len(jobs)
    /\ holders \subseteq 1..Len(jobs)
    /\ queue \in Seq(1..Len(jobs))
    /\ caller \in [Callers -> Caller]
    /\ live \in [Sessions -> {"none", "opened", "on", "off"}]
    /\ origin \in [Sessions -> {"unused", "live", "upload"}]
    /\ deleted \subseteq Sessions
    /\ crashes \in Nat

Init ==
    /\ RegistryInit
    /\ row = [s \in Sessions |-> Absent]
    /\ wav = [s \in Sessions |-> FALSE]
    /\ task = <<>>
    /\ holders = {}
    /\ queue = <<>>
    /\ caller = [c \in Callers |-> Idle]
    /\ live = [s \in Sessions |-> "none"]
    /\ origin = [s \in Sessions |-> "unused"]
    /\ deleted = {}
    /\ crashes = 0

-----------------------------------------------------------------------------
Exists(s)   == row[s].status # "absent"
InFlight(s) == row[s].status \in {"pending", "processing"}

(* Mutant: a status is written as an upsert. *)
SetStatusUpserts(s, status) == row' = [row EXCEPT ![s].status = status]

(* UPDATE sessions SET status = ... WHERE id = s: no row, no effect. *)
SetStatus(s, status) ==
    row' = IF Exists(s) THEN [row EXCEPT ![s].status = status] ELSE row

SessionOf(j) == jobs[j].session
IsPass(j)    == jobs[j].kind \in {"refine", "upload"}

AtStep(j, pc) == j \in 1..Len(task) /\ task[j] = pc
Goto(j, pc)   == task' = [task EXCEPT ![j] = pc]

(* A job and the coroutine that runs it, created together. *)
Launch(k, s, pc) ==
    /\ Len(jobs) < MaxCreated
    /\ Create(k, s)
    /\ task' = Append(task, pc)

SlotFree == Cardinality(holders) < PassLimit /\ queue = <<>>

-----------------------------------------------------------------------------
(* The live connection.  Session ids are the client's and always new, see  *)
(* startNewSession in the web client.                                      *)

(* The pipeline is up and the WAV writer opens its file; failing to open   *)
(* it is not fatal.                                                        *)
Open(s) ==
    /\ origin[s] = "unused"
    /\ origin' = [origin EXCEPT ![s] = "live"]
    /\ live' = [live EXCEPT ![s] = "opened"]
    /\ \E opens \in BOOLEAN : wav' = [wav EXCEPT ![s] = opens]
    /\ UNCHANGED <<registryVars, row, task, slotVars, caller, deleted, crashes>>

(* upsert_session(status="recording").  When it fails the session is live  *)
(* without a row, and _finish_session will not be called.                  *)
Record(s) ==
    /\ live[s] = "opened"
    /\ live' = [live EXCEPT ![s] = "on"]
    /\ \/ row' = [row EXCEPT ![s] = [Absent EXCEPT !.status = "recording"]]
       \/ StoreFails /\ UNCHANGED row
    /\ UNCHANGED <<registryVars, wav, task, slotVars, caller, historyVars, crashes>>

(* The event pump persists a segment: nothing to write to without a row.   *)
Speech(s) ==
    /\ live[s] = "on"
    /\ row[s].text = "none"
    /\ Exists(s)
    /\ row' = [row EXCEPT ![s].text = "live"]
    /\ UNCHANGED <<registryVars, wav, task, slotVars, caller, live, historyVars, crashes>>

(* Stop or disconnect: the session leaves recording, and the refine pass   *)
(* is considered when it was asked for (refine_after_stop, with audio and  *)
(* speech recorded).  If the status cannot be written it is not.           *)
Finish(s) ==
    /\ live[s] = "on"
    /\ live' = [live EXCEPT ![s] = "off"]
    /\ \/ /\ SetStatus(s, "ready")
          /\ \E asked \in BOOLEAN :
                caller' = IF asked /\ wav[s]
                          THEN [caller EXCEPT ![s] = [Idle EXCEPT !.pc = "fetch", !.session = s]]
                          ELSE caller
       \/ /\ StoreFails
          /\ UNCHANGED <<row, caller>>
    /\ UNCHANGED <<registryVars, wav, task, slotVars, historyVars, crashes>>

-----------------------------------------------------------------------------
(* refine.launch, called by a request or by the end of a live session. *)

(* get_session: what the caller decides on from now on.  No row, no pass.  *)
Read(c, s) ==
    /\ \/ c \in Requests /\ caller[c].pc = "idle"
       \/ c = s /\ caller[c].pc = "fetch"
    /\ caller' = [caller EXCEPT ![c] =
                    IF Exists(s)
                    THEN [pc |-> "read", session |-> s, seen |-> row[s].status, job |-> 0]
                    ELSE Idle]
    /\ UNCHANGED <<registryVars, storeVars, task, slotVars, live, historyVars, crashes>>

Busy(s) == ActiveFor(s) # {}

(* RefineError: busy, recording or no_recording. *)
Refuse(c) ==
    LET s == caller[c].session
    IN  /\ caller[c].pc = "read"
        /\ Busy(s) \/ caller[c].seen = "recording" \/ ~wav[s]
        /\ caller' = [caller EXCEPT ![c] = Idle]
        /\ UNCHANGED <<registryVars, storeVars, task, slotVars, live, historyVars, crashes>>

(* Mutant: a pass may start while the session is being recorded. *)
AcceptRecording(c) ==
    LET s == caller[c].session
    IN  /\ caller[c].pc = "read"
        /\ ~Busy(s)
        /\ wav[s]
        /\ Launch("refine", s, "unspawned")
        /\ caller' = [caller EXCEPT ![c].pc = "created", ![c].job = NextJob]
        /\ UNCHANGED <<storeVars, slotVars, live, historyVars, crashes>>

(* Mutant: nobody asks whether the session is busy. *)
AcceptBusy(c) ==
    LET s == caller[c].session
    IN  /\ caller[c].pc = "read"
        /\ caller[c].seen # "recording"
        /\ wav[s]
        /\ Launch("refine", s, "unspawned")
        /\ caller' = [caller EXCEPT ![c].pc = "created", ![c].job = NextJob]
        /\ UNCHANGED <<storeVars, slotVars, live, historyVars, crashes>>

(* RefineError is not raised: the job is created. *)
Accept(c) ==
    LET s == caller[c].session
    IN  /\ caller[c].pc = "read"
        /\ ~Busy(s)
        /\ caller[c].seen # "recording"
        /\ wav[s]
        /\ Launch("refine", s, "unspawned")
        /\ caller' = [caller EXCEPT ![c].pc = "created", ![c].job = NextJob]
        /\ UNCHANGED <<storeVars, slotVars, live, historyVars, crashes>>

(* Mutant: the session says processing before the pass has the slot. *)
SpawnProcessing(c) ==
    LET j == caller[c].job
    IN  /\ caller[c].pc = "created"
        /\ caller' = [caller EXCEPT ![c] = Idle]
        /\ \/ SetStatus(caller[c].session, "processing") /\ Goto(j, "queueing")
           \/ StoreFails /\ Goto(j, "dead") /\ UNCHANGED row
        /\ UNCHANGED <<registryVars, wav, slotVars, live, historyVars, crashes>>

(* set_session_status(pending), then the runner's task.  If the write      *)
(* raises, launch raises: the job exists and nobody will ever run it.      *)
Spawn(c) ==
    LET j == caller[c].job
    IN  /\ caller[c].pc = "created"
        /\ caller' = [caller EXCEPT ![c] = Idle]
        /\ \/ SetStatus(caller[c].session, "pending") /\ Goto(j, "queueing")
           \/ StoreFails /\ Goto(j, "dead") /\ UNCHANGED row
        /\ UNCHANGED <<registryVars, wav, slotVars, live, historyVars, crashes>>

-----------------------------------------------------------------------------
(* The pass slot: an asyncio.Semaphore, first come first served. *)

(* whole_file_slot(): take a free slot or join the queue. *)
EnterSlot(j) ==
    /\ AtStep(j, "queueing")
    /\ IF SlotFree
       THEN /\ holders' = holders \cup {j}
            /\ Goto(j, "claimed")
            /\ UNCHANGED queue
       ELSE /\ queue' = Append(queue, j)
            /\ Goto(j, "waiting")
            /\ UNCHANGED holders
    /\ UNCHANGED <<registryVars, storeVars, caller, live, historyVars, crashes>>

(* Mutant: the pass that is given the slot stays in the queue. *)
GrantKeepsHead(j) ==
    /\ queue # <<>>
    /\ j = Head(queue)
    /\ Cardinality(holders) < PassLimit
    /\ holders' = holders \cup {j}
    /\ Goto(j, "claimed")
    /\ UNCHANGED <<registryVars, storeVars, queue, caller, live, historyVars, crashes>>

(* A released slot goes to the head of the queue. *)
Grant(j) ==
    /\ queue # <<>>
    /\ j = Head(queue)
    /\ Cardinality(holders) < PassLimit
    /\ holders' = holders \cup {j}
    /\ queue' = Tail(queue)
    /\ Goto(j, "claimed")
    /\ UNCHANGED <<registryVars, storeVars, caller, live, historyVars, crashes>>

(* Mutant: whoever is through the gate keeps the slot. *)
ReleaseNothing(j) == holders' = holders \cup {j}
Release(j) == holders' = holders \ {j}

(* set_session_status(processing), first thing under the slot. *)
SetProcessing(j) ==
    /\ AtStep(j, "claimed")
    /\ SetStatus(SessionOf(j), "processing")
    /\ Goto(j, "working")
    /\ UNCHANGED <<registryVars, wav, slotVars, caller, live, historyVars, crashes>>

(* Mutant: an exception takes the slot with it. *)
PassRaisesHolding(j) ==
    /\ AtStep(j, "working") \/ AtStep(j, "decoding")
    /\ Goto(j, "failing")
    /\ UNCHANGED <<registryVars, storeVars, slotVars, caller, live, historyVars, crashes>>

(* An exception anywhere under the slot, or in the store calls after it:   *)
(* the slot is released on the way out.                                    *)
PassRaises(j) ==
    /\ \/ AtStep(j, "working")
       \/ AtStep(j, "decoding")
       \/ StoreFails /\ \E pc \in {"claimed", "swapped", "written"} : AtStep(j, pc)
    /\ Goto(j, "failing")
    /\ Release(j)
    /\ UNCHANGED <<registryVars, storeVars, queue, caller, live, historyVars, crashes>>

(* Mutant: a job's word for failure used for a session. *)
SetFailedWrongWord(j) ==
    /\ AtStep(j, "failing")
    /\ Goto(j, "failed")
    /\ SetStatus(SessionOf(j), "error")
    /\ UNCHANGED <<registryVars, wav, slotVars, caller, live, historyVars, crashes>>

(* set_session_status(failed); a failure to record the failure is logged.  *)
SetFailed(j) ==
    /\ AtStep(j, "failing")
    /\ Goto(j, "failed")
    /\ \/ SetStatus(SessionOf(j), "failed")
       \/ StoreFails /\ UNCHANGED row
    /\ UNCHANGED <<registryVars, wav, slotVars, caller, live, historyVars, crashes>>

(* registry.fail and the end of the runner. *)
FailJob(j) ==
    /\ AtStep(j, "failed")
    /\ Fail(j)
    /\ Goto(j, "ended")
    /\ UNCHANGED <<storeVars, slotVars, caller, live, historyVars, crashes>>

(* Mutant: the session is stamped before its rows are replaced. *)
MarkRefinedEarly(j) ==
    LET s == SessionOf(j)
    IN  /\ AtStep(j, "working") \/ AtStep(j, "written")
        /\ row' = IF Exists(s)
                  THEN [row EXCEPT ![s].status = "ready", ![s].refined = TRUE]
                  ELSE row
        /\ Goto(j, "refined")
        /\ UNCHANGED <<registryVars, wav, slotVars, caller, live, historyVars, crashes>>

(* mark_refined(): the status is ready again. *)
MarkRefined(j) ==
    LET s == SessionOf(j)
    IN  /\ AtStep(j, "swapped") \/ AtStep(j, "written")
        /\ row' = IF Exists(s)
                  THEN [row EXCEPT ![s].status = "ready", ![s].refined = TRUE]
                  ELSE row
        /\ Goto(j, "refined")
        /\ UNCHANGED <<registryVars, wav, slotVars, caller, live, historyVars, crashes>>

(* registry.complete.  A refine pass leaves the slot on the way; an upload *)
(* left it before finalizing.                                              *)
CompleteJob(j) ==
    /\ AtStep(j, "refined")
    /\ Complete(j)
    /\ Release(j)
    /\ Goto(j, "ended")
    /\ UNCHANGED <<storeVars, queue, caller, live, historyVars, crashes>>

-----------------------------------------------------------------------------
(* The refine pass (refine_session). *)

(* replace_segments, once the recording has been read and transcribed.     *)
(* Rows cannot be inserted for a session that is gone (foreign key), so    *)
(* there only an empty transcript gets through.                            *)
ReplaceSegments(j) ==
    LET s == SessionOf(j)
    IN  /\ AtStep(j, "working")
        /\ jobs[j].kind = "refine"
        /\ wav[s]
        /\ row' = IF Exists(s) THEN [row EXCEPT ![s].text = "whole"] ELSE row
        /\ Goto(j, "swapped")
        /\ UNCHANGED <<registryVars, wav, slotVars, caller, live, historyVars, crashes>>

-----------------------------------------------------------------------------
(* Uploads. *)

(* POST /sessions/upload: a new session id, a job, and its task. *)
Upload(s) ==
    /\ origin[s] = "unused"
    /\ origin' = [origin EXCEPT ![s] = "upload"]
    /\ Launch("upload", s, "spawned")
    /\ UNCHANGED <<storeVars, slotVars, caller, live, deleted, crashes>>

(* The runner constructs its translator before it enters its try block:    *)
(* what is raised there ends the task and nothing settles the job.         *)
BuildTranslator(j) ==
    /\ AtStep(j, "spawned")
    /\ \/ Goto(j, "decoding")
       \/ BuildFails /\ Goto(j, "dead")
    /\ UNCHANGED <<registryVars, storeVars, slotVars, caller, live, historyVars, crashes>>

(* Decoded: write the recording, then the row, which is pending. *)
UpsertUpload(j) ==
    LET s == SessionOf(j)
    IN  /\ AtStep(j, "decoding")
        /\ wav' = [wav EXCEPT ![s] = TRUE]
        /\ \/ /\ row' = [row EXCEPT ![s] = [Absent EXCEPT !.status = "pending"]]
              /\ Goto(j, "queueing")
           \/ StoreFails /\ Goto(j, "failing") /\ UNCHANGED row
        /\ UNCHANGED <<registryVars, slotVars, caller, live, historyVars, crashes>>

(* One paragraph transcribed, translated and written. *)
WriteParagraph(j) ==
    LET s == SessionOf(j)
    IN  /\ AtStep(j, "working")
        /\ jobs[j].kind = "upload"
        /\ row[s].text = "none"
        /\ Exists(s)
        /\ row' = [row EXCEPT ![s].text = "partial"]
        /\ UNCHANGED <<registryVars, wav, task, slotVars, caller, live, historyVars, crashes>>

(* The last paragraph is in; the slot is released before finalizing. *)
WriteLast(j) ==
    LET s == SessionOf(j)
    IN  /\ AtStep(j, "working")
        /\ jobs[j].kind = "upload"
        /\ row' = IF Exists(s) THEN [row EXCEPT ![s].text = "whole"] ELSE row
        /\ Goto(j, "written")
        /\ Release(j)
        /\ UNCHANGED <<registryVars, wav, queue, caller, live, historyVars, crashes>>

-----------------------------------------------------------------------------
(* Minutes: not a pass, but a job on the session, which refine.launch sees. *)
StartMinutes(s) ==
    /\ Exists(s)
    /\ row[s].text # "none"
    /\ ActiveForKind(s, "minutes") = {}
    /\ Launch("minutes", s, "summing")
    /\ UNCHANGED <<storeVars, slotVars, caller, live, historyVars, crashes>>

EndMinutes(j) ==
    /\ AtStep(j, "summing")
    /\ Complete(j) \/ Fail(j)
    /\ Goto(j, "ended")
    /\ UNCHANGED <<storeVars, slotVars, caller, live, historyVars, crashes>>

-----------------------------------------------------------------------------
(* DELETE /sessions/{id}: the row and its segments, then the recording,    *)
(* even without a row.  Nothing asks whether a pass is running on it.      *)
Delete(s) ==
    /\ Exists(s) \/ wav[s]
    /\ row' = [row EXCEPT ![s] = Absent]
    /\ wav' = [wav EXCEPT ![s] = FALSE]
    /\ deleted' = IF Exists(s) THEN deleted \cup {s} ELSE deleted
    /\ UNCHANGED <<registryVars, task, slotVars, caller, live, origin, crashes>>

(* Mutants of the recovery: the queued passes are overlooked; everything   *)
(* is declared ready.                                                      *)
RecoveredNotPending(r) ==
    CASE r.status = "recording" -> [r EXCEPT !.status = "ready"]
      [] r.status = "processing" -> [r EXCEPT !.status = "failed"]
      [] OTHER -> r

RecoveredReady(r) ==
    IF r.status \in {"recording", "pending", "processing"} THEN [r EXCEPT !.status = "ready"] ELSE r

(* recover_statuses(), run once at startup. *)
Recovered(r) ==
    CASE r.status = "recording" -> [r EXCEPT !.status = "ready"]
      [] r.status \in {"pending", "processing"} -> [r EXCEPT !.status = "failed"]
      [] OTHER -> r

(* The engine dies and is started again: everything in memory is gone.     *)
CrashAndRestart ==
    /\ crashes < MaxCrashes
    /\ crashes' = crashes + 1
    /\ row' = [s \in Sessions |-> Recovered(row[s])]
    /\ jobs' = <<>>
    /\ kept' = {}
    /\ task' = <<>>
    /\ holders' = {}
    /\ queue' = <<>>
    /\ caller' = [c \in Callers |-> Idle]
    /\ live' = [s \in Sessions |-> IF live[s] = "none" THEN "none" ELSE "off"]
    /\ UNCHANGED <<wav, historyVars>>

-----------------------------------------------------------------------------
SessionStep(s) ==
    \/ Open(s)
    \/ Record(s)
    \/ Speech(s)
    \/ Finish(s)
    \/ Upload(s)
    \/ StartMinutes(s)
    \/ Delete(s)

CallerStep(c) ==
    \/ \E s \in Sessions : Read(c, s)
    \/ Refuse(c)
    \/ Accept(c)
    \/ Spawn(c)

PassStep(j) ==
    \/ EnterSlot(j)
    \/ Grant(j)
    \/ SetProcessing(j)
    \/ PassRaises(j)
    \/ SetFailed(j)
    \/ FailJob(j)
    \/ ReplaceSegments(j)
    \/ MarkRefined(j)
    \/ CompleteJob(j)
    \/ BuildTranslator(j)
    \/ UpsertUpload(j)
    \/ WriteParagraph(j)
    \/ WriteLast(j)

Next ==
    \/ \E s \in Sessions : SessionStep(s)
    \/ \E c \in Callers : CallerStep(c)
    \/ \E j \in 1..Len(jobs) : PassStep(j) \/ EndMinutes(j)
    \/ CrashAndRestart

Spec == Init /\ [][Next]_vars

-----------------------------------------------------------------------------
(* Fairness: the event loop runs what is ready to run, and the work a pass *)
(* hands to a thread comes back with a result or an exception.  Nothing is *)
(* assumed of users: no one has to ask, stop, delete or crash.             *)
HandlerStep(c) ==
    \/ c \in Sessions /\ Read(c, c)
    \/ Refuse(c)
    \/ Accept(c)
    \/ Spawn(c)

Fairness ==
    /\ \A j \in 1..MaxCreated : WF_vars(PassStep(j) \/ EndMinutes(j))
    /\ \A c \in Callers : WF_vars(HandlerStep(c))

FairSpec == Spec /\ Fairness

-----------------------------------------------------------------------------
(* Does a pass at this step hold the slot?  A refine pass gives it back as *)
(* it completes, an upload once its rows are written.                      *)
Holding(pc, kind) ==
    \/ pc \in {"claimed", "working", "swapped"}
    \/ pc = "refined" /\ kind = "refine"

HoldsSlot(j) == Holding(task[j], jobs[j].kind)

Unfinished(j) == IsPass(j) /\ task[j] \notin {"ended", "dead"}

PassesOn(s) == {j \in 1..Len(jobs) : Unfinished(j) /\ SessionOf(j) = s}

(* "One whole-file pass at a time": no more passes than the limit are past *)
(* the gate, and the gate knows exactly who they are, so that no way out   *)
(* of a pass (a result, an exception, a deleted session) keeps its slot or *)
(* gives it back twice.                                                    *)
SlotAccounting ==
    /\ holders = {j \in 1..Len(jobs) : HoldsSlot(j)}
    /\ Cardinality(holders) <= PassLimit

(* The passes that wait are exactly the queued ones, each queued once: a   *)
(* released slot can always be granted, and a pass is never forgotten.     *)
QueueAccounting ==
    /\ {queue[i] : i \in 1..Len(queue)} = {j \in 1..Len(jobs) : task[j] = "waiting"}
    /\ \A i, k \in 1..Len(queue) : queue[i] = queue[k] => i = k

(* Two passes never work on the same session, though the check for a       *)
(* running one and the start of the next are separated by store calls      *)
(* (refine.launch answers "busy").                                         *)
OnePassPerSession ==
    \A s \in Sessions : \A j, k \in PassesOn(s) : j = k

(* A session that says pending or processing has a running pass behind it  *)
(* that the registry can find, so that its progress can be followed and a  *)
(* second one refused; after a crash too.                                  *)
InFlightHasJob ==
    \A s \in Sessions : InFlight(s) => \E j \in ActiveFor(s) : IsPass(j)

(* A queued recording never says processing: the status does so only once  *)
(* a pass on that session has been given the slot and has not yet settled  *)
(* it.                                                                     *)
ProcessingIsWorking ==
    \A s \in Sessions :
        row[s].status = "processing" =>
            \E j \in PassesOn(s) : task[j] \in {"working", "swapped", "written", "failing"}

(* No pass runs on a session that is being recorded. *)
NoPassWhileRecording ==
    \A s \in Sessions : row[s].status = "recording" => PassesOn(s) = {}

(* A session says recording only while its live connection is open; a      *)
(* crash does not leave it there.                                          *)
RecordingIsLive ==
    \A s \in Sessions : row[s].status = "recording" => live[s] = "on"

(* Half of an upload is never presented as a finished session, whichever   *)
(* step it stopped at.                                                     *)
PartialNeverReady ==
    \A s \in Sessions : row[s].text = "partial" => row[s].status # "ready"

(* refined_at says that the transcript comes from a whole-recording pass   *)
(* (Store.mark_refined).                                                   *)
RefinedIsWhole ==
    \A s \in Sessions : row[s].refined => row[s].text = "whole"

(* A deleted session stays deleted, whatever was running on it. *)
NoResurrection ==
    \A s \in deleted : row[s] = Absent

(* Every session in flight settles: nobody waits forever for the slot, and *)
(* no failure leaves a session at pending or processing.                   *)
InFlightSettles ==
    \A s \in Sessions : InFlight(s) ~> ~InFlight(s)

(* A job does not stay at "running": its stream ends, and the session it   *)
(* is on is not busy forever.                                              *)
JobSettles ==
    \A j \in 1..MaxCreated :
        (j \in kept /\ jobs[j].status = "running")
            ~> ~(j \in kept /\ jobs[j].status = "running")

(* What a status says of a session is so over any crash: recording means   *)
(* that it is being recorded, and ready that its transcript is not half an *)
(* upload (Store.recover_statuses).                                        *)
StatusIsTrue ==
    /\ RecordingIsLive
    /\ PartialNeverReady

(* Everything the passes have begun comes to an end, for the session and   *)
(* for those that follow the job.                                          *)
EverythingSettles ==
    /\ InFlightSettles
    /\ JobSettles
=============================================================================
