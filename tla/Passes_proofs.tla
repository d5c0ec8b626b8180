--------------------------- MODULE Passes_proofs ---------------------------
(***************************************************************************)
(* What holds of Passes for every set of sessions and of callers, every    *)
(* limit, and any number of crashes.                                       *)
(*                                                                         *)
(* First types, the slot and its queue (GateInv).  Then why two passes     *)
(* never meet on one session, why none runs on a session being recorded,   *)
(* and why a session in flight always has a running job: this rests on the *)
(* registry keeping every job (MaxCreated <= MaxJobs), for refine.launch   *)
(* relies on it to know that a session is busy.  Last what becomes of a    *)
(* row, which does not: a deleted one stays deleted, refined means whole,  *)
(* and a status is true.                                                   *)
(***************************************************************************)
EXTENDS Passes, FiniteSetTheorems, TLAPS

-----------------------------------------------------------------------------
(* The registry: what creating and settling a job do to it. *)

(* A created job is the newest one and running; the others are unchanged.  *)
LEMMA CreateFacts ==
    ASSUME RegistryTypeOK, NEW k \in JobKind, NEW s \in Sessions \cup {NoSession},
           Create(k, s)
    PROVE  /\ RegistryTypeOK'
           /\ Len(jobs') = Len(jobs) + 1
           /\ jobs'[NextJob] = [kind |-> k, session |-> s, status |-> "running"]
           /\ \A j \in 1..Len(jobs) : jobs'[j] = jobs[j]
<1> DEFINE new == [kind |-> k, session |-> s, status |-> "running"]
<1>1. new \in Job
  BY DEF Job, JobStatus
<1>2. /\ jobs' \in Seq(Job)
      /\ Len(jobs') = Len(jobs) + 1
      /\ jobs'[NextJob] = new
      /\ \A j \in 1..Len(jobs) : jobs'[j] = jobs[j]
  BY <1>1 DEF RegistryTypeOK, Create, NextJob
<1>3. Len(jobs) \in Nat /\ kept \subseteq 1..Len(jobs)
  BY DEF RegistryTypeOK
<1>4. kept' \subseteq kept \cup {Len(jobs) + 1}
  BY DEF Create, NextJob
<1>5. kept' \subseteq 1..(Len(jobs) + 1)
  BY <1>3, <1>4
<1> QED
  BY <1>2, <1>5 DEF RegistryTypeOK

(* Settling a job changes the status of that job at most. *)
LEMMA SettleFacts ==
    ASSUME RegistryTypeOK, NEW j, NEW status \in JobStatus, Settle(j, status)
    PROVE  /\ RegistryTypeOK'
           /\ Len(jobs') = Len(jobs)
           /\ \A i \in 1..Len(jobs) :
                 /\ jobs'[i].kind = jobs[i].kind
                 /\ jobs'[i].session = jobs[i].session
                 /\ jobs'[i].status = IF i = j /\ j \in kept THEN status ELSE jobs[i].status
<1>1. CASE j \in kept
  <2>1. j \in 1..Len(jobs)
    BY <1>1 DEF RegistryTypeOK
  <2>2. [jobs[j] EXCEPT !.status = status] \in Job
    <3>1. jobs[j] \in Job
      BY <2>1 DEF RegistryTypeOK
    <3> QED
      BY <3>1 DEF Job
  <2>3. jobs' = [jobs EXCEPT ![j] = [jobs[j] EXCEPT !.status = status]]
    BY <1>1 DEF Settle
  <2>4. jobs' \in Seq(Job) /\ Len(jobs') = Len(jobs)
    BY <2>1, <2>2, <2>3 DEF RegistryTypeOK
  <2> QED
    BY <1>1, <2>1, <2>3, <2>4 DEF RegistryTypeOK, Settle, Job
<1>2. CASE j \notin kept
  BY <1>2 DEF Settle, RegistryTypeOK
<1> QED
  BY <1>1, <1>2

-----------------------------------------------------------------------------
(* Coroutines: a step of one, and the birth of one. *)

LEMMA GotoFacts ==
    ASSUME TypeOK, NEW j, NEW pc \in TaskPc, Goto(j, pc)
    PROVE  /\ task' \in Seq(TaskPc)
           /\ Len(task') = Len(task)
           /\ \A i \in 1..Len(task) : task'[i] = IF i = j THEN pc ELSE task[i]
<1>1. task \in Seq(TaskPc) /\ task' = [task EXCEPT ![j] = pc]
  BY DEF TypeOK, Goto
<1>2. CASE j \in 1..Len(task)
  BY <1>1, <1>2
<1>3. CASE j \notin 1..Len(task)
  <2>1. task' = task
    BY <1>1, <1>3
  <2> QED
    BY <1>1, <1>3, <2>1
<1> QED
  BY <1>2, <1>3

LEMMA LaunchFacts ==
    ASSUME TypeOK, NEW k \in JobKind, NEW s \in Sessions \cup {NoSession},
           NEW pc \in TaskPc, Launch(k, s, pc)
    PROVE  /\ RegistryTypeOK'
           /\ Len(jobs) \in Nat /\ Len(jobs) < MaxCreated
           /\ Len(jobs') = Len(jobs) + 1
           /\ task' \in Seq(TaskPc)
           /\ Len(task') = Len(jobs')
           /\ \A i \in 1..Len(jobs) : jobs'[i] = jobs[i] /\ task'[i] = task[i]
           /\ jobs'[NextJob] = [kind |-> k, session |-> s, status |-> "running"]
           /\ task'[NextJob] = pc
<1>1. RegistryTypeOK /\ Create(k, s)
  BY DEF TypeOK, Launch
<1>2. /\ RegistryTypeOK'
      /\ Len(jobs') = Len(jobs) + 1
      /\ jobs'[NextJob] = [kind |-> k, session |-> s, status |-> "running"]
      /\ \A i \in 1..Len(jobs) : jobs'[i] = jobs[i]
  BY <1>1, CreateFacts
<1>3. /\ Len(jobs) \in Nat
      /\ Len(jobs) < MaxCreated
      /\ Len(task) = Len(jobs)
      /\ task \in Seq(TaskPc)
      /\ task' = Append(task, pc)
  BY DEF TypeOK, RegistryTypeOK, Launch
<1>4. /\ task' \in Seq(TaskPc)
      /\ Len(task') = Len(task) + 1
      /\ task'[Len(task) + 1] = pc
      /\ \A i \in 1..Len(task) : task'[i] = task[i]
  BY <1>3
<1> QED
  BY <1>2, <1>3, <1>4 DEF NextJob

(* Sets of jobs and queues of them stay within the jobs as those grow. *)
LEMMA QueueGrows ==
    ASSUME NEW n \in Nat, NEW m \in Nat, n <= m, NEW q \in Seq(1..n)
    PROVE  q \in Seq(1..m)
<1>1. \A i \in 1..Len(q) : q[i] \in 1..m
  OBVIOUS
<1> QED
  BY <1>1

-----------------------------------------------------------------------------
(* Type correctness. *)

(* The part of the state that is not about jobs. *)
SessionTypes ==
    /\ row \in [Sessions -> Row]
    /\ wav \in [Sessions -> BOOLEAN]
    /\ live \in [Sessions -> {"none", "opened", "on", "off"}]
    /\ origin \in [Sessions -> {"unused", "live", "upload"}]
    /\ deleted \subseteq Sessions
    /\ crashes \in Nat

(* The part that is. *)
JobTypes ==
    /\ RegistryTypeOK
    /\ task \in Seq(TaskPc)
    /\ Len(task) = Len(jobs)
    /\ holders \subseteq 1..Len(jobs)
    /\ queue \in Seq(1..Len(jobs))

LEMMA TypeParts ==
    TypeOK <=> SessionTypes /\ JobTypes /\ caller \in [Callers -> Caller]
BY DEF TypeOK, SessionTypes, JobTypes

(* The jobs' types survive a step that leaves the registry alone ...       *)
LEMMA JobTypesSameJobs ==
    ASSUME JobTypes, UNCHANGED registryVars, task' \in Seq(TaskPc), Len(task') = Len(task),
           holders' \subseteq 1..Len(jobs), queue' \in Seq(1..Len(jobs))
    PROVE  JobTypes'
BY DEF JobTypes, RegistryTypeOK, registryVars

(* ... one that creates a job ...                                          *)
LEMMA JobTypesLaunch ==
    ASSUME TypeOK, NEW k \in JobKind, NEW s \in Sessions \cup {NoSession},
           NEW pc \in TaskPc, Launch(k, s, pc), UNCHANGED slotVars
    PROVE  JobTypes'
<1>1. /\ RegistryTypeOK'
      /\ task' \in Seq(TaskPc)
      /\ Len(task') = Len(jobs')
      /\ Len(jobs) \in Nat
      /\ Len(jobs') = Len(jobs) + 1
  BY LaunchFacts
<1>2. holders' \subseteq 1..Len(jobs')
  BY <1>1 DEF TypeOK, slotVars
<1>3. queue \in Seq(1..Len(jobs))
  BY DEF TypeOK
<1>4. queue' \in Seq(1..Len(jobs'))
  <2>1. Len(jobs') \in Nat /\ Len(jobs) <= Len(jobs')
    BY <1>1
  <2>2. queue \in Seq(1..Len(jobs'))
    BY <1>1, <1>3, <2>1, QueueGrows
  <2> QED
    BY <2>2 DEF slotVars
<1> QED
  BY <1>1, <1>2, <1>4 DEF JobTypes

(* ... and one that settles a job.                                         *)
LEMMA JobTypesSettle ==
    ASSUME JobTypes, NEW j, NEW status \in JobStatus, Settle(j, status),
           task' \in Seq(TaskPc), Len(task') = Len(task),
           holders' \subseteq holders, UNCHANGED queue
    PROVE  JobTypes'
<1>1. RegistryTypeOK' /\ Len(jobs') = Len(jobs)
  BY SettleFacts DEF JobTypes
<1> QED
  BY <1>1 DEF JobTypes

LEMMA RowFacts ==
    /\ Absent \in Row
    /\ \A status \in Status : [Absent EXCEPT !.status = status] \in Row
BY DEF Row, Absent, Status, Text

LEMMA SetStatusType ==
    ASSUME SessionTypes, NEW s, NEW status \in Status, SetStatus(s, status)
    PROVE  row' \in [Sessions -> Row]
<1>1. CASE s \in Sessions /\ Exists(s)
  <2>1. row' = [row EXCEPT ![s] = [row[s] EXCEPT !.status = status]]
    BY <1>1 DEF SetStatus
  <2>2. [row[s] EXCEPT !.status = status] \in Row
    BY <1>1 DEF SessionTypes, Row
  <2> QED
    BY <1>1, <2>1, <2>2 DEF SessionTypes
<1>2. CASE ~(s \in Sessions /\ Exists(s))
  <2>1. row' = row
    BY <1>2 DEF SetStatus, SessionTypes
  <2> QED
    BY <2>1 DEF SessionTypes
<1> QED
  BY <1>1, <1>2

LEMMA CallerFacts ==
    /\ Idle \in Caller
    /\ \A s \in Sessions : [Idle EXCEPT !.pc = "fetch", !.session = s] \in Caller
BY DEF Idle, Caller, CallerPc, Status

(* Every step keeps the state well typed. *)
LEMMA TypeStep == TypeOK /\ [Next]_vars => TypeOK'
<1> SUFFICES ASSUME TypeOK, [Next]_vars PROVE TypeOK'
  OBVIOUS
<1>0. SessionTypes /\ JobTypes /\ caller \in [Callers -> Caller]
  BY TypeParts
<1>1. ASSUME NEW s \in Sessions, Open(s) PROVE TypeOK'
  <2>1. SessionTypes'
    BY <1>0, <1>1 DEF Open, SessionTypes, historyVars
  <2>2. JobTypes'
    BY <1>0, <1>1, JobTypesSameJobs DEF Open, JobTypes, registryVars, slotVars
  <2>3. caller' \in [Callers -> Caller]
    BY <1>0, <1>1 DEF Open
  <2> QED
    BY <2>1, <2>2, <2>3 DEF TypeOK, SessionTypes, JobTypes
<1>2. ASSUME NEW s \in Sessions, Record(s) PROVE TypeOK'
  <2>1. SessionTypes'
    BY <1>0, <1>2, RowFacts DEF Record, SessionTypes, historyVars, Status
  <2>2. JobTypes'
    BY <1>0, <1>2, JobTypesSameJobs DEF Record, JobTypes, registryVars, slotVars
  <2>3. caller' \in [Callers -> Caller]
    BY <1>0, <1>2 DEF Record
  <2> QED
    BY <2>1, <2>2, <2>3 DEF TypeOK, SessionTypes, JobTypes
<1>3. ASSUME NEW s \in Sessions, Speech(s) PROVE TypeOK'
  <2>1. SessionTypes'
    BY <1>0, <1>3 DEF Speech, SessionTypes, historyVars, Row, Status, Text
  <2>2. JobTypes'
    BY <1>0, <1>3, JobTypesSameJobs DEF Speech, JobTypes, registryVars, slotVars
  <2>3. caller' \in [Callers -> Caller]
    BY <1>0, <1>3 DEF Speech
  <2> QED
    BY <2>1, <2>2, <2>3 DEF TypeOK, SessionTypes, JobTypes
<1>4. ASSUME NEW s \in Sessions, Finish(s) PROVE TypeOK'
  <2>1. SessionTypes'
    BY <1>0, <1>4 DEF Finish, SessionTypes, historyVars, SetStatus, Row, Status, Text
  <2>2. JobTypes'
    BY <1>0, <1>4, JobTypesSameJobs DEF Finish, JobTypes, registryVars, slotVars
  <2>3. caller' \in [Callers -> Caller]
    BY <1>0, <1>4, CallerFacts DEF Finish, Callers
  <2> QED
    BY <2>1, <2>2, <2>3 DEF TypeOK, SessionTypes, JobTypes
<1>5. ASSUME NEW s \in Sessions, Upload(s) PROVE TypeOK'
  <2>1. SessionTypes'
    BY <1>0, <1>5 DEF Upload, SessionTypes, storeVars
  <2>2. JobTypes'
    BY <1>0, <1>5, JobTypesLaunch DEF Upload, JobKind, TaskPc, slotVars
  <2>3. caller' \in [Callers -> Caller]
    BY <1>0, <1>5 DEF Upload
  <2> QED
    BY <2>1, <2>2, <2>3 DEF TypeOK, SessionTypes, JobTypes
<1>6. ASSUME NEW s \in Sessions, StartMinutes(s) PROVE TypeOK'
  <2>1. SessionTypes'
    BY <1>0, <1>6 DEF StartMinutes, SessionTypes, storeVars, historyVars
  <2>2. JobTypes'
    BY <1>0, <1>6, JobTypesLaunch DEF StartMinutes, JobKind, TaskPc, slotVars
  <2>3. caller' \in [Callers -> Caller]
    BY <1>0, <1>6 DEF StartMinutes
  <2> QED
    BY <2>1, <2>2, <2>3 DEF TypeOK, SessionTypes, JobTypes
<1>7. ASSUME NEW s \in Sessions, Delete(s) PROVE TypeOK'
  <2>1. SessionTypes'
    BY <1>0, <1>7 DEF Delete, SessionTypes, Row, Status, Text, Absent
  <2>2. JobTypes'
    BY <1>0, <1>7, JobTypesSameJobs DEF Delete, JobTypes, registryVars, slotVars
  <2>3. caller' \in [Callers -> Caller]
    BY <1>0, <1>7 DEF Delete
  <2> QED
    BY <2>1, <2>2, <2>3 DEF TypeOK, SessionTypes, JobTypes
<1>8. ASSUME NEW c \in Callers, NEW s \in Sessions, Read(c, s) PROVE TypeOK'
  <2>1. SessionTypes'
    BY <1>0, <1>8 DEF Read, SessionTypes, storeVars, historyVars
  <2>2. JobTypes'
    BY <1>0, <1>8, JobTypesSameJobs DEF Read, JobTypes, registryVars, slotVars
  <2>3. caller' \in [Callers -> Caller]
    BY <1>0, <1>8 DEF Read, Callers, Caller, CallerPc, Idle, SessionTypes, Exists, Row
  <2> QED
    BY <2>1, <2>2, <2>3 DEF TypeOK, SessionTypes, JobTypes
<1>9. ASSUME NEW c \in Callers, Refuse(c) PROVE TypeOK'
  <2>1. SessionTypes'
    BY <1>0, <1>9 DEF Refuse, SessionTypes, storeVars, historyVars
  <2>2. JobTypes'
    BY <1>0, <1>9, JobTypesSameJobs DEF Refuse, JobTypes, registryVars, slotVars
  <2>3. caller' \in [Callers -> Caller]
    BY <1>0, <1>9, CallerFacts DEF Refuse
  <2> QED
    BY <2>1, <2>2, <2>3 DEF TypeOK, SessionTypes, JobTypes
<1>10. ASSUME NEW c \in Callers, Accept(c) PROVE TypeOK'
  <2>1. SessionTypes'
    BY <1>0, <1>10 DEF Accept, SessionTypes, storeVars, historyVars
  <2>2. JobTypes'
    <3>1. caller[c].session \in Sessions \cup {NoSession}
      BY <1>0 DEF Caller
    <3> QED
      BY <1>10, <3>1, JobTypesLaunch DEF Accept, JobKind, TaskPc
  <2>3. caller' \in [Callers -> Caller]
    BY <1>0, <1>10 DEF Accept, Callers, Caller, CallerPc, Idle, NextJob, RegistryTypeOK
  <2> QED
    BY <2>1, <2>2, <2>3 DEF TypeOK, SessionTypes, JobTypes
<1>11. ASSUME NEW c \in Callers, Spawn(c) PROVE TypeOK'
  <2>1. SessionTypes'
    BY <1>0, <1>11, SetStatusType DEF Spawn, SessionTypes, historyVars, Status
  <2>2. JobTypes'
    BY <1>0, <1>11, GotoFacts, JobTypesSameJobs DEF Spawn, JobTypes, TypeOK, TaskPc, AtStep, registryVars, slotVars
  <2>3. caller' \in [Callers -> Caller]
    BY <1>0, <1>11, CallerFacts DEF Spawn
  <2> QED
    BY <2>1, <2>2, <2>3 DEF TypeOK, SessionTypes, JobTypes
<1>12. ASSUME NEW j \in 1..Len(jobs), EnterSlot(j) PROVE TypeOK'
  <2>1. SessionTypes'
    BY <1>0, <1>12 DEF EnterSlot, SessionTypes, storeVars, historyVars
  <2>2. JobTypes'
    <3>1. \E pc \in TaskPc : Goto(j, pc)
      BY <1>12 DEF EnterSlot, TaskPc
    <3>2. task' \in Seq(TaskPc) /\ Len(task') = Len(task)
      BY <3>1, GotoFacts
    <3>3. holders' \subseteq 1..Len(jobs)
      BY <1>0, <1>12 DEF EnterSlot, JobTypes
    <3>4. queue' \in Seq(1..Len(jobs))
      <4>1. queue \in Seq(1..Len(jobs)) /\ (queue' = queue \/ queue' = Append(queue, j))
        BY <1>0, <1>12 DEF EnterSlot, JobTypes
      <4> QED
        BY <1>12, <4>1
    <3> QED
      BY <1>0, <1>12, <3>2, <3>3, <3>4, JobTypesSameJobs DEF EnterSlot
  <2>3. caller' \in [Callers -> Caller]
    BY <1>0, <1>12 DEF EnterSlot
  <2> QED
    BY <2>1, <2>2, <2>3 DEF TypeOK, SessionTypes, JobTypes
<1>13. ASSUME NEW j \in 1..Len(jobs), Grant(j) PROVE TypeOK'
  <2>1. SessionTypes'
    BY <1>0, <1>13 DEF Grant, SessionTypes, storeVars, historyVars
  <2>2. JobTypes'
    <3>1. Goto(j, "claimed") /\ "claimed" \in TaskPc
      BY <1>13 DEF Grant, TaskPc
    <3>2. task' \in Seq(TaskPc) /\ Len(task') = Len(task)
      BY <3>1, GotoFacts
    <3>3. holders' \subseteq 1..Len(jobs)
      BY <1>0, <1>13 DEF Grant, JobTypes
    <3>4. queue' \in Seq(1..Len(jobs))
      BY <1>0, <1>13 DEF Grant, JobTypes
    <3> QED
      BY <1>0, <1>13, <3>2, <3>3, <3>4, JobTypesSameJobs DEF Grant
  <2>3. caller' \in [Callers -> Caller]
    BY <1>0, <1>13 DEF Grant
  <2> QED
    BY <2>1, <2>2, <2>3 DEF TypeOK, SessionTypes, JobTypes
<1>14. ASSUME NEW j \in 1..Len(jobs), SetProcessing(j) PROVE TypeOK'
  <2>1. SessionTypes'
    BY <1>0, <1>14 DEF SetProcessing, SessionTypes, historyVars, SetStatus, Row, Status, Text
  <2>2. JobTypes'
    BY <1>0, <1>14, GotoFacts, JobTypesSameJobs DEF SetProcessing, JobTypes, TypeOK, TaskPc, AtStep, registryVars, slotVars
  <2>3. caller' \in [Callers -> Caller]
    BY <1>0, <1>14 DEF SetProcessing
  <2> QED
    BY <2>1, <2>2, <2>3 DEF TypeOK, SessionTypes, JobTypes
<1>15. ASSUME NEW j \in 1..Len(jobs), PassRaises(j) PROVE TypeOK'
  <2>1. SessionTypes'
    BY <1>0, <1>15 DEF PassRaises, SessionTypes, storeVars, historyVars
  <2>2. JobTypes'
    BY <1>0, <1>15, GotoFacts, JobTypesSameJobs DEF PassRaises, JobTypes, TypeOK, TaskPc, AtStep, registryVars, slotVars, Release
  <2>3. caller' \in [Callers -> Caller]
    BY <1>0, <1>15 DEF PassRaises
  <2> QED
    BY <2>1, <2>2, <2>3 DEF TypeOK, SessionTypes, JobTypes
<1>16. ASSUME NEW j \in 1..Len(jobs), SetFailed(j) PROVE TypeOK'
  <2>1. SessionTypes'
    BY <1>0, <1>16 DEF SetFailed, SessionTypes, historyVars, SetStatus, Row, Status, Text
  <2>2. JobTypes'
    BY <1>0, <1>16, GotoFacts, JobTypesSameJobs DEF SetFailed, JobTypes, TypeOK, TaskPc, AtStep, registryVars, slotVars
  <2>3. caller' \in [Callers -> Caller]
    BY <1>0, <1>16 DEF SetFailed
  <2> QED
    BY <2>1, <2>2, <2>3 DEF TypeOK, SessionTypes, JobTypes
<1>17. ASSUME NEW j \in 1..Len(jobs), FailJob(j) PROVE TypeOK'
  <2>1. SessionTypes'
    BY <1>0, <1>17 DEF FailJob, SessionTypes, storeVars, historyVars
  <2>2. JobTypes'
    BY <1>0, <1>17, GotoFacts, JobTypesSettle DEF FailJob, JobTypes, TypeOK, TaskPc, JobStatus, AtStep, Complete, Fail, slotVars
  <2>3. caller' \in [Callers -> Caller]
    BY <1>0, <1>17 DEF FailJob
  <2> QED
    BY <2>1, <2>2, <2>3 DEF TypeOK, SessionTypes, JobTypes
<1>18. ASSUME NEW j \in 1..Len(jobs), MarkRefined(j) PROVE TypeOK'
  <2>1. SessionTypes'
    BY <1>0, <1>18 DEF MarkRefined, SessionTypes, historyVars, Row, Status, Text
  <2>2. JobTypes'
    BY <1>0, <1>18, GotoFacts, JobTypesSameJobs DEF MarkRefined, JobTypes, TypeOK, TaskPc, AtStep, registryVars, slotVars
  <2>3. caller' \in [Callers -> Caller]
    BY <1>0, <1>18 DEF MarkRefined
  <2> QED
    BY <2>1, <2>2, <2>3 DEF TypeOK, SessionTypes, JobTypes
<1>19. ASSUME NEW j \in 1..Len(jobs), CompleteJob(j) PROVE TypeOK'
  <2>1. SessionTypes'
    BY <1>0, <1>19 DEF CompleteJob, SessionTypes, storeVars, historyVars
  <2>2. JobTypes'
    BY <1>0, <1>19, GotoFacts, JobTypesSettle DEF CompleteJob, JobTypes, TypeOK, TaskPc, JobStatus, AtStep, Complete, Fail, slotVars, Release
  <2>3. caller' \in [Callers -> Caller]
    BY <1>0, <1>19 DEF CompleteJob
  <2> QED
    BY <2>1, <2>2, <2>3 DEF TypeOK, SessionTypes, JobTypes
<1>20. ASSUME NEW j \in 1..Len(jobs), ReplaceSegments(j) PROVE TypeOK'
  <2>1. SessionTypes'
    BY <1>0, <1>20 DEF ReplaceSegments, SessionTypes, historyVars, Row, Status, Text
  <2>2. JobTypes'
    BY <1>0, <1>20, GotoFacts, JobTypesSameJobs DEF ReplaceSegments, JobTypes, TypeOK, TaskPc, AtStep, registryVars, slotVars
  <2>3. caller' \in [Callers -> Caller]
    BY <1>0, <1>20 DEF ReplaceSegments
  <2> QED
    BY <2>1, <2>2, <2>3 DEF TypeOK, SessionTypes, JobTypes
<1>21. ASSUME NEW j \in 1..Len(jobs), BuildTranslator(j) PROVE TypeOK'
  <2>1. SessionTypes'
    BY <1>0, <1>21 DEF BuildTranslator, SessionTypes, storeVars, historyVars
  <2>2. JobTypes'
    BY <1>0, <1>21, GotoFacts, JobTypesSameJobs DEF BuildTranslator, JobTypes, TypeOK, TaskPc, AtStep, registryVars, slotVars
  <2>3. caller' \in [Callers -> Caller]
    BY <1>0, <1>21 DEF BuildTranslator
  <2> QED
    BY <2>1, <2>2, <2>3 DEF TypeOK, SessionTypes, JobTypes
<1>22. ASSUME NEW j \in 1..Len(jobs), UpsertUpload(j) PROVE TypeOK'
  <2>1. SessionTypes'
    BY <1>0, <1>22, RowFacts DEF UpsertUpload, SessionTypes, historyVars, Status
  <2>2. JobTypes'
    BY <1>0, <1>22, GotoFacts, JobTypesSameJobs DEF UpsertUpload, JobTypes, TypeOK, TaskPc, AtStep, registryVars, slotVars
  <2>3. caller' \in [Callers -> Caller]
    BY <1>0, <1>22 DEF UpsertUpload
  <2> QED
    BY <2>1, <2>2, <2>3 DEF TypeOK, SessionTypes, JobTypes
<1>23. ASSUME NEW j \in 1..Len(jobs), WriteParagraph(j) PROVE TypeOK'
  <2>1. SessionTypes'
    BY <1>0, <1>23 DEF WriteParagraph, SessionTypes, historyVars, Row, Status, Text
  <2>2. JobTypes'
    BY <1>0, <1>23, JobTypesSameJobs DEF WriteParagraph, JobTypes, registryVars, slotVars
  <2>3. caller' \in [Callers -> Caller]
    BY <1>0, <1>23 DEF WriteParagraph
  <2> QED
    BY <2>1, <2>2, <2>3 DEF TypeOK, SessionTypes, JobTypes
<1>24. ASSUME NEW j \in 1..Len(jobs), WriteLast(j) PROVE TypeOK'
  <2>1. SessionTypes'
    BY <1>0, <1>24 DEF WriteLast, SessionTypes, historyVars, Row, Status, Text
  <2>2. JobTypes'
    BY <1>0, <1>24, GotoFacts, JobTypesSameJobs DEF WriteLast, JobTypes, TypeOK, TaskPc, AtStep, registryVars, slotVars, Release
  <2>3. caller' \in [Callers -> Caller]
    BY <1>0, <1>24 DEF WriteLast
  <2> QED
    BY <2>1, <2>2, <2>3 DEF TypeOK, SessionTypes, JobTypes
<1>25. ASSUME NEW j \in 1..Len(jobs), EndMinutes(j) PROVE TypeOK'
  <2>1. SessionTypes'
    BY <1>0, <1>25 DEF EndMinutes, SessionTypes, storeVars, historyVars
  <2>2. JobTypes'
    BY <1>0, <1>25, GotoFacts, JobTypesSettle DEF EndMinutes, JobTypes, TypeOK, TaskPc, JobStatus, AtStep, Complete, Fail, slotVars
  <2>3. caller' \in [Callers -> Caller]
    BY <1>0, <1>25 DEF EndMinutes
  <2> QED
    BY <2>1, <2>2, <2>3 DEF TypeOK, SessionTypes, JobTypes
<1>26. ASSUME CrashAndRestart PROVE TypeOK'
  <2>1. SessionTypes'
    BY <1>0, <1>26 DEF CrashAndRestart, SessionTypes, historyVars, Recovered, Row, Status, Text
  <2>2. JobTypes'
    BY <1>0, <1>26 DEF CrashAndRestart, JobTypes, RegistryTypeOK
  <2>3. caller' \in [Callers -> Caller]
    BY <1>0, <1>26 DEF CrashAndRestart, Caller, CallerPc, Idle, Status
  <2> QED
    BY <2>1, <2>2, <2>3 DEF TypeOK, SessionTypes, JobTypes
<1>27. CASE UNCHANGED vars
  BY <1>27 DEF vars, TypeOK, RegistryTypeOK
<1> QED
  BY <1>1, <1>2, <1>3, <1>4, <1>5, <1>6, <1>7, <1>8, <1>9, <1>10, <1>11, <1>12, <1>13,
     <1>14, <1>15, <1>16, <1>17, <1>18, <1>19, <1>20, <1>21, <1>22, <1>23, <1>24, <1>25,
     <1>26, <1>27
     DEF Next, SessionStep, CallerStep, PassStep

LEMMA InitType == Init => TypeOK
  BY DEF Init, TypeOK, RegistryInit, RegistryTypeOK, Row, Status, Text, Absent, Callers,
         Caller, CallerPc, Idle, Job

(* The state is well typed for every set of sessions and callers and every *)
(* bound.                                                                  *)
THEOREM TypeCorrect == Spec => []TypeOK
  BY InitType, TypeStep, PTL DEF Spec

-----------------------------------------------------------------------------
(* A step that creates no job and loses none. *)
SameJobs ==
    /\ Len(jobs') = Len(jobs)
    /\ \A i \in 1..Len(jobs) :
          jobs'[i].kind = jobs[i].kind /\ jobs'[i].session = jobs[i].session

LEMMA SameJobsFacts ==
    ASSUME TypeOK, UNCHANGED registryVars \/ \E j : Complete(j) \/ Fail(j)
    PROVE  SameJobs
<1>1. CASE UNCHANGED registryVars
  BY <1>1 DEF SameJobs, registryVars
<1>2. ASSUME NEW j, Complete(j) \/ Fail(j) PROVE SameJobs
  <2>1. PICK status \in JobStatus : Settle(j, status)
    BY <1>2 DEF Complete, Fail, JobStatus
  <2> QED
    BY <2>1, SettleFacts DEF SameJobs, TypeOK
<1> QED
  BY <1>1, <1>2

-----------------------------------------------------------------------------
(* The steps that touch neither jobs nor the slot. *)
Quiet == UNCHANGED <<jobs, kept, task, holders, queue>>

QuietSession(s) == Open(s) \/ Record(s) \/ Speech(s) \/ Finish(s) \/ Delete(s)
QuietCaller(c)  == (\E s \in Sessions : Read(c, s)) \/ Refuse(c)

LEMMA QuietSteps ==
    \/ \E s \in Sessions : QuietSession(s)
    \/ \E c \in Callers : QuietCaller(c)
    \/ \E j \in 1..Len(jobs) : WriteParagraph(j)
    \/ UNCHANGED vars
    => Quiet
BY DEF QuietSession, QuietCaller, Quiet, Open, Record, Speech, Finish, Delete, Read, Refuse,
       WriteParagraph, vars, registryVars, slotVars

(* The queue of the slot. *)
LEMMA HeadWaits ==
    ASSUME TypeOK, QueueAccounting, queue # <<>>
    PROVE  Head(queue) \in 1..Len(jobs) /\ task[Head(queue)] = "waiting"
<1>1. queue \in Seq(1..Len(jobs)) /\ 1 \in 1..Len(queue) /\ Head(queue) = queue[1]
  BY DEF TypeOK
<1> QED
  BY <1>1 DEF QueueAccounting

(* A caller of launch between creating the job and spawning its runner has *)
(* that job to itself.                                                     *)
Made(c) == caller[c].pc = "created"

CallerInv ==
    /\ \A c \in Callers : Made(c) =>
          /\ caller[c].job \in 1..Len(jobs)
          /\ task[caller[c].job] = "unspawned"
          /\ jobs[caller[c].job].kind = "refine"
          /\ jobs[caller[c].job].session = caller[c].session
    /\ \A c, d \in Callers : Made(c) /\ Made(d) /\ caller[c].job = caller[d].job => c = d

(* It survives a step of any other coroutine ... *)
LEMMA CallerMove ==
    ASSUME TypeOK, CallerInv, SameJobs, NEW j \in 1..Len(jobs), NEW pc \in TaskPc,
           Goto(j, pc), task[j] # "unspawned", UNCHANGED caller
    PROVE  CallerInv'
<1>1. /\ Len(task) = Len(jobs)
      /\ \A i \in 1..Len(jobs) : task'[i] = IF i = j THEN pc ELSE task[i]
  BY GotoFacts DEF TypeOK
<1> QED
  BY <1>1 DEF CallerInv, Made, SameJobs

(* ... and the creation of any other job. *)
LEMMA CallerLaunch ==
    ASSUME TypeOK, CallerInv, NEW k \in JobKind, NEW s \in Sessions \cup {NoSession},
           NEW pc \in TaskPc, Launch(k, s, pc), UNCHANGED caller
    PROVE  CallerInv'
<1>1. /\ Len(jobs) \in Nat
      /\ Len(jobs') = Len(jobs) + 1
      /\ \A i \in 1..Len(jobs) : jobs'[i] = jobs[i] /\ task'[i] = task[i]
  BY LaunchFacts
<1> QED
  BY <1>1 DEF CallerInv, Made

LEMMA CallerInvStep == TypeOK /\ QueueAccounting /\ CallerInv /\ [Next]_vars => CallerInv'
<1> SUFFICES ASSUME TypeOK, QueueAccounting, CallerInv, [Next]_vars PROVE CallerInv'
  OBVIOUS
<1>0. /\ Len(task) = Len(jobs)
      /\ Len(jobs) \in Nat
      /\ caller \in [Callers -> Caller]
  BY DEF TypeOK, RegistryTypeOK
<1>q. ASSUME Quiet, \A c \in Callers : caller'[c] = caller[c] \/ caller'[c].pc # "created"
      PROVE  CallerInv'
  BY <1>q DEF Quiet, CallerInv, Made
<1>1. ASSUME NEW s \in Sessions, QuietSession(s) PROVE CallerInv'
  <2>1. \A c \in Callers : caller'[c] = caller[c] \/ caller'[c].pc # "created"
    BY <1>0, <1>1 DEF QuietSession, Open, Record, Speech, Finish, Delete, Idle
  <2> QED
    BY <1>1, <1>q, <2>1, QuietSteps
<1>2. ASSUME NEW c \in Callers, QuietCaller(c) PROVE CallerInv'
  <2>1. \A d \in Callers : caller'[d] = caller[d] \/ caller'[d].pc # "created"
    BY <1>0, <1>2 DEF QuietCaller, Read, Refuse, Idle
  <2> QED
    BY <1>2, <1>q, <2>1, QuietSteps
<1>3. ASSUME NEW j \in 1..Len(jobs), WriteParagraph(j) PROVE CallerInv'
  BY <1>3, <1>q, QuietSteps DEF WriteParagraph
<1>4. CASE UNCHANGED vars
  BY <1>4, <1>q, QuietSteps DEF vars
<1>5. ASSUME NEW s \in Sessions, Upload(s) PROVE CallerInv'
  BY <1>5, CallerLaunch DEF Upload, JobKind, TaskPc
<1>6. ASSUME NEW s \in Sessions, StartMinutes(s) PROVE CallerInv'
  BY <1>6, CallerLaunch DEF StartMinutes, JobKind, TaskPc
<1>7. ASSUME NEW c \in Callers, Accept(c) PROVE CallerInv'
  <2> DEFINE s == caller[c].session
  <2>1. s \in Sessions \cup {NoSession} /\ Launch("refine", s, "unspawned")
    BY <1>0, <1>7 DEF Accept, Caller
  <2>2. /\ Len(jobs') = Len(jobs) + 1
        /\ \A i \in 1..Len(jobs) : jobs'[i] = jobs[i] /\ task'[i] = task[i]
        /\ jobs'[NextJob] = [kind |-> "refine", session |-> s, status |-> "running"]
        /\ task'[NextJob] = "unspawned"
    BY <2>1, LaunchFacts DEF JobKind, TaskPc
  <2>3. /\ caller'[c].pc = "created"
        /\ caller'[c].job = NextJob
        /\ caller'[c].session = s
        /\ \A d \in Callers \ {c} : caller'[d] = caller[d]
    BY <1>0, <1>7 DEF Accept, Caller
  <2> HIDE DEF s
  <2>4. jobs'[NextJob].kind = "refine" /\ jobs'[NextJob].session = s
    BY <2>2
  <2>5. NextJob = Len(jobs) + 1
    BY DEF NextJob
  <2> QED
    BY <1>0, <2>2, <2>3, <2>4, <2>5 DEF CallerInv, Made
<1>8. ASSUME NEW c \in Callers, Spawn(c) PROVE CallerInv'
  <2> DEFINE j == caller[c].job
  <2>1. /\ j \in 1..Len(jobs)
        /\ UNCHANGED registryVars
        /\ Made(c)
        /\ caller'[c].pc = "idle"
        /\ \A d \in Callers \ {c} : caller'[d] = caller[d]
    BY <1>0, <1>8 DEF Spawn, CallerInv, Made, Idle
  <2>2. PICK pc \in TaskPc : Goto(j, pc)
    BY <1>8 DEF Spawn, TaskPc
  <2>3. \A i \in 1..Len(jobs) : i # j => task'[i] = task[i]
    BY <1>0, <2>2, GotoFacts
  <2> QED
    BY <2>1, <2>3 DEF CallerInv, Made, registryVars
<1>9. ASSUME NEW j \in 1..Len(jobs), EnterSlot(j) PROVE CallerInv'
  <2>1. SameJobs
    BY <1>9, SameJobsFacts DEF EnterSlot, registryVars
  <2> QED
    BY <1>0, <1>9, <2>1, CallerMove DEF EnterSlot, AtStep, TaskPc
<1>10. ASSUME NEW j \in 1..Len(jobs), Grant(j) PROVE CallerInv'
  <2>1. SameJobs
    BY <1>10, SameJobsFacts DEF Grant, registryVars
  <2>2. task[j] = "waiting"
    BY <1>0, <1>10, HeadWaits DEF Grant
  <2> QED
    BY <1>0, <1>10, <2>1, <2>2, CallerMove DEF Grant, TaskPc
<1>11. ASSUME NEW j \in 1..Len(jobs), SetProcessing(j) PROVE CallerInv'
  <2>1. SameJobs
    BY <1>11, SameJobsFacts DEF SetProcessing, registryVars
  <2> QED
    BY <1>0, <1>11, <2>1, CallerMove DEF SetProcessing, AtStep, TaskPc
<1>12. ASSUME NEW j \in 1..Len(jobs), PassRaises(j) PROVE CallerInv'
  <2>1. SameJobs
    BY <1>12, SameJobsFacts DEF PassRaises, registryVars
  <2> QED
    BY <1>0, <1>12, <2>1, CallerMove DEF PassRaises, AtStep, TaskPc
<1>13. ASSUME NEW j \in 1..Len(jobs), SetFailed(j) PROVE CallerInv'
  <2>1. SameJobs
    BY <1>13, SameJobsFacts DEF SetFailed, registryVars
  <2> QED
    BY <1>0, <1>13, <2>1, CallerMove DEF SetFailed, AtStep, TaskPc
<1>14. ASSUME NEW j \in 1..Len(jobs), FailJob(j) PROVE CallerInv'
  <2>1. SameJobs
    BY <1>14, SameJobsFacts DEF FailJob
  <2> QED
    BY <1>0, <1>14, <2>1, CallerMove DEF FailJob, AtStep, TaskPc
<1>15. ASSUME NEW j \in 1..Len(jobs), MarkRefined(j) PROVE CallerInv'
  <2>1. SameJobs
    BY <1>15, SameJobsFacts DEF MarkRefined, registryVars
  <2> QED
    BY <1>0, <1>15, <2>1, CallerMove DEF MarkRefined, AtStep, TaskPc
<1>16. ASSUME NEW j \in 1..Len(jobs), CompleteJob(j) PROVE CallerInv'
  <2>1. SameJobs
    BY <1>16, SameJobsFacts DEF CompleteJob
  <2> QED
    BY <1>0, <1>16, <2>1, CallerMove DEF CompleteJob, AtStep, TaskPc
<1>17. ASSUME NEW j \in 1..Len(jobs), ReplaceSegments(j) PROVE CallerInv'
  <2>1. SameJobs
    BY <1>17, SameJobsFacts DEF ReplaceSegments, registryVars
  <2> QED
    BY <1>0, <1>17, <2>1, CallerMove DEF ReplaceSegments, AtStep, TaskPc
<1>18. ASSUME NEW j \in 1..Len(jobs), BuildTranslator(j) PROVE CallerInv'
  <2>1. SameJobs
    BY <1>18, SameJobsFacts DEF BuildTranslator, registryVars
  <2> QED
    BY <1>0, <1>18, <2>1, CallerMove DEF BuildTranslator, AtStep, TaskPc
<1>19. ASSUME NEW j \in 1..Len(jobs), UpsertUpload(j) PROVE CallerInv'
  <2>1. SameJobs
    BY <1>19, SameJobsFacts DEF UpsertUpload, registryVars
  <2> QED
    BY <1>0, <1>19, <2>1, CallerMove DEF UpsertUpload, AtStep, TaskPc
<1>20. ASSUME NEW j \in 1..Len(jobs), WriteLast(j) PROVE CallerInv'
  <2>1. SameJobs
    BY <1>20, SameJobsFacts DEF WriteLast, registryVars
  <2> QED
    BY <1>0, <1>20, <2>1, CallerMove DEF WriteLast, AtStep, TaskPc
<1>21. ASSUME NEW j \in 1..Len(jobs), EndMinutes(j) PROVE CallerInv'
  <2>1. SameJobs
    BY <1>21, SameJobsFacts DEF EndMinutes
  <2> QED
    BY <1>0, <1>21, <2>1, CallerMove DEF EndMinutes, AtStep, TaskPc
<1>22. ASSUME CrashAndRestart PROVE CallerInv'
  BY <1>22 DEF CrashAndRestart, CallerInv, Made, Idle
<1> QED
  BY <1>1, <1>2, <1>3, <1>4, <1>5, <1>6, <1>7, <1>8, <1>9, <1>10, <1>11, <1>12, <1>13, <1>14, <1>15, <1>16, <1>17, <1>18, <1>19, <1>20, <1>21, <1>22
     DEF Next, SessionStep, CallerStep, PassStep, QuietSession, QuietCaller

-----------------------------------------------------------------------------
(* A step of a coroutine that neither waits nor goes to wait. *)
LEMMA QueueMove ==
    ASSUME TypeOK, QueueAccounting, SameJobs, NEW j, NEW pc \in TaskPc \ {"waiting"},
           Goto(j, pc), j \in 1..Len(jobs) => task[j] # "waiting", UNCHANGED queue
    PROVE  QueueAccounting'
<1>1. /\ Len(task) = Len(jobs)
      /\ \A i \in 1..Len(jobs) : task'[i] = IF i = j THEN pc ELSE task[i]
  BY GotoFacts DEF TypeOK
<1>2. {i \in 1..Len(jobs') : task'[i] = "waiting"} = {i \in 1..Len(jobs) : task[i] = "waiting"}
  BY <1>1 DEF SameJobs
<1> QED
  BY <1>2 DEF QueueAccounting

LEMMA QueueLaunch ==
    ASSUME TypeOK, QueueAccounting, NEW k \in JobKind, NEW s \in Sessions \cup {NoSession},
           NEW pc \in TaskPc \ {"waiting"}, Launch(k, s, pc), UNCHANGED queue
    PROVE  QueueAccounting'
<1>1. /\ Len(jobs) \in Nat
      /\ Len(jobs') = Len(jobs) + 1
      /\ \A i \in 1..Len(jobs) : task'[i] = task[i]
      /\ task'[Len(jobs) + 1] = pc
  BY LaunchFacts DEF NextJob
<1>2. {i \in 1..Len(jobs') : task'[i] = "waiting"} = {i \in 1..Len(jobs) : task[i] = "waiting"}
  BY <1>1
<1> QED
  BY <1>2 DEF QueueAccounting

LEMMA QueueStep == TypeOK /\ CallerInv /\ QueueAccounting /\ [Next]_vars => QueueAccounting'
<1> SUFFICES ASSUME TypeOK, CallerInv, QueueAccounting, [Next]_vars PROVE QueueAccounting'
  OBVIOUS
<1>0. /\ Len(task) = Len(jobs)
      /\ queue \in Seq(1..Len(jobs))
  BY DEF TypeOK
<1>q. CASE Quiet
  BY <1>q DEF Quiet, QueueAccounting
<1>1. ASSUME NEW s \in Sessions, Upload(s) PROVE QueueAccounting'
  BY <1>1, QueueLaunch DEF Upload, slotVars, JobKind, TaskPc
<1>2. ASSUME NEW s \in Sessions, StartMinutes(s) PROVE QueueAccounting'
  BY <1>2, QueueLaunch DEF StartMinutes, slotVars, JobKind, TaskPc
<1>3. ASSUME NEW c \in Callers, Accept(c) PROVE QueueAccounting'
  <2>1. caller[c].session \in Sessions \cup {NoSession}
    BY DEF TypeOK, Caller
  <2> QED
    BY <1>3, <2>1, QueueLaunch DEF Accept, slotVars, JobKind, TaskPc
<1>4. ASSUME NEW c \in Callers, Spawn(c) PROVE QueueAccounting'
  <2> DEFINE j == caller[c].job
  <2>1. task[j] = "unspawned" /\ UNCHANGED queue
    BY <1>4 DEF Spawn, CallerInv, Made, slotVars
  <2>2. PICK pc \in {"queueing", "dead"} : Goto(j, pc)
    BY <1>4 DEF Spawn
  <2>3. SameJobs
    BY <1>4, SameJobsFacts DEF Spawn
  <2> HIDE DEF j
  <2> QED
    BY <2>1, <2>2, <2>3, QueueMove DEF TaskPc
<1>5. ASSUME NEW j \in 1..Len(jobs), EnterSlot(j) PROVE QueueAccounting'
  <2>1. SameJobs
    BY <1>5, SameJobsFacts DEF EnterSlot
  <2>2. CASE SlotFree
    BY <1>5, <2>1, <2>2, QueueMove DEF EnterSlot, AtStep, TaskPc
  <2>3. CASE ~SlotFree
    <3>1. queue' = Append(queue, j) /\ Goto(j, "waiting") /\ task[j] = "queueing"
      BY <1>5, <2>3 DEF EnterSlot, AtStep
    <3>2. \A i \in 1..Len(jobs) : task'[i] = IF i = j THEN "waiting" ELSE task[i]
      BY <1>0, <3>1, GotoFacts DEF TaskPc
    <3>3. /\ Len(queue') = Len(queue) + 1
          /\ queue'[Len(queue) + 1] = j
          /\ \A i \in 1..Len(queue) : queue'[i] = queue[i]
          /\ Len(queue) \in Nat
      BY <1>0, <3>1
    <3>4. \A i \in 1..Len(queue) : queue[i] # j
      BY <3>1 DEF QueueAccounting
    <3>5. {queue'[i] : i \in 1..Len(queue')} = {queue[i] : i \in 1..Len(queue)} \cup {j}
      BY <3>3
    <3>6. {i \in 1..Len(jobs') : task'[i] = "waiting"}
            = {i \in 1..Len(jobs) : task[i] = "waiting"} \cup {j}
      BY <2>1, <3>2 DEF SameJobs
    <3>7. \A i, k \in 1..Len(queue') : queue'[i] = queue'[k] => i = k
      BY <3>3, <3>4 DEF QueueAccounting
    <3> QED
      BY <3>5, <3>6, <3>7 DEF QueueAccounting
  <2> QED
    BY <2>2, <2>3
<1>6. ASSUME NEW j \in 1..Len(jobs), Grant(j) PROVE QueueAccounting'
  <2>1. SameJobs
    BY <1>6, SameJobsFacts DEF Grant
  <2>2. queue # <<>> /\ j = Head(queue) /\ queue' = Tail(queue) /\ Goto(j, "claimed")
    BY <1>6 DEF Grant
  <2>3. \A i \in 1..Len(jobs) : task'[i] = IF i = j THEN "claimed" ELSE task[i]
    BY <1>0, <2>2, GotoFacts DEF TaskPc
  <2>4. /\ Len(queue) \in Nat \ {0}
        /\ Len(queue') = Len(queue) - 1
        /\ queue[1] = j
        /\ \A i \in 1..Len(queue') : queue'[i] = queue[i + 1]
    BY <1>0, <2>2
  <2>5. ASSUME NEW i \in 1..Len(queue'), NEW k \in 1..Len(queue'), queue'[i] = queue'[k]
        PROVE  i = k
    <3>1. i + 1 \in 1..Len(queue) /\ k + 1 \in 1..Len(queue) /\ queue[i + 1] = queue[k + 1]
      BY <2>4, <2>5
    <3>2. i + 1 = k + 1
      BY <3>1 DEF QueueAccounting
    <3> QED
      BY <2>4, <3>2
  <2>6. {queue'[i] : i \in 1..Len(queue')} = {queue[i] : i \in 1..Len(queue)} \ {j}
    <3>1. ASSUME NEW i \in 1..Len(queue') PROVE queue'[i] \in {queue[k] : k \in 1..Len(queue)} \ {j}
      <4>1. i + 1 \in 1..Len(queue) /\ 1 \in 1..Len(queue) /\ i + 1 # 1 /\ queue'[i] = queue[i + 1]
        BY <2>4
      <4> QED
        BY <2>4, <4>1 DEF QueueAccounting
    <3>2. ASSUME NEW k \in 1..Len(queue), queue[k] # j
          PROVE  queue[k] \in {queue'[i] : i \in 1..Len(queue')}
      <4>1. k - 1 \in 1..Len(queue') /\ queue'[k - 1] = queue[k]
        BY <2>4, <3>2
      <4> QED
        BY <4>1
    <3> QED
      BY <3>1, <3>2
  <2>7. {i \in 1..Len(jobs') : task'[i] = "waiting"}
          = {i \in 1..Len(jobs) : task[i] = "waiting"} \ {j}
    BY <2>1, <2>3 DEF SameJobs
  <2> QED
    BY <2>5, <2>6, <2>7 DEF QueueAccounting
<1>7. ASSUME NEW j \in 1..Len(jobs), SetProcessing(j) PROVE QueueAccounting'
  <2>1. SameJobs
    BY <1>7, SameJobsFacts DEF SetProcessing, registryVars
  <2> QED
    BY <1>7, <2>1, QueueMove DEF SetProcessing, AtStep, slotVars, TaskPc
<1>8. ASSUME NEW j \in 1..Len(jobs), PassRaises(j) PROVE QueueAccounting'
  <2>1. SameJobs
    BY <1>8, SameJobsFacts DEF PassRaises, registryVars
  <2>2. Goto(j, "failing") /\ task[j] # "waiting" /\ UNCHANGED queue
    BY <1>8 DEF PassRaises, AtStep
  <2> QED
    BY <2>1, <2>2, QueueMove DEF TaskPc
<1>9. ASSUME NEW j \in 1..Len(jobs), SetFailed(j) PROVE QueueAccounting'
  <2>1. SameJobs
    BY <1>9, SameJobsFacts DEF SetFailed, registryVars
  <2> QED
    BY <1>9, <2>1, QueueMove DEF SetFailed, AtStep, slotVars, TaskPc
<1>10. ASSUME NEW j \in 1..Len(jobs), FailJob(j) PROVE QueueAccounting'
  <2>1. SameJobs
    BY <1>10, SameJobsFacts DEF FailJob
  <2> QED
    BY <1>10, <2>1, QueueMove DEF FailJob, AtStep, slotVars, TaskPc
<1>11. ASSUME NEW j \in 1..Len(jobs), MarkRefined(j) PROVE QueueAccounting'
  <2>1. SameJobs
    BY <1>11, SameJobsFacts DEF MarkRefined, registryVars
  <2> QED
    BY <1>11, <2>1, QueueMove DEF MarkRefined, AtStep, slotVars, TaskPc
<1>12. ASSUME NEW j \in 1..Len(jobs), CompleteJob(j) PROVE QueueAccounting'
  <2>1. SameJobs
    BY <1>12, SameJobsFacts DEF CompleteJob
  <2> QED
    BY <1>12, <2>1, QueueMove DEF CompleteJob, AtStep, slotVars, TaskPc
<1>13. ASSUME NEW j \in 1..Len(jobs), ReplaceSegments(j) PROVE QueueAccounting'
  <2>1. SameJobs
    BY <1>13, SameJobsFacts DEF ReplaceSegments, registryVars
  <2> QED
    BY <1>13, <2>1, QueueMove DEF ReplaceSegments, AtStep, slotVars, TaskPc
<1>14. ASSUME NEW j \in 1..Len(jobs), BuildTranslator(j) PROVE QueueAccounting'
  <2>1. SameJobs
    BY <1>14, SameJobsFacts DEF BuildTranslator, registryVars
  <2> QED
    BY <1>14, <2>1, QueueMove DEF BuildTranslator, AtStep, slotVars, TaskPc
<1>15. ASSUME NEW j \in 1..Len(jobs), UpsertUpload(j) PROVE QueueAccounting'
  <2>1. SameJobs
    BY <1>15, SameJobsFacts DEF UpsertUpload, registryVars
  <2> QED
    BY <1>15, <2>1, QueueMove DEF UpsertUpload, AtStep, slotVars, TaskPc
<1>16. ASSUME NEW j \in 1..Len(jobs), WriteLast(j) PROVE QueueAccounting'
  <2>1. SameJobs
    BY <1>16, SameJobsFacts DEF WriteLast, registryVars
  <2> QED
    BY <1>16, <2>1, QueueMove DEF WriteLast, AtStep, slotVars, TaskPc
<1>17. ASSUME NEW j \in 1..Len(jobs), EndMinutes(j) PROVE QueueAccounting'
  <2>1. SameJobs
    BY <1>17, SameJobsFacts DEF EndMinutes
  <2> QED
    BY <1>17, <2>1, QueueMove DEF EndMinutes, AtStep, slotVars, TaskPc
<1>18. ASSUME CrashAndRestart PROVE QueueAccounting'
  BY <1>18 DEF CrashAndRestart, QueueAccounting
<1> QED
  BY <1>q, QuietSteps, <1>1, <1>2, <1>3, <1>4, <1>5, <1>6, <1>7, <1>8, <1>9, <1>10, <1>11, <1>12, <1>13, <1>14, <1>15, <1>16, <1>17, <1>18
     DEF Next, SessionStep, CallerStep, PassStep, QuietSession, QuietCaller

-----------------------------------------------------------------------------
(* The slot.  SlotAccounting is inductive once the steps of a pass are     *)
(* known to belong to its kind, since the two kinds release differently.   *)
RightKind(pc, kind) ==
    /\ pc \in {"unspawned", "swapped"} => kind = "refine"
    /\ pc \in {"spawned", "decoding", "written"} => kind = "upload"
    /\ pc \notin {"summing", "ended"} => kind \in {"refine", "upload"}

StageKind == \A j \in 1..Len(jobs) : RightKind(task[j], jobs[j].kind)

SlotInv == StageKind /\ SlotAccounting

LEMMA HoldersFinite ==
    ASSUME TypeOK
    PROVE  /\ IsFiniteSet(holders)
           /\ Cardinality(holders) \in Nat
           /\ \A j : j \notin holders => Cardinality(holders \cup {j}) = Cardinality(holders) + 1
           /\ \A S \in SUBSET holders : Cardinality(S) <= Cardinality(holders)
<1>1. Len(jobs) \in Nat /\ holders \subseteq 1..Len(jobs)
  BY DEF TypeOK, RegistryTypeOK
<1>2. IsFiniteSet(1..Len(jobs))
  BY <1>1, FS_Interval
<1>3. IsFiniteSet(holders)
  BY <1>1, <1>2, FS_Subset
<1>4. Cardinality(holders) \in Nat
  BY <1>3, FS_CardinalityType
<1>5. \A j : j \notin holders => Cardinality(holders \cup {j}) = Cardinality(holders) + 1
  BY <1>3, FS_AddElement
<1>6. \A S \in SUBSET holders : Cardinality(S) <= Cardinality(holders)
  BY <1>3, FS_Subset
<1> QED
  BY <1>3, <1>4, <1>5, <1>6

(* One coroutine moves, and the slot follows it. *)
LEMMA SlotMove ==
    ASSUME TypeOK, SlotInv, SameJobs, NEW j \in 1..Len(jobs), NEW pc \in TaskPc,
           Goto(j, pc), RightKind(pc, jobs[j].kind),
           holders' = IF Holding(pc, jobs[j].kind) THEN holders \cup {j} ELSE holders \ {j},
           Holding(pc, jobs[j].kind) /\ j \notin holders => Cardinality(holders) < PassLimit
    PROVE  SlotInv'
<1>1. /\ Len(task) = Len(jobs)
      /\ \A i \in 1..Len(jobs) : task'[i] = IF i = j THEN pc ELSE task[i]
  BY GotoFacts DEF TypeOK
<1>2. StageKind'
  BY <1>1 DEF SlotInv, StageKind, SameJobs
<1>3. holders' = {i \in 1..Len(jobs') : HoldsSlot(i)'}
  BY <1>1 DEF SlotInv, SlotAccounting, HoldsSlot, SameJobs
<1>4. Cardinality(holders') <= PassLimit
  <2>1. Cardinality(holders) \in Nat /\ Cardinality(holders) <= PassLimit /\ PassLimit \in Nat
    BY HoldersFinite, PassesAssumption DEF SlotInv, SlotAccounting
  <2>2. CASE Holding(pc, jobs[j].kind) /\ j \notin holders
    BY <2>1, <2>2, HoldersFinite
  <2>3. CASE Holding(pc, jobs[j].kind) /\ j \in holders
    <3>1. holders' = holders
      BY <2>3
    <3> QED
      BY <2>1, <3>1
  <2>4. CASE ~Holding(pc, jobs[j].kind)
    <3>1. holders' \in SUBSET holders
      BY <2>4
    <3>2. Cardinality(holders') <= Cardinality(holders) /\ Cardinality(holders') \in Nat
      BY <3>1, HoldersFinite, FS_Subset, FS_CardinalityType
    <3> QED
      BY <2>1, <3>2
  <2> QED
    BY <2>2, <2>3, <2>4
<1> QED
  BY <1>2, <1>3, <1>4 DEF SlotInv, SlotAccounting

LEMMA SlotLaunch ==
    ASSUME TypeOK, SlotInv, NEW k \in JobKind, NEW s \in Sessions \cup {NoSession},
           NEW pc \in TaskPc, Launch(k, s, pc), RightKind(pc, k), ~Holding(pc, k),
           UNCHANGED holders
    PROVE  SlotInv'
<1>1. /\ Len(jobs) \in Nat
      /\ Len(jobs') = Len(jobs) + 1
      /\ \A i \in 1..Len(jobs) : jobs'[i] = jobs[i] /\ task'[i] = task[i]
      /\ jobs'[Len(jobs) + 1].kind = k
      /\ task'[Len(jobs) + 1] = pc
  <2>1. jobs'[NextJob] = [kind |-> k, session |-> s, status |-> "running"] /\ task'[NextJob] = pc
    BY LaunchFacts
  <2>2. jobs'[NextJob].kind = k
    BY <2>1
  <2> QED
    BY <2>1, <2>2, LaunchFacts DEF NextJob
<1>2. StageKind'
  BY <1>1 DEF SlotInv, StageKind
<1>3. {i \in 1..Len(jobs') : HoldsSlot(i)'} = {i \in 1..Len(jobs) : HoldsSlot(i)}
  BY <1>1 DEF HoldsSlot
<1> QED
  BY <1>2, <1>3 DEF SlotInv, SlotAccounting

LEMMA SlotStep == TypeOK /\ CallerInv /\ QueueAccounting /\ SlotInv /\ [Next]_vars => SlotInv'
<1> SUFFICES ASSUME TypeOK, CallerInv, QueueAccounting, SlotInv, [Next]_vars PROVE SlotInv'
  OBVIOUS
<1>0. /\ Len(task) = Len(jobs)
      /\ \A j \in 1..Len(jobs) : j \in holders <=> Holding(task[j], jobs[j].kind)
      /\ \A j \in 1..Len(jobs) : jobs[j].kind \in JobKind
      /\ \A j \in 1..Len(jobs) : RightKind(task[j], jobs[j].kind)
  <2>1. \A j \in 1..Len(jobs) : jobs[j] \in Job
    BY DEF TypeOK, RegistryTypeOK
  <2> QED
    BY <2>1 DEF TypeOK, SlotInv, StageKind, SlotAccounting, HoldsSlot, Job
<1>q. CASE Quiet
  BY <1>q DEF Quiet, SlotInv, StageKind, SlotAccounting, HoldsSlot
<1>1. ASSUME NEW s \in Sessions, Upload(s) PROVE SlotInv'
  BY <1>1, SlotLaunch DEF Upload, slotVars, RightKind, Holding, JobKind, TaskPc
<1>2. ASSUME NEW s \in Sessions, StartMinutes(s) PROVE SlotInv'
  BY <1>2, SlotLaunch DEF StartMinutes, slotVars, RightKind, Holding, JobKind, TaskPc
<1>3. ASSUME NEW c \in Callers, Accept(c) PROVE SlotInv'
  <2>1. caller[c].session \in Sessions \cup {NoSession}
    BY DEF TypeOK, Caller
  <2> QED
    BY <1>3, <2>1, SlotLaunch DEF Accept, slotVars, RightKind, Holding, JobKind, TaskPc
<1>4. ASSUME NEW c \in Callers, Spawn(c) PROVE SlotInv'
  <2> DEFINE j == caller[c].job
  <2>1. j \in 1..Len(jobs) /\ task[j] = "unspawned" /\ jobs[j].kind = "refine"
    BY <1>4 DEF Spawn, CallerInv, Made
  <2>2. PICK pc \in {"queueing", "dead"} : Goto(j, pc)
    BY <1>4 DEF Spawn
  <2>3. SameJobs
    BY <1>4, SameJobsFacts DEF Spawn
  <2>4. holders' = holders /\ j \notin holders
    BY <1>0, <1>4, <2>1 DEF Spawn, Holding, slotVars
  <2> HIDE DEF j
  <2> QED
    BY <2>1, <2>2, <2>3, <2>4, SlotMove DEF RightKind, Holding, TaskPc
<1>5. ASSUME NEW j \in 1..Len(jobs), EnterSlot(j) PROVE SlotInv'
  <2>1. SameJobs
    BY <1>5, SameJobsFacts DEF EnterSlot, registryVars
  <2> QED
    BY <1>0, <1>5, <2>1, SlotMove
       DEF EnterSlot, AtStep, slotVars, SlotFree, RightKind, Holding, TaskPc, JobKind
<1>6. ASSUME NEW j \in 1..Len(jobs), Grant(j) PROVE SlotInv'
  <2>1. SameJobs
    BY <1>6, SameJobsFacts DEF Grant, registryVars
  <2>2. task[j] = "waiting"
    BY <1>6, HeadWaits DEF Grant
  <2> QED
    BY <1>0, <1>6, <2>1, <2>2, SlotMove DEF Grant, RightKind, Holding, TaskPc
<1>7. ASSUME NEW j \in 1..Len(jobs), SetProcessing(j) PROVE SlotInv'
  <2>1. SameJobs
    BY <1>7, SameJobsFacts DEF SetProcessing, registryVars
  <2> QED
    BY <1>0, <1>7, <2>1, SlotMove
       DEF SetProcessing, AtStep, slotVars, SlotFree, RightKind, Holding, TaskPc, JobKind
<1>8. ASSUME NEW j \in 1..Len(jobs), PassRaises(j) PROVE SlotInv'
  <2>1. SameJobs
    BY <1>8, SameJobsFacts DEF PassRaises
  <2>2. /\ task[j] \in {"working", "decoding", "claimed", "swapped", "written"}
        /\ Goto(j, "failing")
        /\ holders' = holders \ {j}
    BY <1>8 DEF PassRaises, AtStep, Release
  <2> QED
    BY <1>0, <2>1, <2>2, SlotMove DEF RightKind, Holding, TaskPc
<1>9. ASSUME NEW j \in 1..Len(jobs), SetFailed(j) PROVE SlotInv'
  <2>1. SameJobs
    BY <1>9, SameJobsFacts DEF SetFailed, registryVars
  <2> QED
    BY <1>0, <1>9, <2>1, SlotMove
       DEF SetFailed, AtStep, slotVars, SlotFree, RightKind, Holding, TaskPc, JobKind
<1>10. ASSUME NEW j \in 1..Len(jobs), FailJob(j) PROVE SlotInv'
  <2>1. SameJobs
    BY <1>10, SameJobsFacts DEF FailJob
  <2> QED
    BY <1>0, <1>10, <2>1, SlotMove
       DEF FailJob, Fail, AtStep, slotVars, SlotFree, RightKind, Holding, TaskPc, JobKind
<1>11. ASSUME NEW j \in 1..Len(jobs), MarkRefined(j) PROVE SlotInv'
  <2>1. SameJobs
    BY <1>11, SameJobsFacts DEF MarkRefined, registryVars
  <2> QED
    BY <1>0, <1>11, <2>1, SlotMove
       DEF MarkRefined, AtStep, slotVars, SlotFree, RightKind, Holding, TaskPc, JobKind
<1>12. ASSUME NEW j \in 1..Len(jobs), CompleteJob(j) PROVE SlotInv'
  <2>1. SameJobs
    BY <1>12, SameJobsFacts DEF CompleteJob
  <2> QED
    BY <1>0, <1>12, <2>1, SlotMove
       DEF CompleteJob, Complete, Release, AtStep, slotVars, SlotFree, RightKind, Holding, TaskPc, JobKind
<1>13. ASSUME NEW j \in 1..Len(jobs), ReplaceSegments(j) PROVE SlotInv'
  <2>1. SameJobs
    BY <1>13, SameJobsFacts DEF ReplaceSegments, registryVars
  <2> QED
    BY <1>0, <1>13, <2>1, SlotMove
       DEF ReplaceSegments, AtStep, slotVars, SlotFree, RightKind, Holding, TaskPc, JobKind
<1>14. ASSUME NEW j \in 1..Len(jobs), BuildTranslator(j) PROVE SlotInv'
  <2>1. SameJobs
    BY <1>14, SameJobsFacts DEF BuildTranslator, registryVars
  <2> QED
    BY <1>0, <1>14, <2>1, SlotMove
       DEF BuildTranslator, AtStep, slotVars, SlotFree, RightKind, Holding, TaskPc, JobKind
<1>15. ASSUME NEW j \in 1..Len(jobs), UpsertUpload(j) PROVE SlotInv'
  <2>1. SameJobs
    BY <1>15, SameJobsFacts DEF UpsertUpload, registryVars
  <2> QED
    BY <1>0, <1>15, <2>1, SlotMove
       DEF UpsertUpload, AtStep, slotVars, SlotFree, RightKind, Holding, TaskPc, JobKind
<1>16. ASSUME NEW j \in 1..Len(jobs), WriteLast(j) PROVE SlotInv'
  <2>1. SameJobs
    BY <1>16, SameJobsFacts DEF WriteLast, registryVars
  <2> QED
    BY <1>0, <1>16, <2>1, SlotMove
       DEF WriteLast, Release, AtStep, slotVars, SlotFree, RightKind, Holding, TaskPc, JobKind
<1>17. ASSUME NEW j \in 1..Len(jobs), EndMinutes(j) PROVE SlotInv'
  <2>1. SameJobs
    BY <1>17, SameJobsFacts DEF EndMinutes
  <2> QED
    BY <1>0, <1>17, <2>1, SlotMove
       DEF EndMinutes, Complete, Fail, AtStep, slotVars, SlotFree, RightKind, Holding, TaskPc, JobKind
<1>18. ASSUME CrashAndRestart PROVE SlotInv'
  BY <1>18, FS_EmptySet, PassesAssumption
     DEF CrashAndRestart, SlotInv, StageKind, SlotAccounting
<1> QED
  BY <1>q, QuietSteps, <1>1, <1>2, <1>3, <1>4, <1>5, <1>6, <1>7, <1>8, <1>9, <1>10, <1>11, <1>12, <1>13, <1>14, <1>15, <1>16, <1>17, <1>18
     DEF Next, SessionStep, CallerStep, PassStep, QuietSession, QuietCaller

(* The joint induction: callers, queue and slot. *)
GateInv == TypeOK /\ CallerInv /\ QueueAccounting /\ SlotInv

LEMMA GateInit == Init => GateInv
<1>1. Init => CallerInv
  BY DEF Init, CallerInv, Made, Idle
<1>2. Init => QueueAccounting
  BY DEF Init, RegistryInit, QueueAccounting
<1>3. Init => SlotInv
  BY FS_EmptySet, PassesAssumption DEF Init, RegistryInit, SlotInv, StageKind, SlotAccounting
<1> QED
  BY <1>1, <1>2, <1>3, InitType DEF GateInv

LEMMA GateStep == GateInv /\ [Next]_vars => GateInv'
BY TypeStep, CallerInvStep, QueueStep, SlotStep DEF GateInv

LEMMA GateHolds == Spec => []GateInv
BY GateInit, GateStep, PTL DEF Spec

(* The gate admits no more passes than its limit and knows exactly which   *)
(* passes are past it, whatever the number of sessions, jobs and crashes   *)
(* and whatever store call or construction fails.                          *)
THEOREM SlotIsAccountedFor == Spec => []SlotAccounting
<1>1. GateInv => SlotAccounting
  BY DEF GateInv, SlotInv
<1> QED
  BY <1>1, GateHolds, PTL

(* Exactly the passes that wait are queued, each once: no pass is ever     *)
(* forgotten by the gate.                                                  *)
THEOREM QueueIsAccountedFor == Spec => []QueueAccounting
<1>1. GateInv => QueueAccounting
  BY DEF GateInv
<1> QED
  BY <1>1, GateHolds, PTL

-----------------------------------------------------------------------------
(* Sessions and the passes on them. *)

NoEviction == MaxCreated <= MaxJobs

-----------------------------------------------------------------------------
(* What a step does to jobs and their coroutines. *)
Over == {"ended", "dead"}

Advances(j) ==
    /\ task[j] \notin Over
    /\ UNCHANGED registryVars
    /\ \E pc \in TaskPc \ {"ended"} : Goto(j, pc)

Settles(j) ==
    /\ task[j] \notin Over
    /\ Complete(j) \/ Fail(j)
    /\ Goto(j, "ended")

Launches == (\E s \in Sessions : Upload(s) \/ StartMinutes(s)) \/ (\E c \in Callers : Accept(c))

LEMMA JobSteps ==
    ASSUME GateInv, [Next]_vars
    PROVE  \/ Quiet
           \/ Launches
           \/ \E j \in 1..Len(jobs) : Advances(j) \/ Settles(j)
           \/ CrashAndRestart
<1> DEFINE Goal == Quiet \/ Launches \/ (\E j \in 1..Len(jobs) : Advances(j) \/ Settles(j))
                   \/ CrashAndRestart
<1>1. ASSUME NEW c \in Callers, Spawn(c) PROVE Goal
  <2>1. caller[c].job \in 1..Len(jobs) /\ task[caller[c].job] = "unspawned"
    BY <1>1 DEF GateInv, CallerInv, Made, Spawn
  <2>2. Advances(caller[c].job)
    BY <1>1, <2>1 DEF Spawn, Advances, Over, TaskPc
  <2> QED
    BY <2>1, <2>2
<1>2. ASSUME NEW j \in 1..Len(jobs), EnterSlot(j) PROVE Goal
  BY <1>2 DEF EnterSlot, AtStep, Advances, Over, TaskPc
<1>3. ASSUME NEW j \in 1..Len(jobs), Grant(j) PROVE Goal
  <2>1. task[j] = "waiting"
    BY <1>3, HeadWaits DEF GateInv, Grant
  <2> QED
    BY <1>3, <2>1 DEF Grant, Advances, Over, TaskPc
<1>4. ASSUME NEW j \in 1..Len(jobs), SetProcessing(j) PROVE Goal
  BY <1>4 DEF SetProcessing, AtStep, Advances, Over, TaskPc
<1>5. ASSUME NEW j \in 1..Len(jobs), PassRaises(j) PROVE Goal
  <2>1. task[j] \notin Over
    BY <1>5 DEF PassRaises, AtStep, Over
  <2> QED
    BY <1>5, <2>1 DEF PassRaises, Advances, TaskPc
<1>6. ASSUME NEW j \in 1..Len(jobs), SetFailed(j) PROVE Goal
  BY <1>6 DEF SetFailed, AtStep, Advances, Over, TaskPc
<1>7. ASSUME NEW j \in 1..Len(jobs), FailJob(j) PROVE Goal
  BY <1>7 DEF FailJob, AtStep, Settles, Over
<1>8. ASSUME NEW j \in 1..Len(jobs), MarkRefined(j) PROVE Goal
  BY <1>8 DEF MarkRefined, AtStep, Advances, Over, TaskPc
<1>9. ASSUME NEW j \in 1..Len(jobs), CompleteJob(j) PROVE Goal
  BY <1>9 DEF CompleteJob, AtStep, Settles, Over
<1>10. ASSUME NEW j \in 1..Len(jobs), ReplaceSegments(j) PROVE Goal
  BY <1>10 DEF ReplaceSegments, AtStep, Advances, Over, TaskPc
<1>11. ASSUME NEW j \in 1..Len(jobs), BuildTranslator(j) PROVE Goal
  BY <1>11 DEF BuildTranslator, AtStep, Advances, Over, TaskPc
<1>12. ASSUME NEW j \in 1..Len(jobs), UpsertUpload(j) PROVE Goal
  BY <1>12 DEF UpsertUpload, AtStep, Advances, Over, TaskPc
<1>13. ASSUME NEW j \in 1..Len(jobs), WriteLast(j) PROVE Goal
  BY <1>13 DEF WriteLast, AtStep, Advances, Over, TaskPc
<1>14. ASSUME NEW j \in 1..Len(jobs), EndMinutes(j) PROVE Goal
  BY <1>14 DEF EndMinutes, AtStep, Settles, Over
<1> QED
  BY QuietSteps, <1>1, <1>2, <1>3, <1>4, <1>5, <1>6, <1>7, <1>8, <1>9, <1>10, <1>11, <1>12,
     <1>13, <1>14
     DEF Next, SessionStep, CallerStep, PassStep, QuietSession, QuietCaller, Launches

-----------------------------------------------------------------------------
(* Every session that has a row, a connection, a job or a caller is one    *)
(* whose id has been used.                                                 *)
Used(s) == s \in Sessions /\ origin[s] # "unused"

UsedNext(s) == s \in Sessions /\ origin'[s] # "unused"

Origins ==
    /\ \A s \in Sessions : Exists(s) \/ live[s] # "none" => Used(s)
    /\ \A j \in 1..Len(jobs) : Used(jobs[j].session)
    /\ \A c \in Callers : caller[c].pc # "idle" => Used(caller[c].session)

LEMMA UsedStays ==
    ASSUME TypeOK, [Next]_vars, NEW s \in Sessions, Used(s)
    PROVE  UsedNext(s)
<1>1. origin \in [Sessions -> {"unused", "live", "upload"}]
  BY DEF TypeOK
<1>2. \/ UNCHANGED origin
      \/ \E r \in Sessions : origin' = [origin EXCEPT ![r] = "live"]
      \/ \E r \in Sessions : origin' = [origin EXCEPT ![r] = "upload"]
  BY DEF Next, SessionStep, CallerStep, PassStep, vars, historyVars, Open, Record, Speech, Finish,
         Upload, StartMinutes, Delete, Read, Refuse, Accept, Spawn, EnterSlot, Grant,
         SetProcessing, PassRaises, SetFailed, FailJob, ReplaceSegments, MarkRefined,
         CompleteJob, BuildTranslator, UpsertUpload, WriteParagraph, WriteLast, EndMinutes,
         CrashAndRestart
<1> QED
  BY <1>1, <1>2 DEF Used, UsedNext

(* What a restart makes of a row: nothing is left recording or in flight.  *)
LEMMA RecoveredFacts ==
    ASSUME NEW r \in Row
    PROVE  /\ Recovered(r).status \notin {"recording", "pending", "processing"}
           /\ Recovered(r).status = "absent" <=> r.status = "absent"
<1>1. CASE r.status = "recording"
  BY <1>1 DEF Recovered, Row
<1>2. CASE r.status \in {"pending", "processing"}
  BY <1>2 DEF Recovered, Row
<1>3. CASE r.status \notin {"recording", "pending", "processing"}
  BY <1>3 DEF Recovered
<1> QED
  BY <1>1, <1>2, <1>3

(* Where rows and connections come from. *)
LEMMA RowSteps ==
    ASSUME TypeOK, [Next]_vars, NEW s \in Sessions
    PROVE  /\ Exists(s)' => \/ Exists(s)
                            \/ live[s] = "opened" /\ live'[s] = "on"
                            \/ \E j \in 1..Len(jobs) : task[j] = "decoding" /\ SessionOf(j) = s
           /\ row'[s].status = "recording" => \/ row[s].status = "recording"
                                              \/ live[s] = "opened" /\ live'[s] = "on"
<1> DEFINE Goal ==
      /\ Exists(s)' => \/ Exists(s)
                       \/ live[s] = "opened" /\ live'[s] = "on"
                       \/ \E j \in 1..Len(jobs) : task[j] = "decoding" /\ SessionOf(j) = s
      /\ row'[s].status = "recording" => \/ row[s].status = "recording"
                                         \/ live[s] = "opened" /\ live'[s] = "on"
<1> SUFFICES Goal
  OBVIOUS
<1>1. row \in [Sessions -> Row] /\ live \in [Sessions -> {"none", "opened", "on", "off"}]
  BY DEF TypeOK
<1>2. ASSUME NEW r \in Sessions, SessionStep(r) PROVE Goal
  <2>1. CASE Record(r)
    BY <1>1, <2>1 DEF Record, Exists, Absent, Row
  <2>2. CASE Speech(r)
    BY <1>1, <2>2 DEF Speech, Exists, Row
  <2>3. CASE Finish(r)
    BY <1>1, <2>3 DEF Finish, SetStatus, Exists, Row
  <2>4. CASE Delete(r)
    BY <1>1, <2>4 DEF Delete, Exists, Absent, Row
  <2>5. CASE Open(r) \/ Upload(r) \/ StartMinutes(r)
    BY <1>1, <2>5 DEF Open, Upload, StartMinutes, storeVars, Exists
  <2> QED
    BY <1>2, <2>1, <2>2, <2>3, <2>4, <2>5 DEF SessionStep
<1>3. ASSUME NEW c \in Callers, CallerStep(c) PROVE Goal
  <2>1. CASE Spawn(c)
    BY <1>1, <2>1 DEF Spawn, SetStatus, Exists, Row
  <2>2. CASE (\E r \in Sessions : Read(c, r)) \/ Refuse(c) \/ Accept(c)
    BY <1>1, <2>2 DEF Read, Refuse, Accept, storeVars, Exists
  <2> QED
    BY <1>3, <2>1, <2>2 DEF CallerStep
<1>4. ASSUME NEW j \in 1..Len(jobs), PassStep(j) \/ EndMinutes(j) PROVE Goal
  <2>1. CASE SetProcessing(j)
    BY <1>1, <2>1 DEF SetProcessing, SetStatus, Exists, Row
  <2>2. CASE SetFailed(j)
    BY <1>1, <2>2 DEF SetFailed, SetStatus, Exists, Row
  <2>3. CASE ReplaceSegments(j)
    BY <1>1, <2>3 DEF ReplaceSegments, Exists, Row
  <2>4. CASE MarkRefined(j)
    BY <1>1, <2>4 DEF MarkRefined, Exists, Row
  <2>5. CASE UpsertUpload(j)
    BY <1>1, <2>5 DEF UpsertUpload, AtStep, SessionOf, Exists, Row, Absent
  <2>6. CASE WriteParagraph(j)
    BY <1>1, <2>6 DEF WriteParagraph, Exists, Row
  <2>7. CASE WriteLast(j)
    BY <1>1, <2>7 DEF WriteLast, Exists, Row
  <2>8. CASE \/ EnterSlot(j) \/ Grant(j) \/ PassRaises(j) \/ FailJob(j) \/ CompleteJob(j)
             \/ BuildTranslator(j) \/ EndMinutes(j)
    BY <1>1, <2>8 DEF EnterSlot, Grant, PassRaises, FailJob, CompleteJob, BuildTranslator,
                      EndMinutes, storeVars, Exists
  <2> QED
    BY <1>4, <2>1, <2>2, <2>3, <2>4, <2>5, <2>6, <2>7, <2>8 DEF PassStep
<1>5. CASE CrashAndRestart
  BY <1>1, <1>5, RecoveredFacts DEF CrashAndRestart, Exists
<1>6. CASE UNCHANGED vars
  BY <1>6 DEF vars, Exists
<1> HIDE DEF Goal
<1> QED
  BY <1>2, <1>3, <1>4, <1>5, <1>6 DEF Next

LEMMA OriginsStep == GateInv /\ Origins /\ [Next]_vars => Origins'
<1> SUFFICES ASSUME GateInv, Origins, [Next]_vars PROVE Origins'
  OBVIOUS
<1>0. TypeOK /\ Len(jobs) \in Nat
  BY DEF GateInv, TypeOK, RegistryTypeOK
<1>1. ASSUME NEW s \in Sessions, (Exists(s) \/ live[s] # "none")' PROVE UsedNext(s)
  <2>1. CASE Exists(s)'
    <3>1. Used(s)
      BY <1>0, <2>1, RowSteps DEF Origins, SessionOf
    <3> QED
      BY <1>0, <3>1, UsedStays
  <2>2. CASE live'[s] # "none" /\ live[s] # "none"
    <3>1. Used(s)
      BY <2>2 DEF Origins
    <3> QED
      BY <1>0, <3>1, UsedStays
  <2>3. CASE live'[s] # "none" /\ live[s] = "none"
    <3>1. live \in [Sessions -> {"none", "opened", "on", "off"}]
      BY <1>0 DEF TypeOK
    <3>2. Open(s)
      <4>1. ASSUME NEW r \in Sessions, SessionStep(r) PROVE Open(s)
        BY <2>3, <3>1, <4>1 DEF SessionStep, Open, Record, Speech, Finish, Upload, StartMinutes, Delete
      <4>2. ASSUME NEW c \in Callers, CallerStep(c) PROVE FALSE
        BY <2>3, <4>2 DEF CallerStep, Read, Refuse, Accept, Spawn
      <4>3. ASSUME NEW j \in 1..Len(jobs), PassStep(j) \/ EndMinutes(j) PROVE FALSE
        BY <2>3, <4>3 DEF PassStep, EnterSlot, Grant, SetProcessing, PassRaises, SetFailed,
           FailJob, ReplaceSegments, MarkRefined, CompleteJob, BuildTranslator, UpsertUpload,
           WriteParagraph, WriteLast, EndMinutes
      <4>4. CASE CrashAndRestart
        BY <2>3, <4>4 DEF CrashAndRestart
      <4>5. CASE UNCHANGED vars
        BY <2>3, <4>5 DEF vars
      <4> QED
        BY <4>1, <4>2, <4>3, <4>4, <4>5 DEF Next
    <3> QED
      BY <1>0, <3>2 DEF Open, UsedNext, TypeOK
  <2> QED
    BY <1>1, <2>1, <2>2, <2>3 DEF Exists
<1>2. ASSUME NEW j \in 1..Len(jobs') PROVE UsedNext(jobs'[j].session)
  <2>1. CASE j \in 1..Len(jobs) /\ jobs'[j].session = jobs[j].session
    BY <1>0, <2>1, UsedStays DEF Origins, Used
  <2>2. ASSUME NEW k \in JobKind, NEW s \in Sessions, NEW pc \in TaskPc, Launch(k, s, pc), UsedNext(s)
        PROVE  UsedNext(jobs'[j].session)
    <3>1. /\ Len(jobs') = Len(jobs) + 1
          /\ \A i \in 1..Len(jobs) : jobs'[i] = jobs[i]
          /\ jobs'[Len(jobs) + 1] = [kind |-> k, session |-> s, status |-> "running"]
      BY <1>0, <2>2, LaunchFacts DEF NextJob
    <3>2. CASE j \in 1..Len(jobs)
      BY <2>1, <3>1, <3>2
    <3>3. CASE j = Len(jobs) + 1
      BY <2>2, <3>1, <3>3
    <3> QED
      BY <1>0, <3>1, <3>2, <3>3
  <2>3. CASE Launches
    <3>1. ASSUME NEW s \in Sessions, Upload(s) PROVE UsedNext(jobs'[j].session)
      <4>1. UsedNext(s)
        BY <1>0, <3>1 DEF Upload, UsedNext, TypeOK
      <4> QED
        BY <2>2, <3>1, <4>1 DEF Upload, JobKind, TaskPc
    <3>2. ASSUME NEW s \in Sessions, StartMinutes(s) PROVE UsedNext(jobs'[j].session)
      <4>1. UsedNext(s)
        BY <1>0, <3>2, UsedStays DEF StartMinutes, Origins
      <4> QED
        BY <2>2, <3>2, <4>1 DEF StartMinutes, JobKind, TaskPc
    <3>3. ASSUME NEW c \in Callers, Accept(c) PROVE UsedNext(jobs'[j].session)
      <4>1. Used(caller[c].session) /\ caller[c].session \in Sessions
        BY <3>3 DEF Accept, Origins, Used
      <4>2. UsedNext(caller[c].session)
        <5>1. UNCHANGED <<origin, caller[c].session>>
          BY <1>0, <3>3 DEF Accept, historyVars, TypeOK, Caller
        <5> QED
          BY <4>1, <5>1 DEF Used, UsedNext
      <4> QED
        BY <2>2, <3>3, <4>1, <4>2 DEF Accept, JobKind, TaskPc, Used
    <3> QED
      BY <2>3, <3>1, <3>2, <3>3 DEF Launches
  <2>4. CASE Quiet
    BY <2>1, <2>4 DEF Quiet
  <2>5. ASSUME NEW i \in 1..Len(jobs), Advances(i) \/ Settles(i) PROVE UsedNext(jobs'[j].session)
    <3>1. SameJobs
      BY <1>0, <2>5, SameJobsFacts DEF Advances, Settles
    <3> QED
      BY <2>1, <3>1 DEF SameJobs
  <2>6. CASE CrashAndRestart
    BY <2>6 DEF CrashAndRestart
  <2> QED
    BY <2>3, <2>4, <2>5, <2>6, JobSteps
<1>3. ASSUME NEW c \in Callers, caller'[c].pc # "idle" PROVE UsedNext(caller'[c].session)
  <2>1. CASE caller[c].pc # "idle" /\ caller'[c].session = caller[c].session
    BY <1>0, <2>1, UsedStays DEF Origins, Used
  <2>2. caller \in [Callers -> Caller]
    BY <1>0 DEF TypeOK
  <2>3. ASSUME NEW s \in Sessions, Finish(s) PROVE UsedNext(caller'[c].session)
    <3>1. Used(s)
      BY <2>3 DEF Finish, Origins
    <3>2. caller'[c] = caller[c] \/ caller'[c].session = s
      BY <2>2, <2>3 DEF Finish, Idle, Callers
    <3> QED
      BY <1>0, <1>3, <2>1, <3>1, <3>2, UsedStays
  <2>4. ASSUME NEW d \in Callers, NEW s \in Sessions, Read(d, s) PROVE UsedNext(caller'[c].session)
    <3>1. caller'[c] = caller[c] \/ (Exists(s) /\ caller'[c].session = s)
      BY <1>3, <2>2, <2>4 DEF Read, Idle
    <3> QED
      BY <1>0, <1>3, <2>1, <3>1, UsedStays DEF Origins
  <2>5. ASSUME NEW d \in Callers, Refuse(d) \/ Spawn(d) PROVE UsedNext(caller'[c].session)
    <3>1. caller'[c] = caller[c]
      BY <1>3, <2>2, <2>5 DEF Refuse, Spawn, Idle
    <3> QED
      BY <1>3, <2>1, <3>1
  <2>6. ASSUME NEW d \in Callers, Accept(d) PROVE UsedNext(caller'[c].session)
    <3>1. caller[c].pc # "idle" /\ caller'[c].session = caller[c].session
      BY <1>3, <2>2, <2>6 DEF Accept, Caller
    <3> QED
      BY <2>1, <3>1
  <2>7. CASE UNCHANGED caller
    BY <1>3, <2>1, <2>7
  <2>8. CASE CrashAndRestart
    BY <1>3, <2>8 DEF CrashAndRestart, Idle
  <2>9. ASSUME NEW s \in Sessions, SessionStep(s) PROVE Finish(s) \/ UNCHANGED caller
    BY <2>9 DEF SessionStep, Open, Record, Speech, Upload, StartMinutes, Delete
  <2>10. ASSUME NEW j \in 1..Len(jobs), PassStep(j) \/ EndMinutes(j) PROVE UNCHANGED caller
    BY <2>10 DEF PassStep, EnterSlot, Grant, SetProcessing, PassRaises, SetFailed,
       FailJob, ReplaceSegments, MarkRefined, CompleteJob, BuildTranslator, UpsertUpload,
       WriteParagraph, WriteLast, EndMinutes
  <2> QED
    BY <2>3, <2>4, <2>5, <2>6, <2>7, <2>8, <2>9, <2>10 DEF Next, CallerStep, vars
<1> QED
  BY <1>1, <1>2, <1>3 DEF Origins, Used, UsedNext

-----------------------------------------------------------------------------
(* The registry forgets nothing, and a job is running until its coroutine  *)
(* has settled it.                                                         *)
Registered ==
    /\ Len(jobs) <= MaxCreated
    /\ kept = 1..Len(jobs)
    /\ \A j \in 1..Len(jobs) : task[j] # "ended" => jobs[j].status = "running"

(* A launch appends one job, and its coroutine. *)
Launched(k, s, pc) ==
    /\ Len(jobs') = Len(jobs) + 1
    /\ Len(jobs) < MaxCreated
    /\ \A j \in 1..Len(jobs) : jobs'[j] = jobs[j] /\ task'[j] = task[j]
    /\ jobs'[Len(jobs) + 1] = [kind |-> k, session |-> s, status |-> "running"]
    /\ task'[Len(jobs) + 1] = pc

Accepted(s) ==
    \E c \in Callers :
        caller[c].pc = "read" /\ caller[c].seen # "recording" /\ caller[c].session = s

LEMMA LaunchedFacts ==
    ASSUME GateInv, Launches
    PROVE  \E k \in JobKind, s \in Sessions \cup {NoSession}, pc \in TaskPc :
              /\ Create(k, s)
              /\ Launched(k, s, pc)
              /\ pc # "ended"
              /\ \/ k = "minutes" /\ Exists(s)
                 \/ k = "upload" /\ origin[s] = "unused"
                 \/ k = "refine" /\ ~Busy(s) /\ Accepted(s)
<1>0. TypeOK
  BY DEF GateInv
<1>1. ASSUME NEW k \in JobKind, NEW s \in Sessions \cup {NoSession}, NEW pc \in TaskPc,
             Launch(k, s, pc)
      PROVE  Create(k, s) /\ Launched(k, s, pc)
  BY <1>0, <1>1, LaunchFacts DEF Launched, NextJob, Launch
<1>2. ASSUME NEW s \in Sessions, Upload(s)
      PROVE  Launch("upload", s, "spawned") /\ origin[s] = "unused"
  BY <1>2 DEF Upload
<1>3. ASSUME NEW s \in Sessions, StartMinutes(s) PROVE Launch("minutes", s, "summing") /\ Exists(s)
  BY <1>3 DEF StartMinutes
<1>4. ASSUME NEW c \in Callers, Accept(c)
      PROVE  \E s \in Sessions \cup {NoSession} : Launch("refine", s, "unspawned") /\ ~Busy(s) /\ Accepted(s)
  BY <1>0, <1>4 DEF Accept, Accepted, TypeOK, Caller
<1> QED
  BY <1>1, <1>2, <1>3, <1>4 DEF Launches, JobKind, TaskPc

LEMMA RegisteredStep ==
    ASSUME NoEviction
    PROVE  GateInv /\ Registered /\ [Next]_vars => Registered'
<1> SUFFICES ASSUME GateInv, Registered, [Next]_vars PROVE Registered'
  OBVIOUS
<1>0. /\ TypeOK
      /\ Len(task) = Len(jobs)
      /\ Len(jobs) \in Nat
      /\ MaxCreated \in Nat /\ MaxJobs \in Nat /\ MaxCreated <= MaxJobs
  BY RegistryAssumption, PassesAssumption DEF GateInv, TypeOK, RegistryTypeOK, NoEviction
<1>1. CASE Quiet
  BY <1>1 DEF Quiet, Registered
<1>2. CASE Launches
  <2>1. PICK k \in JobKind, s \in Sessions \cup {NoSession}, pc \in TaskPc :
          Create(k, s) /\ Launched(k, s, pc)
    BY <1>2, LaunchedFacts
  <2>2. kept' = 1..Len(jobs')
    <3>1. kept' = {j \in 1..(Len(jobs) + 1) : j > Len(jobs) + 1 - MaxJobs}
      BY <1>0, <2>1 DEF Create, NextJob, Registered
    <3> QED
      BY <1>0, <2>1, <3>1 DEF Launched
  <2>3. jobs'[Len(jobs) + 1].status = "running"
    BY <2>1 DEF Launched
  <2> QED
    BY <1>0, <2>1, <2>2, <2>3 DEF Launched, Registered
<1>3. ASSUME NEW j \in 1..Len(jobs), Advances(j) PROVE Registered'
  <2>1. \A i \in 1..Len(jobs) : task'[i] # "ended" => task[i] # "ended"
    BY <1>0, <1>3, GotoFacts DEF Advances, Over
  <2> QED
    BY <1>3, <2>1 DEF Advances, Registered, registryVars
<1>4. ASSUME NEW j \in 1..Len(jobs), Settles(j) PROVE Registered'
  <2>1. PICK status \in JobStatus : Settle(j, status)
    BY <1>4 DEF Settles, Complete, Fail, JobStatus
  <2>2. /\ Len(jobs') = Len(jobs)
        /\ \A i \in 1..Len(jobs) : i # j => jobs'[i].status = jobs[i].status
        /\ kept' = kept
    BY <1>0, <2>1, SettleFacts DEF TypeOK, Settle
  <2>3. \A i \in 1..Len(jobs) : task'[i] = IF i = j THEN "ended" ELSE task[i]
    BY <1>0, <1>4, GotoFacts DEF Settles, TaskPc
  <2> QED
    BY <2>2, <2>3 DEF Registered
<1>5. CASE CrashAndRestart
  BY <1>0, <1>5 DEF CrashAndRestart, Registered
<1> QED
  BY <1>1, <1>2, <1>3, <1>4, <1>5, JobSteps

-----------------------------------------------------------------------------
(* One pass per session. *)

(* Nothing that has a coroutine at work on a session escapes active_for.   *)
LEMMA UnfinishedIsActive ==
    ASSUME GateInv, Registered, NEW j \in 1..Len(jobs), Unfinished(j)
    PROVE  j \in ActiveFor(SessionOf(j))
BY DEF Registered, Unfinished, ActiveFor, SessionOf

(* Only a launch puts a pass on a session. *)
LEMMA PassesShrink ==
    ASSUME GateInv, [Next]_vars, ~Launches, NEW s \in Sessions
    PROVE  PassesOn(s)' \subseteq PassesOn(s)
<1>0. TypeOK /\ Len(task) = Len(jobs)
  BY DEF GateInv, TypeOK
<1>1. CASE Quiet
  BY <1>1 DEF Quiet, PassesOn, Unfinished, IsPass, SessionOf
<1>2. ASSUME NEW k \in 1..Len(jobs), Advances(k) \/ Settles(k)
      PROVE  PassesOn(s)' \subseteq PassesOn(s)
  <2>1. SameJobs
    BY <1>0, <1>2, SameJobsFacts DEF Advances, Settles
  <2>2. \A m \in 1..Len(jobs) : task[m] \in Over => task'[m] = task[m]
    BY <1>0, <1>2, GotoFacts DEF Advances, Settles, TaskPc
  <2> QED
    BY <2>1, <2>2 DEF SameJobs, PassesOn, Unfinished, IsPass, SessionOf, Over
<1>3. CASE CrashAndRestart
  BY <1>3 DEF CrashAndRestart, PassesOn
<1> QED
  BY <1>1, <1>2, <1>3, JobSteps

LEMMA OnePassStep ==
    GateInv /\ Registered /\ Origins /\ OnePassPerSession /\ [Next]_vars => OnePassPerSession'
<1> SUFFICES ASSUME GateInv, Registered, Origins, OnePassPerSession, [Next]_vars,
                    NEW s \in Sessions, NEW i \in PassesOn(s)', NEW j \in PassesOn(s)'
             PROVE  i = j
  BY DEF OnePassPerSession
<1>0. TypeOK /\ Len(task) = Len(jobs) /\ Len(jobs) \in Nat
  BY DEF GateInv, TypeOK, RegistryTypeOK
<1>1. CASE PassesOn(s)' \subseteq PassesOn(s)
  BY <1>1 DEF OnePassPerSession
<1>2. CASE ~Launches
  BY <1>1, <1>2, PassesShrink
<1>3. CASE Launches
  <2>1. PICK k \in JobKind, r \in Sessions \cup {NoSession}, pc \in TaskPc :
          /\ Launched(k, r, pc)
          /\ \/ k = "minutes"
             \/ k = "upload" /\ origin[r] = "unused"
             \/ k = "refine" /\ ~Busy(r)
    BY <1>3, LaunchedFacts
  <2> DEFINE n == Len(jobs) + 1
  <2>2. jobs'[n].kind = k /\ jobs'[n].session = r
    BY <2>1 DEF Launched
  <2>3. PassesOn(s)' \subseteq PassesOn(s) \cup {n}
    BY <1>0, <2>1 DEF Launched, PassesOn, Unfinished, IsPass, SessionOf
  <2>4. n \in PassesOn(s)' => k # "minutes" /\ r = s
    BY <2>2 DEF PassesOn, Unfinished, IsPass, SessionOf
  <2>5. CASE n \notin PassesOn(s)'
    BY <1>1, <2>3, <2>5
  <2>6. CASE n \in PassesOn(s)'
    <3>1. PassesOn(s) = {}
      <4>1. CASE origin[s] = "unused"
        BY <4>1 DEF Origins, Used, PassesOn, SessionOf
      <4>2. CASE ~Busy(s)
        BY <4>2, UnfinishedIsActive DEF Busy, PassesOn
      <4> QED
        BY <2>1, <2>4, <2>6, <4>1, <4>2
    <3> QED
      BY <2>3, <3>1
  <2> QED
    BY <2>5, <2>6
<1> QED
  BY <1>2, <1>3

-----------------------------------------------------------------------------
(* No pass on a session that is being recorded. *)
RecordingInv ==
    /\ \A s \in Sessions : live[s] = "opened" =>
          /\ ~Exists(s)
          /\ \A j \in 1..Len(jobs) : SessionOf(j) # s
          /\ \A c \in Callers : caller[c].pc # "idle" => caller[c].session # s
    /\ \A c \in Callers : caller[c].pc = "read" /\ caller[c].seen # "recording" =>
          row[caller[c].session].status # "recording"
    /\ NoPassWhileRecording

(* What a caller holds it held before, or has just read, or was given by   *)
(* the end of a recording.                                                 *)
LEMMA CallerSteps ==
    ASSUME GateInv, [Next]_vars, NEW c \in Callers, caller'[c].pc # "idle"
    PROVE  \/ /\ caller[c].pc # "idle"
              /\ caller'[c].session = caller[c].session
              /\ caller'[c].pc = "read" => caller'[c] = caller[c]
           \/ /\ caller'[c].pc = "read"
              /\ caller'[c].session \in Sessions
              /\ Exists(caller'[c].session)
              /\ caller'[c].seen = row[caller'[c].session].status
              /\ UNCHANGED <<row, live>>
           \/ /\ caller'[c].pc = "fetch"
              /\ caller'[c].session \in Sessions
              /\ live[caller'[c].session] = "on"
              /\ live'[caller'[c].session] = "off"
<1> DEFINE Held == /\ caller[c].pc # "idle"
                   /\ caller'[c].session = caller[c].session
                   /\ caller'[c].pc = "read" => caller'[c] = caller[c]
           HasRead == /\ caller'[c].pc = "read"
                      /\ caller'[c].session \in Sessions
                      /\ Exists(caller'[c].session)
                      /\ caller'[c].seen = row[caller'[c].session].status
                      /\ UNCHANGED <<row, live>>
           Given == /\ caller'[c].pc = "fetch"
                    /\ caller'[c].session \in Sessions
                    /\ live[caller'[c].session] = "on"
                    /\ live'[caller'[c].session] = "off"
<1> SUFFICES Held \/ HasRead \/ Given
  OBVIOUS
<1>0. /\ caller \in [Callers -> Caller]
      /\ live \in [Sessions -> {"none", "opened", "on", "off"}]
  BY DEF GateInv, TypeOK
<1>1. CASE UNCHANGED caller
  BY <1>1
<1>2. ASSUME NEW s \in Sessions, Finish(s) PROVE Held \/ Given
  <2>1. \/ caller'[c] = caller[c]
        \/ caller'[c].pc = "fetch" /\ caller'[c].session = s
    BY <1>0, <1>2 DEF Finish, Idle, Callers
  <2>2. live[s] = "on" /\ live'[s] = "off"
    BY <1>0, <1>2 DEF Finish
  <2> QED
    BY <2>1, <2>2
<1>3. ASSUME NEW d \in Callers, NEW s \in Sessions, Read(d, s) PROVE Held \/ HasRead
  <2>1. CASE c # d
    BY <1>0, <1>3, <2>1 DEF Read
  <2>2. CASE c = d
    BY <1>0, <1>3, <2>2 DEF Read, Idle, storeVars
  <2> QED
    BY <2>1, <2>2
<1>4. ASSUME NEW d \in Callers, Refuse(d) \/ Spawn(d) \/ Accept(d) PROVE Held
  <2>1. CASE c # d
    BY <1>0, <1>4, <2>1 DEF Refuse, Spawn, Accept
  <2>2. CASE c = d
    BY <1>0, <1>4, <2>2 DEF Refuse, Spawn, Accept, Idle, Caller
  <2> QED
    BY <2>1, <2>2
<1>5. CASE CrashAndRestart
  BY <1>5 DEF CrashAndRestart, Idle
<1>6. ASSUME NEW s \in Sessions, SessionStep(s) PROVE Finish(s) \/ UNCHANGED caller
  BY <1>6 DEF SessionStep, Open, Record, Speech, Upload, StartMinutes, Delete
<1>7. ASSUME NEW j \in 1..Len(jobs), PassStep(j) \/ EndMinutes(j) PROVE UNCHANGED caller
  BY <1>7 DEF PassStep, EnterSlot, Grant, SetProcessing, PassRaises, SetFailed,
     FailJob, ReplaceSegments, MarkRefined, CompleteJob, BuildTranslator, UpsertUpload,
     WriteParagraph, WriteLast, EndMinutes
<1> QED
  BY <1>1, <1>2, <1>3, <1>4, <1>5, <1>6, <1>7 DEF Next, CallerStep, vars

LEMMA OpenedSteps ==
    ASSUME GateInv, [Next]_vars, NEW s \in Sessions, live'[s] = "opened"
    PROVE  live[s] = "opened" \/ Open(s)
<1>0. live \in [Sessions -> {"none", "opened", "on", "off"}]
  BY DEF GateInv, TypeOK
<1>1. ASSUME NEW r \in Sessions, SessionStep(r) PROVE live[s] = "opened" \/ Open(s)
  BY <1>0, <1>1 DEF SessionStep, Open, Record, Speech, Finish, Upload, StartMinutes, Delete
<1>2. ASSUME NEW c \in Callers, CallerStep(c) PROVE UNCHANGED live
  BY <1>2 DEF CallerStep, Read, Refuse, Accept, Spawn
<1>3. ASSUME NEW j \in 1..Len(jobs), PassStep(j) \/ EndMinutes(j) PROVE UNCHANGED live
  BY <1>3 DEF PassStep, EnterSlot, Grant, SetProcessing, PassRaises, SetFailed,
     FailJob, ReplaceSegments, MarkRefined, CompleteJob, BuildTranslator, UpsertUpload,
     WriteParagraph, WriteLast, EndMinutes
<1>4. CASE CrashAndRestart
  BY <1>4 DEF CrashAndRestart
<1> QED
  BY <1>1, <1>2, <1>3, <1>4 DEF Next, vars

(* A session whose connection has opened but not yet recorded is unknown   *)
(* to everyone else.                                                       *)
LEMMA OpenedIsNew ==
    ASSUME GateInv, Origins, RecordingInv, [Next]_vars, NEW s \in Sessions, live'[s] = "opened"
    PROVE  /\ ~Exists(s)'
           /\ \A j \in 1..Len(jobs') : jobs'[j].session # s
           /\ \A c \in Callers : caller'[c].pc # "idle" => caller'[c].session # s
<1>0. TypeOK /\ Len(jobs) \in Nat
  BY DEF GateInv, TypeOK, RegistryTypeOK
<1>1. CASE Open(s)
  <2>1. ~Used(s) /\ UNCHANGED <<row, jobs, caller>>
    BY <1>1 DEF Open, Used, registryVars
  <2> QED
    BY <2>1 DEF Origins, Exists
<1>2. CASE live[s] = "opened"
  <2>1. /\ ~Exists(s)
        /\ \A j \in 1..Len(jobs) : jobs[j].session # s
        /\ \A c \in Callers : caller[c].pc # "idle" => caller[c].session # s
        /\ Used(s)
    BY <1>2 DEF RecordingInv, SessionOf, Origins
  <2>2. ~Exists(s)'
    BY <1>0, <2>1, RowSteps DEF SessionOf
  <2>3. ASSUME NEW j \in 1..Len(jobs') PROVE jobs'[j].session # s
    <3>1. CASE Launches
      <4>1. PICK k \in JobKind, r \in Sessions \cup {NoSession}, pc \in TaskPc :
              /\ Launched(k, r, pc)
              /\ \/ k = "minutes" /\ Exists(r)
                 \/ k = "upload" /\ origin[r] = "unused"
                 \/ k = "refine" /\ ~Busy(r) /\ Accepted(r)
        BY <3>1, LaunchedFacts
      <4>2. r # s
        BY <2>1, <4>1 DEF Accepted, Used
      <4>3. jobs'[Len(jobs) + 1].session = r
        BY <4>1 DEF Launched
      <4> QED
        BY <1>0, <2>1, <4>1, <4>2, <4>3 DEF Launched
    <3>2. CASE Quiet
      BY <2>1, <3>2 DEF Quiet
    <3>3. ASSUME NEW k \in 1..Len(jobs), Advances(k) \/ Settles(k) PROVE jobs'[j].session # s
      <4>1. SameJobs
        BY <1>0, <3>3, SameJobsFacts DEF Advances, Settles
      <4> QED
        BY <2>1, <4>1 DEF SameJobs
    <3>4. CASE CrashAndRestart
      BY <3>4 DEF CrashAndRestart
    <3> QED
      BY <3>1, <3>2, <3>3, <3>4, JobSteps
  <2>4. ASSUME NEW c \in Callers, caller'[c].pc # "idle", caller'[c].session = s PROVE FALSE
    BY <1>2, <2>1, <2>4, CallerSteps
  <2> QED
    BY <2>2, <2>3, <2>4
<1> QED
  BY <1>1, <1>2, OpenedSteps

LEMMA RecordingStep ==
    GateInv /\ Origins /\ RecordingInv /\ [Next]_vars => RecordingInv'
<1> SUFFICES ASSUME GateInv, Origins, RecordingInv, [Next]_vars PROVE RecordingInv'
  OBVIOUS
<1>0. TypeOK /\ Len(jobs) \in Nat
  BY DEF GateInv, TypeOK, RegistryTypeOK
<1>1. ASSUME NEW c \in Callers, caller'[c].pc = "read", caller'[c].seen # "recording"
      PROVE  row'[caller'[c].session].status # "recording"
  <2>1. CASE caller'[c] = caller[c]
    <3> DEFINE s == caller[c].session
    <3>1. s \in Sessions /\ row[s].status # "recording" /\ live[s] # "opened"
      BY <1>1, <2>1 DEF RecordingInv, Origins, Used
    <3> QED
      BY <1>0, <2>1, <3>1, RowSteps
  <2>2. CASE caller'[c].seen = row[caller'[c].session].status /\ UNCHANGED row
    BY <1>1, <2>2
  <2> QED
    BY <1>1, <2>1, <2>2, CallerSteps
<1>2. ASSUME NEW s \in Sessions, row'[s].status = "recording" PROVE PassesOn(s)' = {}
  <2>1. PassesOn(s) = {}
    <3>1. CASE row[s].status = "recording"
      BY <3>1 DEF RecordingInv, NoPassWhileRecording
    <3>2. CASE live[s] = "opened"
      BY <3>2 DEF RecordingInv, PassesOn
    <3> QED
      BY <1>0, <1>2, <3>1, <3>2, RowSteps
  <2>2. CASE ~Launches
    BY <2>1, <2>2, PassesShrink
  <2>3. CASE Launches
    <3>1. PICK k \in JobKind, r \in Sessions \cup {NoSession}, pc \in TaskPc :
            /\ Launched(k, r, pc)
            /\ \/ k = "minutes" /\ Exists(r)
               \/ k = "upload" /\ origin[r] = "unused"
               \/ k = "refine" /\ ~Busy(r) /\ Accepted(r)
      BY <2>3, LaunchedFacts
    <3>2. row[s].status = "recording"
      BY <1>2, <2>3 DEF Launches, Upload, StartMinutes, Accept, storeVars
    <3>3. k = "minutes" \/ r # s
      <4>1. Used(s)
        BY <3>2 DEF Origins, Exists
      <4>2. ~Accepted(s)
        BY <3>2 DEF Accepted, RecordingInv
      <4> QED
        BY <3>1, <4>1, <4>2 DEF Used
    <3>4. jobs'[Len(jobs) + 1].kind = k /\ jobs'[Len(jobs) + 1].session = r
      BY <3>1 DEF Launched
    <3>5. PassesOn(s)' \subseteq PassesOn(s)
      BY <1>0, <3>1, <3>3, <3>4 DEF Launched, PassesOn, Unfinished, IsPass, SessionOf
    <3> QED
      BY <2>1, <3>5
  <2> QED
    BY <2>2, <2>3
<1>3. \A s \in Sessions : live'[s] = "opened" =>
        /\ ~Exists(s)'
        /\ \A j \in 1..Len(jobs') : jobs'[j].session # s
        /\ \A c \in Callers : caller'[c].pc # "idle" => caller'[c].session # s
  BY OpenedIsNew
<1> QED
  BY <1>1, <1>2, <1>3 DEF RecordingInv, NoPassWhileRecording, SessionOf, Exists

-----------------------------------------------------------------------------
(* The joint induction. *)
SafetyInv == GateInv /\ Registered /\ Origins /\ OnePassPerSession /\ RecordingInv

LEMMA SafetyHolds ==
    ASSUME NoEviction
    PROVE  Spec => []SafetyInv
<1>1. Init => SafetyInv
  <2>1. Init => Registered
    BY PassesAssumption DEF Init, RegistryInit, Registered
  <2>2. Init => Origins
    BY DEF Init, RegistryInit, Origins, Exists, Absent, Idle
  <2>3. Init => OnePassPerSession
    BY DEF Init, RegistryInit, OnePassPerSession, PassesOn
  <2>4. Init => RecordingInv
    BY DEF Init, RegistryInit, RecordingInv, NoPassWhileRecording, Absent, Idle
  <2> QED
    BY <2>1, <2>2, <2>3, <2>4, GateInit DEF SafetyInv
<1>2. SafetyInv /\ [Next]_vars => SafetyInv'
  BY GateStep, RegisteredStep, OriginsStep, OnePassStep, RecordingStep DEF SafetyInv
<1> QED
  BY <1>1, <1>2, PTL DEF Spec

(* Two passes never work on one session, whatever fails or crashes, as     *)
(* long as the registry forgets no job.                                    *)
THEOREM OnePass ==
    ASSUME NoEviction
    PROVE  Spec => []OnePassPerSession
<1>1. SafetyInv => OnePassPerSession
  BY DEF SafetyInv
<1> QED
  BY <1>1, SafetyHolds, PTL

(* And none works on a session that is being recorded.                     *)
THEOREM RecordingIsLeftAlone ==
    ASSUME NoEviction
    PROVE  Spec => []NoPassWhileRecording
<1>1. SafetyInv => NoPassWhileRecording
  BY DEF SafetyInv, RecordingInv
<1> QED
  BY <1>1, SafetyHolds, PTL

-----------------------------------------------------------------------------
(* Work in progress.  While no store call fails, a session in flight has a *)
(* pass that will settle it.                                               *)
AtWork   == {"working", "swapped", "written", "failing"}
Settling == AtWork \cup {"queueing", "waiting", "claimed"}

Backed(s, steps) == \E j \in 1..Len(jobs) : SessionOf(j) = s /\ task[j] \in steps

WorkInv ==
    \A s \in Sessions :
        /\ InFlight(s) => Backed(s, Settling)
        /\ row[s].status = "processing" => Backed(s, AtWork)

(* A coroutine moves; it leaves the other sessions alone, and either leaves *)
(* its own where it was and stays at work on it, or takes it to a status    *)
(* its new step backs.                                                      *)
LEMMA WorkMove ==
    ASSUME TypeOK, WorkInv, SameJobs, NEW j \in 1..Len(jobs), NEW pc \in TaskPc, Goto(j, pc),
           \A s \in Sessions \ {SessionOf(j)} : row'[s].status = row[s].status,
           \/ /\ \A s \in Sessions : row'[s].status = row[s].status
              /\ task[j] \in Settling => pc \in Settling
              /\ task[j] \in AtWork => pc \in AtWork
           \/ \A s \in Sessions : s = SessionOf(j) =>
                /\ row'[s].status \in {"pending", "processing"} => pc \in Settling
                /\ row'[s].status = "processing" => pc \in AtWork
    PROVE  WorkInv'
<1>1. /\ Len(jobs') = Len(jobs)
      /\ \A i \in 1..Len(jobs) : jobs'[i].session = jobs[i].session
      /\ \A i \in 1..Len(jobs) : task'[i] = IF i = j THEN pc ELSE task[i]
  BY GotoFacts DEF SameJobs, TypeOK
<1>2. ASSUME NEW s \in Sessions,
             NEW steps \in {Settling, AtWork},
             Backed(s, steps),
             s = SessionOf(j) => (task[j] \in steps => pc \in steps)
      PROVE  \E i \in 1..Len(jobs') : jobs'[i].session = s /\ task'[i] \in steps
  <2>1. PICK i \in 1..Len(jobs) : jobs[i].session = s /\ task[i] \in steps
    BY <1>2 DEF Backed, SessionOf
  <2> QED
    BY <1>1, <1>2, <2>1 DEF SessionOf
<1>3. ASSUME NEW s \in Sessions, s # SessionOf(j) PROVE
        /\ row'[s].status \in {"pending", "processing"} =>
              \E i \in 1..Len(jobs') : jobs'[i].session = s /\ task'[i] \in Settling
        /\ row'[s].status = "processing" =>
              \E i \in 1..Len(jobs') : jobs'[i].session = s /\ task'[i] \in AtWork
  BY <1>2, <1>3 DEF WorkInv, InFlight
<1>4. ASSUME NEW s \in Sessions, s = SessionOf(j) PROVE
        /\ row'[s].status \in {"pending", "processing"} =>
              \E i \in 1..Len(jobs') : jobs'[i].session = s /\ task'[i] \in Settling
        /\ row'[s].status = "processing" =>
              \E i \in 1..Len(jobs') : jobs'[i].session = s /\ task'[i] \in AtWork
  <2>1. jobs'[j].session = s /\ task'[j] = pc /\ j \in 1..Len(jobs')
    BY <1>1, <1>4 DEF SessionOf
  <2>2. CASE \A r \in Sessions : r = SessionOf(j) =>
                /\ row'[r].status \in {"pending", "processing"} => pc \in Settling
                /\ row'[r].status = "processing" => pc \in AtWork
    BY <1>4, <2>1, <2>2
  <2>3. CASE /\ row'[s].status = row[s].status
             /\ task[j] \in Settling => pc \in Settling
             /\ task[j] \in AtWork => pc \in AtWork
    BY <1>2, <2>3 DEF WorkInv, InFlight
  <2> QED
    BY <2>2, <2>3
<1> QED
  BY <1>3, <1>4 DEF WorkInv, InFlight, Backed, SessionOf

(* A step that leaves jobs and coroutines alone and puts no session in     *)
(* flight.                                                                 *)
LEMMA WorkQuiet ==
    ASSUME WorkInv, UNCHANGED <<jobs, task>>,
           \A s \in Sessions : row'[s].status = row[s].status
                                \/ row'[s].status \notin {"pending", "processing"}
    PROVE  WorkInv'
BY DEF WorkInv, InFlight, Backed, SessionOf

LEMMA WorkStep ==
    ASSUME ~StoreFails
    PROVE  GateInv /\ WorkInv /\ [Next]_vars => WorkInv'
<1> SUFFICES ASSUME GateInv, WorkInv, [Next]_vars PROVE WorkInv'
  OBVIOUS
<1>0. /\ TypeOK
      /\ Len(task) = Len(jobs)
      /\ Len(jobs) \in Nat
      /\ row \in [Sessions -> Row]
  BY DEF GateInv, TypeOK, RegistryTypeOK
<1>1. CASE Launches
  <2>1. PICK k \in JobKind, r \in Sessions \cup {NoSession}, pc \in TaskPc : Launched(k, r, pc)
    BY <1>1, LaunchedFacts
  <2>2. UNCHANGED row
    BY <1>1 DEF Launches, Upload, StartMinutes, Accept, storeVars
  <2>3. \A s \in Sessions, steps \in {Settling, AtWork} :
          Backed(s, steps) => \E i \in 1..Len(jobs') : jobs'[i].session = s /\ task'[i] \in steps
    BY <1>0, <2>1 DEF Launched, Backed, SessionOf
  <2> QED
    BY <2>2, <2>3 DEF WorkInv, InFlight, Backed, SessionOf
<1>2. ASSUME NEW s \in Sessions, QuietSession(s) PROVE WorkInv'
  <2>1. \A r \in Sessions : row'[r].status = row[r].status
                             \/ row'[r].status \notin {"pending", "processing"}
    BY <1>0, <1>2 DEF QuietSession, Open, Record, Speech, Finish, Delete, SetStatus, Absent, Row
  <2> QED
    BY <1>2, <2>1, WorkQuiet, QuietSteps DEF Quiet
<1>3. ASSUME NEW c \in Callers, QuietCaller(c) PROVE WorkInv'
  BY <1>3, WorkQuiet, QuietSteps DEF QuietCaller, Read, Refuse, Quiet, storeVars
<1>4. ASSUME NEW j \in 1..Len(jobs), WriteParagraph(j) PROVE WorkInv'
  <2>1. \A r \in Sessions : row'[r].status = row[r].status
    BY <1>0, <1>4 DEF WriteParagraph, Row
  <2> QED
    BY <1>4, <2>1, WorkQuiet, QuietSteps DEF Quiet
<1>5. CASE UNCHANGED vars
  BY <1>5, WorkQuiet DEF vars
<1>6. ASSUME NEW c \in Callers, Spawn(c) PROVE WorkInv'
  <2> DEFINE j == caller[c].job
  <2>1. /\ j \in 1..Len(jobs)
        /\ SessionOf(j) = caller[c].session
        /\ SetStatus(caller[c].session, "pending")
        /\ Goto(j, "queueing")
    BY <1>6 DEF Spawn, GateInv, CallerInv, Made, SessionOf
  <2>2. SameJobs
    BY <1>0, <1>6, SameJobsFacts DEF Spawn
  <2>3. /\ \A s \in Sessions \ {SessionOf(j)} : row'[s].status = row[s].status
        /\ \A s \in Sessions : s = SessionOf(j) => row'[s].status # "processing"
    <3>1. \A s \in Sessions \ {SessionOf(j)} : row'[s].status = row[s].status
      BY <1>0, <2>1 DEF SetStatus, Row
    <3>2. ASSUME NEW s \in Sessions, s = SessionOf(j) PROVE row'[s].status # "processing"
      BY <1>0, <2>1, <3>2 DEF SetStatus, Exists, Row
    <3> QED
      BY <3>1, <3>2
  <2> HIDE DEF j
  <2> QED
    BY <1>0, <2>1, <2>2, <2>3, WorkMove DEF Settling, AtWork, TaskPc
<1>7. ASSUME NEW j \in 1..Len(jobs), EnterSlot(j) PROVE WorkInv'
  <2>1. SameJobs
    BY <1>0, <1>7, SameJobsFacts DEF EnterSlot
  <2>2. \A s \in Sessions : row'[s].status = row[s].status
    BY <1>0, <1>7 DEF EnterSlot, storeVars, Row
  <2> QED
    BY <1>0, <1>7, <2>1, <2>2, WorkMove DEF EnterSlot, AtStep, Settling, AtWork, TaskPc
<1>8. ASSUME NEW j \in 1..Len(jobs), Grant(j) PROVE WorkInv'
  <2>1. SameJobs
    BY <1>0, <1>8, SameJobsFacts DEF Grant
  <2>2. \A s \in Sessions : row'[s].status = row[s].status
    BY <1>0, <1>8 DEF Grant, storeVars, Row
  <2>3. task[j] = "waiting"
    BY <1>8, HeadWaits DEF Grant, GateInv
  <2> QED
    BY <1>0, <1>8, <2>1, <2>2, <2>3, WorkMove DEF Grant, AtStep, Settling, AtWork, TaskPc
<1>9. ASSUME NEW j \in 1..Len(jobs), SetProcessing(j) PROVE WorkInv'
  <2>1. SameJobs
    BY <1>0, <1>9, SameJobsFacts DEF SetProcessing
  <2>2. /\ \A s \in Sessions \ {SessionOf(j)} : row'[s].status = row[s].status
        /\ \A s \in Sessions : s = SessionOf(j) => row'[s].status \in {"absent", "processing"}
    BY <1>0, <1>9 DEF SetProcessing, SetStatus, Exists, SessionOf, Row
  <2> QED
    BY <1>0, <1>9, <2>1, <2>2, WorkMove DEF SetProcessing, AtStep, Settling, AtWork, TaskPc
<1>10. ASSUME NEW j \in 1..Len(jobs), PassRaises(j) PROVE WorkInv'
  <2>1. SameJobs
    BY <1>0, <1>10, SameJobsFacts DEF PassRaises
  <2>2. \A s \in Sessions : row'[s].status = row[s].status
    BY <1>0, <1>10 DEF PassRaises, storeVars, Row
  <2>3. Goto(j, "failing")
    BY <1>10 DEF PassRaises
  <2> QED
    BY <1>0, <2>1, <2>2, <2>3, WorkMove DEF Settling, AtWork, TaskPc
<1>11. ASSUME NEW j \in 1..Len(jobs), SetFailed(j) PROVE WorkInv'
  <2>1. SameJobs
    BY <1>0, <1>11, SameJobsFacts DEF SetFailed
  <2>2. /\ \A s \in Sessions \ {SessionOf(j)} : row'[s].status = row[s].status
        /\ \A s \in Sessions : s = SessionOf(j) => row'[s].status \in {"absent", "failed"}
    BY <1>0, <1>11 DEF SetFailed, SetStatus, Exists, SessionOf, Row
  <2> QED
    BY <1>0, <1>11, <2>1, <2>2, WorkMove DEF SetFailed, AtStep, Settling, AtWork, TaskPc
<1>12. ASSUME NEW j \in 1..Len(jobs), FailJob(j) PROVE WorkInv'
  <2>1. SameJobs
    BY <1>0, <1>12, SameJobsFacts DEF FailJob
  <2>2. \A s \in Sessions : row'[s].status = row[s].status
    BY <1>0, <1>12 DEF FailJob, storeVars, Row
  <2> QED
    BY <1>0, <1>12, <2>1, <2>2, WorkMove DEF FailJob, AtStep, Settling, AtWork, TaskPc
<1>13. ASSUME NEW j \in 1..Len(jobs), MarkRefined(j) PROVE WorkInv'
  <2>1. SameJobs
    BY <1>0, <1>13, SameJobsFacts DEF MarkRefined
  <2>2. /\ \A s \in Sessions \ {SessionOf(j)} : row'[s].status = row[s].status
        /\ \A s \in Sessions : s = SessionOf(j) => row'[s].status \in {"absent", "ready"}
    BY <1>0, <1>13 DEF MarkRefined, Exists, SessionOf, Row
  <2> QED
    BY <1>0, <1>13, <2>1, <2>2, WorkMove DEF MarkRefined, AtStep, Settling, AtWork, TaskPc
<1>14. ASSUME NEW j \in 1..Len(jobs), CompleteJob(j) PROVE WorkInv'
  <2>1. SameJobs
    BY <1>0, <1>14, SameJobsFacts DEF CompleteJob
  <2>2. \A s \in Sessions : row'[s].status = row[s].status
    BY <1>0, <1>14 DEF CompleteJob, storeVars, Row
  <2> QED
    BY <1>0, <1>14, <2>1, <2>2, WorkMove DEF CompleteJob, AtStep, Settling, AtWork, TaskPc
<1>15. ASSUME NEW j \in 1..Len(jobs), ReplaceSegments(j) PROVE WorkInv'
  <2>1. SameJobs
    BY <1>0, <1>15, SameJobsFacts DEF ReplaceSegments
  <2>2. \A s \in Sessions : row'[s].status = row[s].status
    BY <1>0, <1>15 DEF ReplaceSegments, storeVars, Row
  <2> QED
    BY <1>0, <1>15, <2>1, <2>2, WorkMove DEF ReplaceSegments, AtStep, Settling, AtWork, TaskPc
<1>16. ASSUME NEW j \in 1..Len(jobs), BuildTranslator(j) PROVE WorkInv'
  <2>1. SameJobs
    BY <1>0, <1>16, SameJobsFacts DEF BuildTranslator
  <2>2. \A s \in Sessions : row'[s].status = row[s].status
    BY <1>0, <1>16 DEF BuildTranslator, storeVars, Row
  <2> QED
    BY <1>0, <1>16, <2>1, <2>2, WorkMove DEF BuildTranslator, AtStep, Settling, AtWork, TaskPc
<1>17. ASSUME NEW j \in 1..Len(jobs), UpsertUpload(j) PROVE WorkInv'
  <2>1. SameJobs
    BY <1>0, <1>17, SameJobsFacts DEF UpsertUpload
  <2>2. /\ \A s \in Sessions \ {SessionOf(j)} : row'[s].status = row[s].status
        /\ \A s \in Sessions : s = SessionOf(j) => row'[s].status \in {"absent", "pending"}
    BY <1>0, <1>17 DEF UpsertUpload, Absent, Exists, SessionOf, Row
  <2> QED
    BY <1>0, <1>17, <2>1, <2>2, WorkMove DEF UpsertUpload, AtStep, Settling, AtWork, TaskPc
<1>18. ASSUME NEW j \in 1..Len(jobs), WriteLast(j) PROVE WorkInv'
  <2>1. SameJobs
    BY <1>0, <1>18, SameJobsFacts DEF WriteLast
  <2>2. \A s \in Sessions : row'[s].status = row[s].status
    BY <1>0, <1>18 DEF WriteLast, storeVars, Row
  <2> QED
    BY <1>0, <1>18, <2>1, <2>2, WorkMove DEF WriteLast, AtStep, Settling, AtWork, TaskPc
<1>19. ASSUME NEW j \in 1..Len(jobs), EndMinutes(j) PROVE WorkInv'
  <2>1. SameJobs
    BY <1>0, <1>19, SameJobsFacts DEF EndMinutes
  <2>2. \A s \in Sessions : row'[s].status = row[s].status
    BY <1>0, <1>19 DEF EndMinutes, storeVars, Row
  <2> QED
    BY <1>0, <1>19, <2>1, <2>2, WorkMove DEF EndMinutes, AtStep, Settling, AtWork, TaskPc
<1>20. CASE CrashAndRestart
  BY <1>0, <1>20, RecoveredFacts DEF CrashAndRestart, WorkInv, InFlight
<1> QED
  BY <1>1, <1>2, <1>3, <1>4, <1>5, <1>6, <1>7, <1>8, <1>9, <1>10, <1>11, <1>12, <1>13, <1>14, <1>15, <1>16, <1>17, <1>18, <1>19, <1>20
     DEF Next, SessionStep, CallerStep, PassStep, QuietSession, QuietCaller, Launches

LEMMA WorkHolds ==
    ASSUME NoEviction, ~StoreFails
    PROVE  Spec => [](SafetyInv /\ WorkInv)
<1>1. Init => WorkInv
  BY DEF Init, WorkInv, InFlight, Absent
<1>2. WorkInv /\ SafetyInv /\ [Next]_vars => WorkInv'
  BY WorkStep DEF SafetyInv
<1> QED
  BY <1>1, <1>2, SafetyHolds, PTL DEF Spec

LEMMA BackedFacts ==
    ASSUME SafetyInv, NEW s \in Sessions, NEW steps \in {Settling, AtWork}, Backed(s, steps)
    PROVE  \E j \in ActiveFor(s) : IsPass(j) /\ j \in PassesOn(s) /\ task[j] \in steps
<1>1. PICK j \in 1..Len(jobs) : SessionOf(j) = s /\ task[j] \in steps
  BY DEF Backed
<1>2. task[j] \notin {"summing", "ended", "dead"}
  BY <1>1 DEF Settling, AtWork
<1>3. IsPass(j)
  BY <1>2 DEF SafetyInv, GateInv, SlotInv, StageKind, RightKind, IsPass
<1>4. j \in PassesOn(s) /\ Unfinished(j)
  BY <1>1, <1>2, <1>3 DEF PassesOn, Unfinished
<1>5. j \in ActiveFor(s)
  BY <1>1, <1>4, UnfinishedIsActive DEF SafetyInv
<1> QED
  BY <1>1, <1>3, <1>4, <1>5

(* A session that says pending or processing has a running pass that the   *)
(* registry finds, as long as the registry forgets no job and no store     *)
(* call fails; a crash does not change that.                               *)
THEOREM InFlightIsBacked ==
    ASSUME NoEviction, ~StoreFails
    PROVE  Spec => []InFlightHasJob
<1>1. SafetyInv /\ WorkInv => InFlightHasJob
  BY BackedFacts DEF WorkInv, InFlightHasJob
<1> QED
  BY <1>1, WorkHolds, PTL

(* And one that says processing has a pass that was given the slot.        *)
THEOREM ProcessingIsHonest ==
    ASSUME NoEviction, ~StoreFails
    PROVE  Spec => []ProcessingIsWorking
<1>1. SafetyInv /\ WorkInv => ProcessingIsWorking
  BY BackedFacts DEF WorkInv, ProcessingIsWorking, AtWork
<1> QED
  BY <1>1, WorkHolds, PTL

-----------------------------------------------------------------------------
(***************************************************************************)
(* What becomes of a session's row: why refined means whole, why a deleted *)
(* session stays deleted, and why half of an upload never looks finished.  *)
(* All of it rests on a row being written once, by the one connection or   *)
(* the one upload its id was made for, before any pass can be on it.       *)
(***************************************************************************)

(* A session that has had a row, and the steps of a job whose session may  *)
(* never have had one.                                                     *)
Begun(s) == Exists(s) \/ s \in deleted
BegunNext(s) == row'[s].status # "absent" \/ s \in deleted'
Rowless  == {"spawned", "decoding", "dead", "failing", "failed", "ended"}

Births ==
    /\ \A s \in Sessions : live[s] # "none" => origin[s] = "live"
    /\ \A s \in Sessions : Begun(s) => origin[s] # "unused" /\ live[s] # "opened"
    /\ \A j \in 1..Len(jobs) :
          /\ jobs[j].session \in Sessions
          /\ jobs[j].kind = "upload" => origin[jobs[j].session] = "upload"
          /\ task[j] \in {"spawned", "decoding"} => ~Begun(jobs[j].session)
          /\ task[j] \notin Rowless => Begun(jobs[j].session)
    /\ \A j, k \in 1..Len(jobs) :
          jobs[j].kind = "upload" /\ jobs[k].kind = "upload" /\ jobs[j].session = jobs[k].session
              => j = k
    /\ \A c \in Callers : caller[c].pc \in {"read", "created"} =>
          caller[c].session \in Sessions /\ Begun(caller[c].session)

Outcomes ==
    /\ NoResurrection
    /\ RefinedIsWhole
    /\ \A j \in 1..Len(jobs) :
          task[j] \in {"swapped", "written"} /\ Exists(jobs[j].session)
              => row[jobs[j].session].text = "whole"
    /\ \A s \in Sessions :
          /\ row[s].text = "partial" => origin[s] = "upload"
          /\ row[s].status = "recording" => origin[s] = "live"
          /\ origin[s] = "upload" /\ row[s].status = "ready" => row[s].text = "whole"

-----------------------------------------------------------------------------
(* A step of a job on a session whose rows stay what they are, had or not. *)
LEMMA BirthsMove ==
    ASSUME TypeOK, Births, SameJobs, UNCHANGED <<origin, live>>,
           NEW j \in 1..Len(jobs), NEW pc \in TaskPc \ {"spawned"}, Goto(j, pc),
           \A c \in Callers : caller'[c] = caller[c] \/ caller'[c] = Idle,
           \A s \in Sessions : BegunNext(s) <=> Begun(s),
           pc = "decoding" => task[j] = "spawned",
           pc \notin Rowless => task[j] \notin Rowless
    PROVE  Births'
<1>1. /\ Len(task) = Len(jobs)
      /\ \A i \in 1..Len(jobs) : task'[i] = IF i = j THEN pc ELSE task[i]
  BY GotoFacts DEF TypeOK
<1>2. \A i \in 1..Len(jobs') :
          /\ jobs'[i].session \in Sessions
          /\ jobs'[i].kind = "upload" => origin'[jobs'[i].session] = "upload"
  BY DEF Births, SameJobs
<1>3. \A i \in 1..Len(jobs') : task'[i] \in {"spawned", "decoding"} => ~BegunNext(jobs'[i].session)
  BY <1>1 DEF Births, SameJobs
<1>4. \A i \in 1..Len(jobs') : task'[i] \notin Rowless => BegunNext(jobs'[i].session)
  BY <1>1 DEF Births, SameJobs
<1>5. \A i, k \in 1..Len(jobs') :
          jobs'[i].kind = "upload" /\ jobs'[k].kind = "upload" /\ jobs'[i].session = jobs'[k].session
              => i = k
  BY DEF Births, SameJobs
<1>6. \A c \in Callers : caller'[c].pc \in {"read", "created"} =>
          caller'[c].session \in Sessions /\ BegunNext(caller'[c].session)
  BY DEF Births, Idle
<1>7. \A s \in Sessions : BegunNext(s) => origin'[s] # "unused" /\ live'[s] # "opened"
  BY DEF Births
<1>8. \A s \in Sessions : live'[s] # "none" => origin'[s] = "live"
  BY DEF Births
<1> QED
  BY <1>2, <1>3, <1>4, <1>5, <1>6, <1>7, <1>8 DEF Births, Begun, BegunNext, Exists

(* An update of a row there is neither makes nor takes one.                *)
LEMMA SetStatusKeeps ==
    ASSUME row \in [Sessions -> Row], NEW r, NEW status \in Status \ {"absent"},
           SetStatus(r, status), UNCHANGED deleted
    PROVE  \A s \in Sessions : BegunNext(s) <=> Begun(s)
BY DEF SetStatus, BegunNext, Begun, Exists, Row

(* The steps of a job that leave its session with a row, or without one.   *)
LEMMA BirthsPass ==
    ASSUME GateInv, Births, NEW j \in 1..Len(jobs), PassStep(j) \/ EndMinutes(j)
    PROVE  Births'
<1>0. /\ TypeOK /\ row \in [Sessions -> Row]
      /\ Len(task) = Len(jobs) /\ Len(jobs) \in Nat
      /\ jobs[j].session \in Sessions
      /\ RightKind(task[j], jobs[j].kind)
  BY DEF GateInv, TypeOK, RegistryTypeOK, Births, SlotInv, StageKind
<1>1. ASSUME UNCHANGED <<row, deleted>> PROVE \A s \in Sessions : BegunNext(s) <=> Begun(s)
  BY <1>1 DEF BegunNext, Begun, Exists
<1>2. ASSUME UNCHANGED registryVars \/ Complete(j) \/ Fail(j) PROVE SameJobs
  BY <1>0, <1>2, SameJobsFacts
<1>3. CASE EnterSlot(j)
  BY <1>0, <1>1, <1>2, <1>3, BirthsMove
     DEF EnterSlot, AtStep, TaskPc, Rowless, storeVars, historyVars
<1>4. CASE Grant(j)
  <2>1. task[j] = "waiting"
    BY <1>4, HeadWaits DEF GateInv, Grant
  <2> QED
    BY <1>0, <1>1, <1>2, <1>4, <2>1, BirthsMove DEF Grant, TaskPc, Rowless, storeVars, historyVars
<1>5. CASE SetProcessing(j)
  <2>1. \A s \in Sessions : BegunNext(s) <=> Begun(s)
    BY <1>0, <1>5, SetStatusKeeps DEF SetProcessing, Status, historyVars
  <2> QED
    BY <1>0, <1>2, <1>5, <2>1, BirthsMove DEF SetProcessing, AtStep, TaskPc, Rowless, historyVars
<1>6. CASE PassRaises(j)
  BY <1>0, <1>1, <1>2, <1>6, BirthsMove DEF PassRaises, TaskPc, Rowless, storeVars, historyVars
<1>7. CASE SetFailed(j)
  <2>1. \A s \in Sessions : BegunNext(s) <=> Begun(s)
    BY <1>0, <1>1, <1>7, SetStatusKeeps DEF SetFailed, Status, historyVars
  <2> QED
    BY <1>0, <1>2, <1>7, <2>1, BirthsMove DEF SetFailed, AtStep, TaskPc, Rowless, historyVars
<1>8. CASE FailJob(j)
  BY <1>0, <1>1, <1>2, <1>8, BirthsMove DEF FailJob, TaskPc, Rowless, storeVars, historyVars
<1>9. CASE ReplaceSegments(j)
  <2>1. \A s \in Sessions : BegunNext(s) <=> Begun(s)
    BY <1>0, <1>9 DEF ReplaceSegments, BegunNext, Begun, Exists, Row, historyVars
  <2> QED
    BY <1>0, <1>2, <1>9, <2>1, BirthsMove DEF ReplaceSegments, AtStep, TaskPc, Rowless, historyVars
<1>10. CASE MarkRefined(j)
  <2>1. \A s \in Sessions : BegunNext(s) <=> Begun(s)
    BY <1>0, <1>10 DEF MarkRefined, BegunNext, Begun, Exists, Row, historyVars
  <2> QED
    BY <1>0, <1>2, <1>10, <2>1, BirthsMove DEF MarkRefined, AtStep, TaskPc, Rowless, historyVars
<1>11. CASE CompleteJob(j)
  BY <1>0, <1>1, <1>2, <1>11, BirthsMove DEF CompleteJob, TaskPc, Rowless, storeVars, historyVars
<1>12. CASE BuildTranslator(j)
  BY <1>0, <1>1, <1>2, <1>12, BirthsMove
     DEF BuildTranslator, AtStep, TaskPc, Rowless, storeVars, historyVars
<1>13. CASE UpsertUpload(j)
  <2>1. CASE task' = [task EXCEPT ![j] = "failing"] /\ UNCHANGED row
    BY <1>0, <1>1, <1>2, <1>13, <2>1, BirthsMove
       DEF UpsertUpload, AtStep, Goto, TaskPc, Rowless, historyVars
  <2>2. CASE /\ row' = [row EXCEPT ![jobs[j].session] = [Absent EXCEPT !.status = "pending"]]
             /\ Goto(j, "queueing")
    <3>1. /\ task[j] = "decoding" /\ ~Begun(jobs[j].session)
          /\ origin[jobs[j].session] = "upload" /\ jobs[j].kind = "upload"
      BY <1>0, <1>13 DEF UpsertUpload, AtStep, Births, RightKind
    <3>2. /\ UNCHANGED <<jobs, caller, live, origin, deleted>>
          /\ \A i \in 1..Len(jobs) : task'[i] = IF i = j THEN "queueing" ELSE task[i]
      BY <1>0, <1>13, <2>2, GotoFacts DEF UpsertUpload, TaskPc, registryVars, historyVars
    <3>3. \A s \in Sessions : BegunNext(s) <=> Begun(s) \/ s = jobs[j].session
      BY <1>0, <2>2, <3>2 DEF BegunNext, Begun, Exists, Absent, Row
    <3>4. live[jobs[j].session] = "none"
      BY <1>0, <3>1 DEF Births, TypeOK
    <3>5. \A i \in 1..Len(jobs) : task'[i] \in {"spawned", "decoding"} => ~BegunNext(jobs[i].session)
      <4>1. SUFFICES ASSUME NEW i \in 1..Len(jobs), task'[i] \in {"spawned", "decoding"},
                            jobs[i].session = jobs[j].session
                     PROVE  FALSE
        BY <3>2, <3>3 DEF Births
      <4>2. i # j /\ task[i] \in {"spawned", "decoding"}
        BY <3>2, <4>1
      <4>3. jobs[i].kind = "upload"
        BY <4>2 DEF GateInv, SlotInv, StageKind, RightKind
      <4> QED
        BY <3>1, <4>1, <4>2, <4>3 DEF Births
    <3>6. \A i \in 1..Len(jobs) : task'[i] \notin Rowless => BegunNext(jobs[i].session)
      BY <3>2, <3>3 DEF Births
    <3>7. \A s \in Sessions : BegunNext(s) => origin[s] # "unused" /\ live[s] # "opened"
      BY <3>1, <3>3, <3>4 DEF Births
    <3>8. \A c \in Callers : caller[c].pc \in {"read", "created"} =>
            caller[c].session \in Sessions /\ BegunNext(caller[c].session)
      BY <3>3 DEF Births
    <3> QED
      BY <3>2, <3>5, <3>6, <3>7, <3>8 DEF Births, Begun, BegunNext, Exists
  <2> QED
    BY <1>13, <2>1, <2>2 DEF UpsertUpload, Goto, SessionOf
<1>14. CASE WriteParagraph(j)
  <2>1. \A s \in Sessions : BegunNext(s) <=> Begun(s)
    BY <1>0, <1>14 DEF WriteParagraph, BegunNext, Begun, Exists, Row, historyVars
  <2> QED
    BY <1>0, <1>14, <2>1 DEF WriteParagraph, Births, BegunNext, Begun, Exists, registryVars, historyVars
<1>15. CASE WriteLast(j)
  <2>1. \A s \in Sessions : BegunNext(s) <=> Begun(s)
    BY <1>0, <1>15 DEF WriteLast, BegunNext, Begun, Exists, Row, historyVars
  <2> QED
    BY <1>0, <1>2, <1>15, <2>1, BirthsMove DEF WriteLast, AtStep, TaskPc, Rowless, historyVars
<1>16. CASE EndMinutes(j)
  BY <1>0, <1>1, <1>2, <1>16, BirthsMove DEF EndMinutes, TaskPc, Rowless, storeVars, historyVars
<1> QED
  BY <1>3, <1>4, <1>5, <1>6, <1>7, <1>8, <1>9, <1>10, <1>11, <1>12, <1>13, <1>14, <1>15, <1>16
     DEF PassStep

(* A step that touches no job ...                                          *)
LEMMA BirthsQuiet ==
    ASSUME Births, UNCHANGED <<jobs, task>>,
           \A s \in Sessions : BegunNext(s) <=> Begun(s),
           \A s \in Sessions :
              \/ live'[s] = live[s] /\ origin'[s] = origin[s]
              \/ live[s] # "none" /\ live'[s] # "opened" /\ origin'[s] = origin[s]
              \/ origin[s] = "unused" /\ origin'[s] = "live",
           \A c \in Callers :
              \/ caller'[c] = caller[c]
              \/ caller'[c].pc \notin {"read", "created"}
              \/ caller'[c].session \in Sessions /\ Begun(caller'[c].session)
    PROVE  Births'
<1>1. \A j \in 1..Len(jobs) :
          /\ jobs[j].kind = "upload" => origin'[jobs[j].session] = "upload"
          /\ task[j] \in {"spawned", "decoding"} => ~BegunNext(jobs[j].session)
          /\ task[j] \notin Rowless => BegunNext(jobs[j].session)
  BY DEF Births
<1>2. \A c \in Callers : caller'[c].pc \in {"read", "created"} =>
          caller'[c].session \in Sessions /\ BegunNext(caller'[c].session)
  BY DEF Births
<1>3. \A s \in Sessions : BegunNext(s) => origin'[s] # "unused" /\ live'[s] # "opened"
  BY DEF Births
<1>4. \A s \in Sessions : live'[s] # "none" => origin'[s] = "live"
  BY DEF Births
<1> QED
  BY <1>1, <1>2, <1>3, <1>4 DEF Births, Begun, BegunNext, Exists

(* ... and one that creates a job.                                         *)
LEMMA BirthsLaunch ==
    ASSUME TypeOK, Births, NEW k \in JobKind, NEW s \in Sessions, NEW pc \in TaskPc,
           Launch(k, s, pc), UNCHANGED <<row, live, deleted>>,
           \/ /\ k = "upload" /\ origin[s] = "unused" /\ pc = "spawned"
              /\ origin' = [origin EXCEPT ![s] = "upload"]
           \/ /\ k # "upload" /\ Begun(s) /\ pc \notin Rowless
              /\ UNCHANGED origin,
           \A c \in Callers : caller'[c] = caller[c] \/ (caller[c].pc = "read" /\ caller'[c].session = caller[c].session)
    PROVE  Births'
<1>1. /\ Len(jobs) \in Nat
      /\ Len(jobs') = Len(jobs) + 1
      /\ \A i \in 1..Len(jobs) : jobs'[i] = jobs[i] /\ task'[i] = task[i]
      /\ jobs'[Len(jobs) + 1] = [kind |-> k, session |-> s, status |-> "running"]
      /\ task'[Len(jobs) + 1] = pc
  BY LaunchFacts DEF NextJob
<1>2. /\ \A r \in Sessions : BegunNext(r) <=> Begun(r)
      /\ origin \in [Sessions -> {"unused", "live", "upload"}]
  BY DEF BegunNext, Begun, Exists, TypeOK
<1>3. \A j \in 1..Len(jobs') :
          /\ jobs'[j].session \in Sessions
          /\ jobs'[j].kind = "upload" => origin'[jobs'[j].session] = "upload"
          /\ task'[j] \in {"spawned", "decoding"} => ~BegunNext(jobs'[j].session)
          /\ task'[j] \notin Rowless => BegunNext(jobs'[j].session)
  <2>1. ASSUME NEW j \in 1..Len(jobs)
        PROVE  /\ jobs'[j].session \in Sessions
               /\ jobs'[j].kind = "upload" => origin'[jobs'[j].session] = "upload"
               /\ task'[j] \in {"spawned", "decoding"} => ~BegunNext(jobs'[j].session)
               /\ task'[j] \notin Rowless => BegunNext(jobs'[j].session)
    BY <1>1, <1>2, <2>1 DEF Births
  <2>2. /\ s \in Sessions
        /\ k = "upload" => origin'[s] = "upload"
        /\ pc \in {"spawned", "decoding"} => ~BegunNext(s)
        /\ pc \notin Rowless => BegunNext(s)
    BY <1>2 DEF Births, Rowless
  <2> QED
    BY <1>1, <2>1, <2>2
<1>4. \A i, j \in 1..Len(jobs') :
          jobs'[i].kind = "upload" /\ jobs'[j].kind = "upload" /\ jobs'[i].session = jobs'[j].session
              => i = j
  <2>1. \A j \in 1..Len(jobs) : jobs[j].kind = "upload" /\ jobs[j].session = s => k # "upload"
    BY DEF Births
  <2> QED
    BY <1>1, <2>1 DEF Births
<1>5. \A c \in Callers : caller'[c].pc \in {"read", "created"} =>
          caller'[c].session \in Sessions /\ BegunNext(caller'[c].session)
  BY <1>2 DEF Births
<1>6. \A r \in Sessions : BegunNext(r) => origin'[r] # "unused" /\ live'[r] # "opened"
  BY <1>2 DEF Births
<1>7. \A r \in Sessions : live'[r] # "none" => origin'[r] = "live"
  BY <1>2 DEF Births
<1> QED
  BY <1>3, <1>4, <1>5, <1>6, <1>7 DEF Births, Begun, BegunNext, Exists

LEMMA BirthsStep == GateInv /\ Births /\ [Next]_vars => Births'
<1> SUFFICES ASSUME GateInv, Births, [Next]_vars PROVE Births'
  OBVIOUS
<1>0. /\ TypeOK /\ row \in [Sessions -> Row] /\ caller \in [Callers -> Caller]
      /\ live \in [Sessions -> {"none", "opened", "on", "off"}]
      /\ origin \in [Sessions -> {"unused", "live", "upload"}]
      /\ Len(task) = Len(jobs) /\ Len(jobs) \in Nat
  BY DEF GateInv, TypeOK, RegistryTypeOK
<1>k. ASSUME UNCHANGED <<row, deleted>> PROVE \A s \in Sessions : BegunNext(s) <=> Begun(s)
  BY <1>k DEF BegunNext, Begun, Exists
<1>1. ASSUME NEW s \in Sessions, Open(s) PROVE Births'
  BY <1>0, <1>1, <1>k, BirthsQuiet DEF Open, registryVars
<1>2. ASSUME NEW s \in Sessions, Record(s) PROVE Births'
  <2>1. CASE UNCHANGED row
    BY <1>0, <1>2, <1>k, <2>1, BirthsQuiet DEF Record, registryVars, historyVars
  <2>2. CASE row' = [row EXCEPT ![s] = [Absent EXCEPT !.status = "recording"]]
    <3>1. /\ UNCHANGED <<jobs, task, caller, origin, deleted>>
          /\ live' = [live EXCEPT ![s] = "on"] /\ live[s] = "opened" /\ origin[s] = "live"
      BY <1>2 DEF Record, registryVars, historyVars, Births
    <3>2. \A r \in Sessions : BegunNext(r) <=> Begun(r) \/ r = s
      BY <1>0, <2>2, <3>1 DEF BegunNext, Begun, Exists, Absent, Row
    <3>3. ASSUME NEW j \in 1..Len(jobs), task[j] \in {"spawned", "decoding"}
          PROVE  jobs[j].session # s
      <4>1. jobs[j].kind = "upload"
        BY <3>3 DEF GateInv, SlotInv, StageKind, RightKind
      <4> QED
        BY <3>1, <4>1 DEF Births
    <3>4. \A j \in 1..Len(jobs) :
            /\ task[j] \in {"spawned", "decoding"} => ~BegunNext(jobs[j].session)
            /\ task[j] \notin Rowless => BegunNext(jobs[j].session)
      BY <3>2, <3>3 DEF Births
    <3>5. \A r \in Sessions : BegunNext(r) => origin[r] # "unused" /\ live'[r] # "opened"
      BY <1>0, <3>1, <3>2 DEF Births
    <3>6. \A r \in Sessions : live'[r] # "none" => origin[r] = "live"
      BY <1>0, <3>1 DEF Births
    <3>7. \A c \in Callers : caller[c].pc \in {"read", "created"} =>
            caller[c].session \in Sessions /\ BegunNext(caller[c].session)
      BY <3>2 DEF Births
    <3> QED
      BY <3>1, <3>4, <3>5, <3>6, <3>7 DEF Births, Begun, BegunNext, Exists
  <2> QED
    BY <1>2, <2>1, <2>2 DEF Record
<1>3. ASSUME NEW s \in Sessions, Speech(s) PROVE Births'
  <2>1. \A r \in Sessions : BegunNext(r) <=> Begun(r)
    BY <1>0, <1>3 DEF Speech, BegunNext, Begun, Exists, Row, historyVars
  <2> QED
    BY <1>3, <2>1, BirthsQuiet DEF Speech, registryVars, historyVars
<1>4. ASSUME NEW s \in Sessions, Finish(s) PROVE Births'
  <2>1. \A r \in Sessions : BegunNext(r) <=> Begun(r)
    BY <1>0, <1>4, <1>k, SetStatusKeeps DEF Finish, Status, historyVars
  <2>2. \A c \in Callers : caller'[c] = caller[c] \/ caller'[c].pc = "fetch"
    BY <1>0, <1>4 DEF Finish, Idle, Callers
  <2>3. \A r \in Sessions : live'[r] = live[r] \/ (live[r] # "none" /\ live'[r] # "opened")
    BY <1>0, <1>4 DEF Finish
  <2> QED
    BY <1>4, <2>1, <2>2, <2>3, BirthsQuiet DEF Finish, registryVars, historyVars
<1>5. ASSUME NEW s \in Sessions, Upload(s) PROVE Births'
  BY <1>0, <1>5, BirthsLaunch DEF Upload, storeVars, JobKind, TaskPc
<1>6. ASSUME NEW s \in Sessions, StartMinutes(s) PROVE Births'
  BY <1>0, <1>6, BirthsLaunch DEF StartMinutes, storeVars, historyVars, JobKind, TaskPc, Rowless, Begun
<1>7. ASSUME NEW s \in Sessions, Delete(s) PROVE Births'
  <2>1. \A r \in Sessions : BegunNext(r) <=> Begun(r)
    BY <1>0, <1>7 DEF Delete, BegunNext, Begun, Exists, Absent, Row
  <2> QED
    BY <1>7, <2>1, BirthsQuiet DEF Delete, registryVars
<1>8. ASSUME NEW c \in Callers, NEW s \in Sessions, Read(c, s) PROVE Births'
  <2>1. \A d \in Callers : \/ caller'[d] = caller[d]
                           \/ caller'[d].pc \notin {"read", "created"}
                           \/ caller'[d].session \in Sessions /\ Begun(caller'[d].session)
    BY <1>0, <1>8 DEF Read, Idle, Begun
  <2> QED
    BY <1>8, <1>k, <2>1, BirthsQuiet DEF Read, registryVars, storeVars, historyVars
<1>9. ASSUME NEW c \in Callers, Refuse(c) PROVE Births'
  <2>1. \A d \in Callers : caller'[d] = caller[d] \/ caller'[d].pc \notin {"read", "created"}
    BY <1>0, <1>9 DEF Refuse, Idle
  <2> QED
    BY <1>9, <1>k, <2>1, BirthsQuiet DEF Refuse, registryVars, storeVars, historyVars
<1>10. ASSUME NEW c \in Callers, Accept(c) PROVE Births'
  <2>1. caller[c].session \in Sessions /\ Begun(caller[c].session)
    BY <1>10 DEF Accept, Births
  <2>2. \A d \in Callers : \/ caller'[d] = caller[d]
                           \/ caller[d].pc = "read" /\ caller'[d].session = caller[d].session
    BY <1>0, <1>10 DEF Accept, Caller
  <2> QED
    BY <1>0, <1>10, <2>1, <2>2, BirthsLaunch
       DEF Accept, storeVars, historyVars, JobKind, TaskPc, Rowless
<1>11. ASSUME NEW c \in Callers, Spawn(c) PROVE Births'
  <2>1. /\ caller[c].job \in 1..Len(jobs) /\ task[caller[c].job] = "unspawned"
    BY <1>11 DEF Spawn, GateInv, CallerInv, Made
  <2>2. \A s \in Sessions : BegunNext(s) <=> Begun(s)
    BY <1>0, <1>11, <1>k, SetStatusKeeps DEF Spawn, Status, historyVars
  <2>3. \A d \in Callers : caller'[d] = caller[d] \/ caller'[d] = Idle
    BY <1>0, <1>11 DEF Spawn
  <2>4. SameJobs /\ UNCHANGED <<origin, live>>
    BY <1>0, <1>11, SameJobsFacts DEF Spawn, historyVars
  <2> QED
    BY <1>0, <1>11, <2>1, <2>2, <2>3, <2>4, BirthsMove DEF Spawn, TaskPc, Rowless
<1>12. ASSUME NEW j \in 1..Len(jobs), PassStep(j) \/ EndMinutes(j) PROVE Births'
  BY <1>12, BirthsPass
<1>13. CASE CrashAndRestart
  <2>1. \A s \in Sessions : BegunNext(s) <=> Begun(s)
    BY <1>0, <1>13, RecoveredFacts DEF CrashAndRestart, BegunNext, Begun, Exists, historyVars
  <2>2. /\ Len(jobs') = 0 /\ UNCHANGED <<origin, deleted>>
        /\ \A s \in Sessions : live'[s] = IF live[s] = "none" THEN "none" ELSE "off"
        /\ \A c \in Callers : caller'[c].pc = "idle"
    BY <1>13 DEF CrashAndRestart, historyVars, Idle
  <2>3. \A s \in Sessions : BegunNext(s) => origin'[s] # "unused" /\ live'[s] # "opened"
    BY <2>1, <2>2 DEF Births
  <2>4. \A s \in Sessions : live'[s] # "none" => origin'[s] = "live"
    BY <2>2 DEF Births
  <2> QED
    BY <2>2, <2>3, <2>4 DEF Births, Begun, BegunNext, Exists
<1>14. CASE UNCHANGED vars
  BY <1>14, <1>k, BirthsQuiet DEF vars
<1> QED
  BY <1>1, <1>2, <1>3, <1>4, <1>5, <1>6, <1>7, <1>8, <1>9, <1>10, <1>11, <1>12, <1>13, <1>14
     DEF Next, SessionStep, CallerStep

-----------------------------------------------------------------------------
(* What may become of a row in one step that leaves its job where it was   *)
(* or takes it to a step at which nothing is owed to the row.              *)
Owing == {"swapped", "written"}

KeepsPromise(s) ==
    \/ row'[s] = row[s]
    \/ row'[s] = Absent
    \/ /\ Exists(s) /\ row'[s].status \in {"pending", "processing", "failed"}
       /\ row'[s].text = row[s].text /\ (row'[s].refined <=> row[s].refined)

LEMMA AbsentFacts == Absent.status = "absent" /\ Absent.text = "none" /\ ~Absent.refined
BY DEF Absent

LEMMA OutcomesMove ==
    ASSUME TypeOK, Births, Outcomes, SameJobs, UNCHANGED <<origin, deleted>>,
           \A i \in 1..Len(jobs) : task'[i] = task[i] \/ task'[i] \notin Owing,
           \A s \in Sessions : KeepsPromise(s)
    PROVE  Outcomes'
<1>0. row \in [Sessions -> Row] /\ deleted \subseteq Sessions
  BY DEF TypeOK
<1>1. NoResurrection'
  BY <1>0, AbsentFacts DEF Outcomes, NoResurrection, KeepsPromise, Exists
<1>2. RefinedIsWhole'
  BY AbsentFacts DEF Outcomes, RefinedIsWhole, KeepsPromise
<1>3. \A i \in 1..Len(jobs') :
          task'[i] \in Owing /\ row'[jobs'[i].session].status # "absent"
              => row'[jobs'[i].session].text = "whole"
  BY AbsentFacts DEF Outcomes, SameJobs, KeepsPromise, Births, Exists, Owing
<1>4. \A s \in Sessions :
          /\ row'[s].text = "partial" => origin'[s] = "upload"
          /\ row'[s].status = "recording" => origin'[s] = "live"
          /\ origin'[s] = "upload" /\ row'[s].status = "ready" => row'[s].text = "whole"
  BY AbsentFacts DEF Outcomes, KeepsPromise
<1> QED
  BY <1>1, <1>2, <1>3, <1>4 DEF Outcomes, Exists, Owing

LEMMA SetStatusPromise ==
    ASSUME row \in [Sessions -> Row], NEW r, NEW status \in {"pending", "processing", "failed"},
           SetStatus(r, status)
    PROVE  \A s \in Sessions : KeepsPromise(s)
BY DEF SetStatus, KeepsPromise, Exists, Row

LEMMA OutcomesPass ==
    ASSUME GateInv, Births, Outcomes, NEW j \in 1..Len(jobs), PassStep(j) \/ EndMinutes(j)
    PROVE  Outcomes'
<1>0. /\ TypeOK /\ row \in [Sessions -> Row] /\ deleted \subseteq Sessions
      /\ Len(task) = Len(jobs) /\ Len(jobs) \in Nat
      /\ jobs[j].session \in Sessions
      /\ RightKind(task[j], jobs[j].kind)
      /\ jobs[j].kind = "upload" => origin[jobs[j].session] = "upload"
  BY DEF GateInv, TypeOK, RegistryTypeOK, Births, SlotInv, StageKind
<1>1. ASSUME UNCHANGED row PROVE \A s \in Sessions : KeepsPromise(s)
  BY <1>1 DEF KeepsPromise
<1>2. ASSUME UNCHANGED registryVars \/ Complete(j) \/ Fail(j) PROVE SameJobs
  BY <1>0, <1>2, SameJobsFacts
<1>3. ASSUME NEW pc \in TaskPc, Goto(j, pc)
      PROVE  \A i \in 1..Len(jobs) : task'[i] = IF i = j THEN pc ELSE task[i]
  BY <1>0, <1>3, GotoFacts
<1>4. CASE \/ EnterSlot(j) \/ Grant(j) \/ PassRaises(j) \/ FailJob(j) \/ CompleteJob(j)
           \/ BuildTranslator(j) \/ EndMinutes(j)
  <2>1. /\ UNCHANGED <<row, origin, deleted>>
        /\ UNCHANGED registryVars \/ Complete(j) \/ Fail(j)
        /\ \E pc \in TaskPc \ Owing : Goto(j, pc)
    BY <1>4 DEF EnterSlot, Grant, PassRaises, FailJob, CompleteJob, BuildTranslator, EndMinutes,
                storeVars, historyVars, TaskPc, Owing
  <2> QED
    BY <1>0, <1>1, <1>2, <1>3, <2>1, OutcomesMove
<1>5. CASE SetProcessing(j)
  <2>1. \A s \in Sessions : KeepsPromise(s)
    BY <1>0, <1>5, SetStatusPromise DEF SetProcessing
  <2> QED
    BY <1>0, <1>2, <1>3, <1>5, <2>1, OutcomesMove DEF SetProcessing, TaskPc, Owing, historyVars
<1>6. CASE SetFailed(j)
  <2>1. \A s \in Sessions : KeepsPromise(s)
    BY <1>0, <1>1, <1>6, SetStatusPromise DEF SetFailed
  <2> QED
    BY <1>0, <1>2, <1>3, <1>6, <2>1, OutcomesMove DEF SetFailed, TaskPc, Owing, historyVars
<1>7. ASSUME NEW pc \in TaskPc, Goto(j, pc), UNCHANGED <<registryVars, historyVars>>,
             row' = IF Exists(jobs[j].session)
                    THEN [row EXCEPT ![jobs[j].session].text = "whole"] ELSE row
      PROVE  Outcomes'
  <2>1. /\ \A i \in 1..Len(jobs) : task'[i] = IF i = j THEN pc ELSE task[i]
        /\ UNCHANGED <<jobs, origin, deleted>>
    BY <1>3, <1>7 DEF registryVars, historyVars
  <2>2. \A s \in Sessions :
          \/ row'[s] = row[s]
          \/ /\ s = jobs[j].session /\ Exists(s) /\ row'[s].text = "whole"
             /\ row'[s].status = row[s].status /\ (row'[s].refined <=> row[s].refined)
    BY <1>0, <1>7 DEF Row
  <2>3. Exists(jobs[j].session) => row'[jobs[j].session].text = "whole"
    BY <1>0, <1>7 DEF Row
  <2>4. \A s \in Sessions : row'[s].status = row[s].status
    BY <2>2
  <2>5. NoResurrection'
    BY <1>0, <2>1, <2>2, AbsentFacts DEF Outcomes, NoResurrection, Exists
  <2>6. RefinedIsWhole'
    BY <2>2 DEF Outcomes, RefinedIsWhole
  <2>7. \A i \in 1..Len(jobs) :
            task'[i] \in Owing /\ row'[jobs[i].session].status # "absent"
                => row'[jobs[i].session].text = "whole"
    BY <2>1, <2>2, <2>3 DEF Outcomes, Births, Exists, Owing
  <2>8. \A s \in Sessions :
            /\ row'[s].text = "partial" => origin[s] = "upload"
            /\ row'[s].status = "recording" => origin[s] = "live"
            /\ origin[s] = "upload" /\ row'[s].status = "ready" => row'[s].text = "whole"
    BY <2>2 DEF Outcomes
  <2> QED
    BY <2>1, <2>5, <2>6, <2>7, <2>8 DEF Outcomes, Exists, Owing
<1>8. CASE ReplaceSegments(j)
  BY <1>7, <1>8 DEF ReplaceSegments, SessionOf, TaskPc
<1>9. CASE WriteLast(j)
  BY <1>7, <1>9 DEF WriteLast, SessionOf, TaskPc
<1>10. CASE MarkRefined(j)
  <2>1. /\ \A i \in 1..Len(jobs) : task'[i] = IF i = j THEN "refined" ELSE task[i]
        /\ UNCHANGED <<jobs, origin, deleted>>
        /\ task[j] \in Owing
    BY <1>3, <1>10 DEF MarkRefined, AtStep, Owing, registryVars, historyVars, TaskPc
  <2>2. \A s \in Sessions :
          \/ row'[s] = row[s]
          \/ /\ s = jobs[j].session /\ Exists(s) /\ row[s].text = "whole"
             /\ row'[s].status = "ready" /\ row'[s].text = "whole"
    BY <1>0, <1>10, <2>1 DEF MarkRefined, SessionOf, Outcomes, Owing, Row
  <2>3. NoResurrection'
    BY <1>0, <2>1, <2>2, AbsentFacts DEF Outcomes, NoResurrection, Exists
  <2>4. RefinedIsWhole'
    BY <2>2 DEF Outcomes, RefinedIsWhole
  <2>5. \A i \in 1..Len(jobs) :
            task'[i] \in Owing /\ row'[jobs[i].session].status # "absent"
                => row'[jobs[i].session].text = "whole"
    BY <2>1, <2>2 DEF Outcomes, Births, Exists, Owing
  <2>6. \A s \in Sessions :
            /\ row'[s].text = "partial" => origin[s] = "upload"
            /\ row'[s].status = "recording" => origin[s] = "live"
            /\ origin[s] = "upload" /\ row'[s].status = "ready" => row'[s].text = "whole"
    BY <2>2 DEF Outcomes
  <2> QED
    BY <2>1, <2>3, <2>4, <2>5, <2>6 DEF Outcomes, Exists, Owing
<1>11. CASE WriteParagraph(j)
  <2>1. /\ UNCHANGED <<jobs, task, origin, deleted>>
        /\ Exists(jobs[j].session) /\ row[jobs[j].session].text = "none"
        /\ row' = [row EXCEPT ![jobs[j].session].text = "partial"]
        /\ jobs[j].kind = "upload"
    BY <1>11 DEF WriteParagraph, SessionOf, registryVars, historyVars
  <2>2. \A s \in Sessions :
          \/ row'[s] = row[s]
          \/ /\ s = jobs[j].session
             /\ row'[s].status = row[s].status /\ row'[s].text = "partial"
             /\ (row'[s].refined <=> row[s].refined)
    BY <1>0, <2>1 DEF Row
  <2>3. NoResurrection'
    BY <1>0, <2>1, <2>2, AbsentFacts DEF Outcomes, NoResurrection, Exists
  <2>4. RefinedIsWhole'
    BY <2>1, <2>2 DEF Outcomes, RefinedIsWhole
  <2>5. \A i \in 1..Len(jobs) :
            task[i] \in Owing /\ row'[jobs[i].session].status # "absent"
                => row'[jobs[i].session].text = "whole"
    BY <2>1, <2>2 DEF Outcomes, Births, Exists, Owing
  <2>6. \A s \in Sessions :
            /\ row'[s].text = "partial" => origin[s] = "upload"
            /\ row'[s].status = "recording" => origin[s] = "live"
            /\ origin[s] = "upload" /\ row'[s].status = "ready" => row'[s].text = "whole"
    BY <1>0, <2>1, <2>2 DEF Outcomes
  <2> QED
    BY <2>1, <2>3, <2>4, <2>5, <2>6 DEF Outcomes, Exists, Owing
<1>12. CASE UpsertUpload(j)
  <2>1. CASE UNCHANGED row
    <3>1. \E pc \in TaskPc \ Owing : Goto(j, pc)
      BY <1>12 DEF UpsertUpload, TaskPc, Owing
    <3> QED
      BY <1>0, <1>1, <1>2, <1>3, <1>12, <2>1, <3>1, OutcomesMove DEF UpsertUpload, historyVars
  <2>2. CASE /\ row' = [row EXCEPT ![jobs[j].session] = [Absent EXCEPT !.status = "pending"]]
             /\ Goto(j, "queueing")
    <3>1. /\ \A i \in 1..Len(jobs) : task'[i] = IF i = j THEN "queueing" ELSE task[i]
          /\ UNCHANGED <<jobs, origin, deleted>>
          /\ ~Begun(jobs[j].session)
      BY <1>3, <1>12, <2>2 DEF UpsertUpload, AtStep, registryVars, historyVars, TaskPc, Births
    <3>2. \A s \in Sessions :
            \/ row'[s] = row[s]
            \/ /\ s = jobs[j].session
               /\ row'[s].text = "none" /\ row'[s].status = "pending" /\ ~row'[s].refined
      BY <1>0, <2>2 DEF Absent, Row
    <3>3. NoResurrection'
      BY <1>0, <3>1, <3>2 DEF Outcomes, NoResurrection, Begun
    <3>4. RefinedIsWhole'
      BY <1>0, <3>2 DEF Outcomes, RefinedIsWhole
    <3>5. \A i \in 1..Len(jobs) :
              task'[i] \in Owing /\ row'[jobs[i].session].status # "absent"
                  => row'[jobs[i].session].text = "whole"
      BY <1>0, <3>1, <3>2 DEF Outcomes, Births, Exists, Owing, Rowless
    <3>6. \A s \in Sessions :
              /\ row'[s].text = "partial" => origin[s] = "upload"
              /\ row'[s].status = "recording" => origin[s] = "live"
              /\ origin[s] = "upload" /\ row'[s].status = "ready" => row'[s].text = "whole"
      BY <1>0, <3>2 DEF Outcomes
    <3> QED
      BY <3>1, <3>3, <3>4, <3>5, <3>6 DEF Outcomes, Exists, Owing
  <2> QED
    BY <1>12, <2>1, <2>2 DEF UpsertUpload, SessionOf
<1> QED
  BY <1>4, <1>5, <1>6, <1>8, <1>9, <1>10, <1>11, <1>12 DEF PassStep

(* What recovery makes of a row.                                           *)
LEMMA RecoveredPromise ==
    ASSUME NEW r \in Row
    PROVE  /\ Recovered(r).text = r.text /\ (Recovered(r).refined <=> r.refined)
           /\ Recovered(r).status = "ready" => r.status \in {"recording", "ready"}
           /\ r = Absent => Recovered(r) = Absent
<1>1. CASE r.status = "recording"
  BY <1>1 DEF Recovered, Row, Absent
<1>2. CASE r.status \in {"pending", "processing"}
  BY <1>2 DEF Recovered, Row, Absent
<1>3. CASE r.status \notin {"recording", "pending", "processing"}
  BY <1>3 DEF Recovered
<1> QED
  BY <1>1, <1>2, <1>3

LEMMA OutcomesStep == GateInv /\ Births /\ Outcomes /\ [Next]_vars => Outcomes'
<1> SUFFICES ASSUME GateInv, Births, Outcomes, [Next]_vars PROVE Outcomes'
  OBVIOUS
<1>0. /\ TypeOK /\ row \in [Sessions -> Row] /\ deleted \subseteq Sessions
      /\ origin \in [Sessions -> {"unused", "live", "upload"}]
      /\ Len(task) = Len(jobs) /\ Len(jobs) \in Nat
  BY DEF GateInv, TypeOK, RegistryTypeOK
<1>1. ASSUME UNCHANGED <<jobs, task, row, deleted>>,
             \A s \in Sessions : origin'[s] = origin[s] \/ (origin[s] = "unused" /\ origin'[s] = "live")
      PROVE  Outcomes'
  <2>1. \A s \in Sessions :
          /\ row[s].text = "partial" => origin'[s] = "upload"
          /\ row[s].status = "recording" => origin'[s] = "live"
          /\ origin'[s] = "upload" /\ row[s].status = "ready" => row[s].text = "whole"
    BY <1>1 DEF Outcomes
  <2> QED
    BY <1>1, <2>1 DEF Outcomes, NoResurrection, RefinedIsWhole, Exists
(* A row of a recorded session that keeps what a pass has made of it.      *)
<1>2. ASSUME NEW s \in Sessions, UNCHANGED <<jobs, task, origin, deleted>>,
             origin[s] = "live", ~(s \in deleted),
             \A r \in Sessions : r # s => row'[r] = row[r],
             row'[s].text # "partial",
             row'[s].refined => row'[s].text = "whole",
             \/ row'[s].text = row[s].text /\ row'[s].status # "absent" /\ Exists(s)
             \/ ~(row[s].text = "whole") /\ Exists(s)
             \/ ~Begun(s)
      PROVE  Outcomes'
  <2>1. NoResurrection'
    BY <1>0, <1>2 DEF Outcomes, NoResurrection
  <2>2. RefinedIsWhole'
    BY <1>2 DEF Outcomes, RefinedIsWhole
  <2>3. \A i \in 1..Len(jobs) :
          task[i] \in Owing /\ row'[jobs[i].session].status # "absent"
              => row'[jobs[i].session].text = "whole"
    BY <1>2 DEF Outcomes, Births, Exists, Owing, Rowless
  <2>4. \A r \in Sessions :
          /\ row'[r].text = "partial" => origin[r] = "upload"
          /\ row'[r].status = "recording" => origin[r] = "live"
          /\ origin[r] = "upload" /\ row'[r].status = "ready" => row'[r].text = "whole"
    BY <1>2 DEF Outcomes
  <2> QED
    BY <1>2, <2>1, <2>2, <2>3, <2>4 DEF Outcomes, Exists, Owing
<1>3. ASSUME NEW s \in Sessions, Open(s) PROVE Outcomes'
  BY <1>0, <1>1, <1>3 DEF Open, registryVars
<1>4. ASSUME NEW s \in Sessions, Record(s) PROVE Outcomes'
  <2>1. CASE UNCHANGED row
    BY <1>1, <1>4, <2>1 DEF Record, registryVars, historyVars
  <2>2. CASE row' = [row EXCEPT ![s] = [Absent EXCEPT !.status = "recording"]]
    <3>1. origin[s] = "live" /\ ~Begun(s)
      BY <1>4 DEF Record, Births
    <3>2. row'[s].text = "none" /\ ~row'[s].refined
      BY <1>0, <2>2 DEF Absent, Row
    <3>3. \A r \in Sessions : r # s => row'[r] = row[r]
      BY <1>0, <2>2
    <3> QED
      BY <1>2, <1>4, <3>1, <3>2, <3>3 DEF Record, Begun, registryVars, historyVars
  <2> QED
    BY <1>4, <2>1, <2>2 DEF Record
<1>5. ASSUME NEW s \in Sessions, Speech(s) PROVE Outcomes'
  <2>1. origin[s] = "live" /\ Exists(s) /\ row[s].text = "none" /\ s \notin deleted
    BY <1>5, AbsentFacts DEF Speech, Births, Outcomes, NoResurrection, Exists
  <2>2. row'[s].text = "live" /\ ~row'[s].refined
    BY <1>0, <1>5, <2>1 DEF Speech, Row, Outcomes, RefinedIsWhole
  <2>3. \A r \in Sessions : r # s => row'[r] = row[r]
    BY <1>0, <1>5 DEF Speech
  <2> QED
    BY <1>2, <1>5, <2>1, <2>2, <2>3 DEF Speech, registryVars, historyVars
<1>6. ASSUME NEW s \in Sessions, Finish(s) PROVE Outcomes'
  <2>1. CASE UNCHANGED row
    BY <1>1, <1>6, <2>1 DEF Finish, registryVars, historyVars
  <2>2. CASE Exists(s) /\ row' = [row EXCEPT ![s].status = "ready"]
    <3>1. origin[s] = "live" /\ s \notin deleted
      BY <1>6, <2>2, AbsentFacts DEF Finish, Births, Outcomes, NoResurrection, Exists
    <3>2. /\ row'[s].text = row[s].text /\ row'[s].status = "ready"
          /\ row'[s].refined => row[s].refined
      BY <1>0, <2>2 DEF Row
    <3>3. \A r \in Sessions : r # s => row'[r] = row[r]
      BY <1>0, <2>2
    <3>4. row'[s].text # "partial" /\ (row'[s].refined => row'[s].text = "whole")
      BY <3>1, <3>2 DEF Outcomes, RefinedIsWhole
    <3> QED
      BY <1>2, <1>6, <2>2, <3>1, <3>2, <3>3, <3>4 DEF Finish, registryVars, historyVars
  <2> QED
    BY <1>6, <2>1, <2>2 DEF Finish, SetStatus
<1>7. ASSUME Launches PROVE Outcomes'
  <2>1. PICK k \in JobKind, r \in Sessions \cup {NoSession}, pc \in TaskPc : Launch(k, r, pc) /\ pc \notin Owing
    BY <1>0, <1>7 DEF Launches, Upload, StartMinutes, Accept, JobKind, TaskPc, Owing, TypeOK, Caller
  <2>2. /\ Len(jobs') = Len(jobs) + 1
        /\ \A i \in 1..Len(jobs) : jobs'[i] = jobs[i] /\ task'[i] = task[i]
        /\ task'[Len(jobs) + 1] = pc
    BY <1>0, <2>1, LaunchFacts DEF NextJob
  <2>3. /\ UNCHANGED <<row, deleted>>
        /\ \A s \in Sessions :
              origin'[s] = origin[s] \/ (origin[s] = "unused" /\ origin'[s] = "upload")
    BY <1>0, <1>7 DEF Launches, Upload, StartMinutes, Accept, storeVars, historyVars
  <2>4. \A i \in 1..Len(jobs') :
          task'[i] \in Owing /\ row[jobs'[i].session].status # "absent"
              => row[jobs'[i].session].text = "whole"
    BY <1>0, <2>1, <2>2 DEF Outcomes, Owing, Exists
  <2>5. \A s \in Sessions : origin[s] = "unused" => row[s].status = "absent"
    BY DEF Births, Begun, Exists
  <2>6. \A s \in Sessions :
          /\ row[s].text = "partial" => origin'[s] = "upload"
          /\ row[s].status = "recording" => origin'[s] = "live"
          /\ origin'[s] = "upload" /\ row[s].status = "ready" => row[s].text = "whole"
    BY <2>3, <2>5 DEF Outcomes
  <2> QED
    BY <2>3, <2>4, <2>6 DEF Outcomes, NoResurrection, RefinedIsWhole, Exists, Owing
<1>8. ASSUME NEW s \in Sessions, Delete(s) PROVE Outcomes'
  <2>1. /\ UNCHANGED <<jobs, task, origin>>
        /\ \A r \in Sessions : row'[r] = IF r = s THEN Absent ELSE row[r]
        /\ deleted' \subseteq deleted \cup {s}
    BY <1>0, <1>8 DEF Delete, registryVars
  <2>2. NoResurrection'
    BY <1>0, <2>1 DEF Outcomes, NoResurrection
  <2>3. RefinedIsWhole'
    BY <2>1, AbsentFacts DEF Outcomes, RefinedIsWhole
  <2>4. \A i \in 1..Len(jobs) :
          task[i] \in Owing /\ row'[jobs[i].session].status # "absent"
              => row'[jobs[i].session].text = "whole"
    BY <2>1, AbsentFacts DEF Outcomes, Births, Exists, Owing
  <2>5. \A r \in Sessions :
          /\ row'[r].text = "partial" => origin[r] = "upload"
          /\ row'[r].status = "recording" => origin[r] = "live"
          /\ origin[r] = "upload" /\ row'[r].status = "ready" => row'[r].text = "whole"
    BY <2>1, AbsentFacts DEF Outcomes
  <2> QED
    BY <2>1, <2>2, <2>3, <2>4, <2>5 DEF Outcomes, Exists, Owing
<1>9. ASSUME NEW c \in Callers, (\E s \in Sessions : Read(c, s)) \/ Refuse(c) PROVE Outcomes'
  BY <1>1, <1>9 DEF Read, Refuse, registryVars, storeVars, historyVars
<1>10. ASSUME NEW c \in Callers, Spawn(c) PROVE Outcomes'
  <2>1. \A s \in Sessions : KeepsPromise(s)
    <3>1. CASE UNCHANGED row
      BY <3>1 DEF KeepsPromise
    <3>2. CASE SetStatus(caller[c].session, "pending")
      BY <1>0, <3>2, SetStatusPromise
    <3> QED
      BY <1>10, <3>1, <3>2 DEF Spawn
  <2>2. PICK pc \in TaskPc \ Owing : Goto(caller[c].job, pc)
    BY <1>10 DEF Spawn, TaskPc, Owing
  <2>3. \A i \in 1..Len(jobs) : task'[i] = task[i] \/ task'[i] \notin Owing
    BY <1>0, <2>2, GotoFacts
  <2>4. SameJobs /\ UNCHANGED <<origin, deleted>>
    BY <1>0, <1>10, SameJobsFacts DEF Spawn, historyVars
  <2> QED
    BY <1>0, <2>1, <2>3, <2>4, OutcomesMove
<1>11. ASSUME NEW j \in 1..Len(jobs), PassStep(j) \/ EndMinutes(j) PROVE Outcomes'
  BY <1>11, OutcomesPass
<1>12. CASE CrashAndRestart
  <2>1. /\ Len(jobs') = 0 /\ UNCHANGED <<origin, deleted>>
        /\ \A s \in Sessions : row'[s] = Recovered(row[s]) /\ row[s] \in Row
    BY <1>0, <1>12 DEF CrashAndRestart, historyVars
  <2>2. NoResurrection'
    BY <1>0, <2>1, RecoveredPromise DEF Outcomes, NoResurrection
  <2>3. RefinedIsWhole'
    BY <2>1, RecoveredPromise DEF Outcomes, RefinedIsWhole
  <2>4. \A s \in Sessions :
          /\ row'[s].text = "partial" => origin[s] = "upload"
          /\ row'[s].status = "recording" => origin[s] = "live"
          /\ origin[s] = "upload" /\ row'[s].status = "ready" => row'[s].text = "whole"
    BY <2>1, RecoveredPromise, RecoveredFacts DEF Outcomes
  <2> QED
    BY <2>1, <2>2, <2>3, <2>4 DEF Outcomes
<1>13. CASE UNCHANGED vars
  BY <1>1, <1>13 DEF vars
<1> QED
  BY <1>3, <1>4, <1>5, <1>6, <1>7, <1>8, <1>9, <1>10, <1>11, <1>12, <1>13
     DEF Next, SessionStep, CallerStep, Launches

-----------------------------------------------------------------------------
LEMMA OutcomesHold == Spec => [](GateInv /\ Births /\ Outcomes)
<1>1. Init => Births
  BY DEF Init, RegistryInit, Births, Begun, Exists, Absent, Idle
<1>2. Init => Outcomes
  BY DEF Init, RegistryInit, Outcomes, NoResurrection, RefinedIsWhole, Exists, Absent
<1> QED
  BY <1>1, <1>2, BirthsStep, OutcomesStep, GateHolds, PTL DEF Spec

(* A deleted session stays deleted: no pass, upload or live connection     *)
(* that was running on it writes its row again (set_session_status and     *)
(* mark_refined are updates, Store.upsert_session is only called before).  *)
THEOREM DeletedStaysDeleted == Spec => []NoResurrection
<1>1. Outcomes => NoResurrection
  BY DEF Outcomes
<1> QED
  BY <1>1, OutcomesHold, PTL

(* refined_at is only ever set on a transcript that a whole-recording pass *)
(* has written (Store.mark_refined), whatever fails, is deleted or crashes.*)
THEOREM RefinedMeansWhole == Spec => []RefinedIsWhole
<1>1. Outcomes => RefinedIsWhole
  BY DEF Outcomes
<1> QED
  BY <1>1, OutcomesHold, PTL

-----------------------------------------------------------------------------
(* A live connection that is on goes off by finishing, which sets the      *)
(* status, or in a crash, which recovery does.                             *)
LEMMA RecordingIsLiveStep ==
    ASSUME ~StoreFails
    PROVE  TypeOK /\ Births /\ RecordingIsLive /\ [Next]_vars => RecordingIsLive'
<1> SUFFICES ASSUME TypeOK, Births, RecordingIsLive, [Next]_vars,
                    NEW s \in Sessions, row'[s].status = "recording", live'[s] # "on"
             PROVE  FALSE
  BY DEF RecordingIsLive
<1>0. /\ row \in [Sessions -> Row]
      /\ live \in [Sessions -> {"none", "opened", "on", "off"}]
  BY DEF TypeOK
<1>1. row[s].status = "recording" /\ live[s] = "on"
  BY RowSteps DEF RecordingIsLive
<1>2. ASSUME NEW r \in Sessions, SessionStep(r) PROVE FALSE
  <2>1. CASE Finish(r)
    <3>1. r = s
      BY <1>0, <1>1, <2>1 DEF Finish
    <3>2. row'[s].status = "ready"
      BY <1>0, <1>1, <2>1, <3>1 DEF Finish, SetStatus, Exists, Row
    <3> QED
      BY <3>2
  <2>2. CASE Open(r)
    <3>1. r # s
      BY <1>1, <2>2 DEF Open, Births
    <3> QED
      BY <1>0, <1>1, <2>2, <3>1 DEF Open
  <2>3. CASE Record(r)
    BY <1>0, <1>1, <2>3 DEF Record
  <2>4. CASE Speech(r) \/ Upload(r) \/ StartMinutes(r) \/ Delete(r)
    BY <1>1, <2>4 DEF Speech, Upload, StartMinutes, Delete
  <2> QED
    BY <1>2, <2>1, <2>2, <2>3, <2>4 DEF SessionStep
<1>3. ASSUME NEW c \in Callers, CallerStep(c) PROVE FALSE
  BY <1>1, <1>3 DEF CallerStep, Read, Refuse, Accept, Spawn
<1>4. ASSUME NEW j \in 1..Len(jobs), PassStep(j) \/ EndMinutes(j) PROVE FALSE
  BY <1>1, <1>4 DEF PassStep, EnterSlot, Grant, SetProcessing, PassRaises, SetFailed,
     FailJob, ReplaceSegments, MarkRefined, CompleteJob, BuildTranslator, UpsertUpload,
     WriteParagraph, WriteLast, EndMinutes
<1>5. CASE CrashAndRestart
  BY <1>0, <1>5, RecoveredFacts DEF CrashAndRestart
<1>6. CASE UNCHANGED vars
  BY <1>1, <1>6 DEF vars
<1> QED
  BY <1>2, <1>3, <1>4, <1>5, <1>6 DEF Next

(* A session says recording only while it is, and ready only when its      *)
(* transcript is not half an upload, over any crash, deletion and failing  *)
(* pass, as long as the store's calls do not raise                         *)
(* (Store.recover_statuses and the end of a live connection).              *)
THEOREM StatusIsHonest ==
    ASSUME ~StoreFails
    PROVE  Spec => []StatusIsTrue
<1>1. Init => RecordingIsLive
  BY DEF Init, RecordingIsLive, Absent
<1>2. GateInv => TypeOK
  BY DEF GateInv
<1>3. TypeOK /\ Outcomes /\ RecordingIsLive => StatusIsTrue
  <2> SUFFICES ASSUME TypeOK, Outcomes, RecordingIsLive PROVE StatusIsTrue
    OBVIOUS
  <2>1. origin \in [Sessions -> {"unused", "live", "upload"}]
    BY DEF TypeOK
  <2>2. PartialNeverReady
    BY <2>1 DEF Outcomes, PartialNeverReady
  <2> QED
    BY <2>2 DEF StatusIsTrue
<1> QED
  BY <1>1, <1>2, <1>3, RecordingIsLiveStep, OutcomesHold, PTL DEF Spec
=============================================================================
