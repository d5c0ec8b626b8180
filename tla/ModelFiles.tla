----------------------------- MODULE ModelFiles -----------------------------
(***************************************************************************)
(* The model files on disk: the download job of api/models.py, which        *)
(* resumes, verifies and renames (core/models.py), the deletion of a model, *)
(* and an engine that is killed in between.                                 *)
(*                                                                         *)
(* A file is the sequence of its chunks, numbered from 1; Bad is a chunk    *)
(* that the network damaged or a hole.  An open file is followed to where   *)
(* its bytes now are: in the partial file, in the installed one it has been *)
(* renamed to, or nowhere, once it is unlinked.                             *)
(***************************************************************************)
EXTENDS Naturals, Sequences

CONSTANTS
    Models,         \* one file each
    Hashed,         \* those whose catalogue entry carries a sha256
    Jobs,           \* download jobs that may run at the same time
    Size,           \* chunks of a file
    MaxFaults,      \* bound: damaged chunks, broken connections, crashes
    MaxDeletes      \* bound: models deleted

ASSUME ModelFilesAssumption ==
    /\ Hashed \subseteq Models
    /\ Size \in Nat \ {0} /\ MaxFaults \in Nat /\ MaxDeletes \in Nat

VARIABLES
    installed,      \* the file at its path
    partial,        \* the file beside it, called .partial
    job,            \* the download jobs
    deleting,       \* the model a deletion is busy with, or "none"
    shared,         \* history: models that two jobs have had in hand at once
    faults, deletes, crashed

disk == <<installed, partial>>
counters == <<faults, deletes, crashed>>
vars == <<disk, job, deleting, shared, counters>>

Bad == Size + 1
NoFile == <<0>>
Whole == [i \in 1..Size |-> i]
Content == {NoFile} \cup Seq(1..Bad)

(* asked, todo: the files the job was created for, and those ahead of it.   *)
(* have: the size of the partial file when it was looked at; next: the      *)
(* chunk the server sends next; at: where the bytes go; append: mode "ab".  *)
Idle == [pc |-> "idle", asked |-> {}, todo |-> {}, model |-> "none", have |-> 0,
         next |-> 1, done |-> 0, at |-> "gone", append |-> FALSE]
JobPc == {"idle", "next", "open", "read", "hash", "rename", "done", "failed"}
Ended == {"idle", "done", "failed"}
Fetching == {"open", "read", "hash", "rename"}

TypeOK ==
    /\ installed \in [Models -> Content] /\ partial \in [Models -> Content]
    /\ job \in [Jobs -> [pc : JobPc, asked : SUBSET Models, todo : SUBSET Models,
                   model : Models \cup {"none"}, have : Nat, next : 1..Size + 1,
                   done : Nat, at : {"partial", "installed", "gone"},
                   append : BOOLEAN]]
    /\ deleting \in Models \cup {"none"} /\ shared \subseteq Models
    /\ faults \in 0..MaxFaults /\ deletes \in 0..MaxDeletes /\ crashed \in BOOLEAN

Init ==
    /\ installed = [m \in Models |-> NoFile]
    /\ partial = [m \in Models |-> NoFile]
    /\ job = [j \in Jobs |-> Idle]
    /\ deleting = "none" /\ shared = {}
    /\ faults = 0 /\ deletes = 0 /\ crashed = FALSE

Length(file) == IF file = NoFile THEN 0 ELSE Len(file)
Present(m) == Length(installed[m]) >= Size
Fault == faults < MaxFaults /\ faults' = faults + 1 /\ UNCHANGED <<deletes, crashed>>

Moved(m, from, to) ==
    [j \in Jobs |-> IF job[j].model = m /\ job[j].at = from
                    THEN [job[j] EXCEPT !.at = to] ELSE job[j]]
Fails(jobs, j) == [jobs EXCEPT ![j] = [Idle EXCEPT !.pc = "failed"]]

(***************************************************************************)
(* POST /models/download.  Nothing refuses a second one: its job fetches    *)
(* what is missing when it is posted, though another is at it already, and  *)
(* what has been installed since.                                           *)
(***************************************************************************)
Post(j) ==
    /\ job[j].pc \in Ended
    /\ LET missing == {m \in Models : ~Present(m)}
       IN /\ missing # {}
          /\ job' = [job EXCEPT ![j] = [Idle EXCEPT !.pc = "next", !.asked = missing,
                                                   !.todo = missing]]
    /\ UNCHANGED <<disk, deleting, shared, counters>>

(* The size of the partial file is taken before the thread that opens the   *)
(* URL is waited for.                                                       *)
NextFile(j) ==
    /\ job[j].pc = "next"
    /\ \/ /\ job[j].todo = {}
          /\ job' = [job EXCEPT ![j] = [Idle EXCEPT !.pc = "done", !.asked = job[j].asked]]
          /\ UNCHANGED shared
       \/ /\ job[j].todo # {}
          /\ LET m == CHOOSE m \in job[j].todo : TRUE
                 rivals == {i \in Jobs \ {j} : job[i].pc \in Fetching /\ job[i].model = m}
             IN /\ job' = [job EXCEPT ![j].pc = "open", ![j].todo = @ \ {m}, ![j].model = m,
                                      ![j].have = Length(partial[m])]
                /\ shared' = IF rivals = {} THEN shared ELSE shared \cup {m}
    /\ UNCHANGED <<disk, deleting, counters>>

(* The server cannot be reached, or refuses a range past the end.           *)
OpenFails(j) ==
    /\ job[j].pc = "open"
    /\ \/ job[j].have >= Size /\ UNCHANGED counters
       \/ Fault
    /\ job' = Fails(job, j)
    /\ UNCHANGED <<disk, deleting, shared>>

Opened(j, from, append) ==
    job' = [job EXCEPT ![j].pc = "read", ![j].have = 0, ![j].next = from,
                       ![j].done = from - 1, ![j].at = "partial", ![j].append = append]

(* 206: the rest is appended to whatever is there by now.                   *)
Resumes(j) ==
    /\ job[j].pc = "open" /\ job[j].have \in 1..Size - 1
    /\ LET m == job[j].model
       IN partial' = IF partial[m] = NoFile THEN [partial EXCEPT ![m] = <<>>] ELSE partial
    /\ Opened(j, job[j].have + 1, TRUE)
    /\ UNCHANGED <<installed, deleting, shared, counters>>

(* 200: asked for the whole file, or given it because the server does not   *)
(* know ranges: start over.                                                 *)
(* Mutant: what was there is kept and the answer appended. *)
AppendsAll(j) ==
    /\ job[j].pc = "open" /\ job[j].have < Size
    /\ LET m == job[j].model
       IN partial' = IF partial[m] = NoFile THEN [partial EXCEPT ![m] = <<>>] ELSE partial
    /\ Opened(j, 1, TRUE)
    /\ UNCHANGED <<installed, deleting, shared, counters>>
StartsOver(j) ==
    /\ job[j].pc = "open"
    /\ partial' = [partial EXCEPT ![job[j].model] = <<>>]
    /\ Opened(j, 1, FALSE)
    /\ UNCHANGED <<installed, deleting, shared, counters>>

(* One chunk into a file: at its end, or at the position of the writer.     *)
Written(file, j, chunk) ==
    IF job[j].append \/ job[j].done = Len(file) THEN Append(file, chunk)
    ELSE [i \in 1..(IF job[j].done < Len(file) THEN Len(file) ELSE job[j].done + 1) |->
             IF i = job[j].done + 1 THEN chunk ELSE IF i \in DOMAIN file THEN file[i] ELSE Bad]

ReadChunk(j) ==
    /\ job[j].pc = "read" /\ job[j].next <= Size
    /\ \E chunk \in {job[j].next, Bad} :
          /\ IF chunk = Bad THEN Fault ELSE UNCHANGED counters
          /\ LET m == job[j].model
             IN /\ partial' = IF job[j].at = "partial"
                              THEN [partial EXCEPT ![m] = Written(@, j, chunk)] ELSE partial
                /\ installed' = IF job[j].at = "installed"
                                THEN [installed EXCEPT ![m] = Written(@, j, chunk)] ELSE installed
    /\ job' = [job EXCEPT ![j].next = @ + 1, ![j].done = @ + 1]
    /\ UNCHANGED <<deleting, shared>>

(* The connection ends before the file does: an exception, or a short count.*)
ReadBreaks(j) ==
    /\ job[j].pc = "read" /\ job[j].next <= Size /\ Fault
    /\ job' = Fails(job, j)
    /\ UNCHANGED <<disk, deleting, shared>>

(* The file is closed, and how it was read is of no consequence any more.   *)
Finishes(j, pc, model) ==
    [Idle EXCEPT !.pc = pc, !.asked = job[j].asked, !.todo = job[j].todo, !.model = model]

(* os.replace; it raises when a deletion has taken the file away.           *)
Renamed(j) ==
    LET m == job[j].model
    IN \/ /\ partial[m] = NoFile /\ job' = Fails(job, j) /\ UNCHANGED disk
       \/ /\ partial[m] # NoFile
          /\ installed' = [installed EXCEPT ![m] = partial[m]]
          /\ partial' = [partial EXCEPT ![m] = NoFile]
          /\ job' = [i \in Jobs |->
                IF i = j THEN Finishes(j, "next", "none")
                ELSE IF job[i].model # m \/ job[i].at = "gone" THEN job[i]
                ELSE [job[i] EXCEPT !.at = IF @ = "partial" THEN "installed" ELSE "gone"]]

(* With no hash to compare there is no suspension before the rename.        *)
ReadEnds(j) ==
    /\ job[j].pc = "read" /\ job[j].next > Size
    /\ \/ /\ job[j].model \in Hashed
          /\ job' = [job EXCEPT ![j] = Finishes(j, "hash", job[j].model)]
          /\ UNCHANGED disk
       \/ job[j].model \notin Hashed /\ Renamed(j)
    /\ UNCHANGED <<deleting, shared, counters>>

(* The hash is of what bears the name .partial when the thread reads it.    *)
(* Mutant: the mismatch is neither raised nor answered. *)
HashOrNothing(j) ==
    /\ job[j].pc = "hash" /\ partial[job[j].model] = Whole
    /\ job' = [job EXCEPT ![j].pc = "rename"]
    /\ UNCHANGED <<disk, deleting, shared, counters>>
(* Mutant: no catalogue entry is asked for its hash. *)
HashIgnored(j) ==
    /\ job[j].pc = "hash"
    /\ job' = [job EXCEPT ![j].pc = "rename"]
    /\ UNCHANGED <<disk, deleting, shared, counters>>
HashTaken(j) ==
    /\ job[j].pc = "hash"
    /\ LET m == job[j].model
       IN \/ /\ partial[m] = Whole
             /\ job' = [job EXCEPT ![j].pc = "rename"]
             /\ UNCHANGED partial
          \/ /\ partial[m] # Whole
             /\ partial' = [partial EXCEPT ![m] = NoFile]
             /\ job' = Fails(Moved(m, "partial", "gone"), j)
    /\ UNCHANGED <<installed, deleting, shared, counters>>

Rename(j) == job[j].pc = "rename" /\ Renamed(j) /\ UNCHANGED <<deleting, shared, counters>>

(***************************************************************************)
(* DELETE /models/{model_id}: the file, then its partial, a thread for each *)
(***************************************************************************)
Delete(m) ==
    /\ deleting = "none" /\ deletes < MaxDeletes
    /\ deleting' = m /\ deletes' = deletes + 1
    /\ installed' = [installed EXCEPT ![m] = NoFile]
    /\ job' = Moved(m, "installed", "gone")
    /\ UNCHANGED <<partial, shared, faults, crashed>>

DeletePartial ==
    /\ deleting # "none"
    /\ partial' = [partial EXCEPT ![deleting] = NoFile]
    /\ job' = Moved(deleting, "partial", "gone")
    /\ deleting' = "none"
    /\ UNCHANGED <<installed, shared, counters>>

Crash ==
    /\ faults < MaxFaults /\ faults' = faults + 1 /\ crashed' = TRUE
    /\ job' = [j \in Jobs |-> Idle] /\ deleting' = "none"
    /\ UNCHANGED <<disk, shared, deletes>>

-----------------------------------------------------------------------------
JobStep(j) ==
    NextFile(j) \/ OpenFails(j) \/ Resumes(j) \/ StartsOver(j) \/ ReadChunk(j)
    \/ ReadBreaks(j) \/ ReadEnds(j) \/ HashTaken(j) \/ Rename(j)

Next ==
    \/ \E j \in Jobs : Post(j) \/ JobStep(j)
    \/ \E m \in Models : Delete(m)
    \/ DeletePartial \/ Crash

(* A read ends: urlopen is given a timeout of thirty seconds.               *)
Fairness == \A j \in Jobs : WF_vars(JobStep(j))
Spec == Init /\ [][Next]_vars /\ Fairness

-----------------------------------------------------------------------------
(* Resuming neither repeats nor skips: each chunk is where it belongs, in   *)
(* the file of a model with no hash as well (core/models.py:149).  Two      *)
(* exceptions: a partial file deleted while its URL is being opened is      *)
(* begun again in the middle, and two jobs with one model in hand write     *)
(* over one another; only a hash finds either out, and not always.          *)
Aligned(file) == Len(file) <= Size /\ \A i \in DOMAIN file : file[i] \in {i, Bad}
ChunksInPlace ==
    \A m \in Models \ shared : \A file \in {partial[m], installed[m]} :
        deletes = 0 /\ file # NoFile => Aligned(file)

(* A job that reports success has installed each of its files, whatever     *)
(* else is deleted or failing (api/models.py:451), if no other job had      *)
(* them in hand.                                                            *)
DoneIsInstalled ==
    \A j \in Jobs : job[j].pc = "done" /\ deletes = 0 =>
        \A m \in job[j].asked \ shared : Present(m)

(* A failed download does not stand in the way of the next: no partial file *)
(* is so long that the server would refuse the range.  The exceptions are   *)
(* an engine killed between the last chunk and the rename, and a file two   *)
(* jobs appended to.                                                        *)
NextCanResume ==
    \A m \in Models \ shared :
        ~crashed /\ (\A j \in Jobs : job[j].pc \in Ended) => Length(partial[m]) < Size

(* A download job ends, whatever the others do to its files.                *)
JobEnds == \A j \in Jobs : job[j].pc \notin Ended ~> job[j].pc \in Ended

(* The path of a hashed model is written atomically, however the downloads  *)
(* of other models overlap.  What two jobs had in hand counts as missing:   *)
(* the second may write on after the hash of the first was taken, and       *)
(* nothing is promised of that file any more.                               *)
FileState(m) ==
    IF m \in shared \/ installed[m] = NoFile THEN "missing"
    ELSE IF installed[m] = Whole THEN "whole" ELSE "torn"
Abstract == INSTANCE AtomicInstall
    WITH Items <- Hashed, state <- [m \in Hashed |-> FileState(m)]
AtomicallyInstalled == Abstract!Spec

(* Whatever breaks off, is damaged or fails, the bytes are in their place,  *)
(* success means that all is there, and failure that it can be tried again. *)
DownloadsAreSound ==
    /\ TypeOK
    /\ ChunksInPlace
    /\ DoneIsInstalled
    /\ NextCanResume
=============================================================================
