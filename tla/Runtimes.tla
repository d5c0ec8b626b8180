------------------------------ MODULE Runtimes ------------------------------
(***************************************************************************)
(* The compute runtimes: which pack the engine activates and when it may    *)
(* still change its mind, how a pack is downloaded, verified, unpacked and   *)
(* removed, each in a thread (core/runtimes.py), and the handlers that ask   *)
(* for it (api/compute.py).                                                 *)
(*                                                                         *)
(* A pack's directory is "none", "whole", "foreign" (built for another      *)
(* Python), or in the course of an rmtree: "torn" while its manifest is      *)
(* still there, then "gutted".  An archive is the set of its chunks.        *)
(***************************************************************************)
EXTENDS Naturals, Sequences

CONSTANTS
    Packs,          \* the variants that are downloaded
    Builtin,        \* the one compiled into the app
    Ranking,        \* the platform's accelerators, best first
    Installs,       \* the install jobs, each of which runs once
    Size,           \* chunks of an archive
    MaxFaults,      \* bound: broken connections and crashes
    MaxRequests     \* bound: choices and removals

ASSUME RuntimesAssumption ==
    /\ Builtin \notin Packs /\ {"auto", "none"} \cap (Packs \cup {Builtin}) = {}
    /\ Ranking \in Seq(Packs \cup {Builtin})
    /\ Size \in Nat \ {0} /\ MaxFaults \in Nat /\ MaxRequests \in Nat

VARIABLES
    pack,           \* the directory of each variant
    archive,        \* the .zip.partial of each variant: its chunks, or NoFile
    install,        \* the install jobs
    request,        \* the one handler that chooses or removes
    pin, filePin,   \* compute.accelerator, in memory and in the user config
    bad,            \* variants marked bad, in memory and in state.json
    active,         \* the variant whose modules are routed
    imported,       \* the runtime a native backend was imported from
    faults, requests,
    cut, raced, answered  \* history: see the properties

disk == <<pack, archive>>
choice == <<pin, filePin, bad, active>>
counters == <<faults, requests>>
history == <<cut, raced, answered>>
vars == <<disk, install, request, choice, imported, counters, history>>

Variants == Packs \cup {Builtin}
None == "none"
NoFile == {0}
Full == 1..Size

Resting == [pc |-> "idle", of |-> Builtin, next |-> 1, named |-> FALSE]
InstallPc == {"idle", "open", "read", "hash", "unpack", "place", "clear", "move",
              "finish", "done", "failed"}
Over == {"idle", "done", "failed"}
Waiting == [pc |-> "idle", of |-> Builtin]

TypeOK ==
    /\ pack \in [Packs -> {"none", "whole", "foreign", "torn", "gutted"}]
    /\ archive \in [Packs -> (SUBSET Full) \cup {NoFile}]
    /\ install \in [Installs -> [pc : InstallPc, of : Variants, next : 1..Size + 1,
                       named : BOOLEAN]]
    /\ request \in [pc : {"idle", "write", "set", "clear", "check", "deactivate", "activate"},
                    of : Variants \cup {"auto"}]
    /\ pin \in Variants \cup {"auto"} /\ filePin \in Variants \cup {"auto"}
    /\ bad \subseteq Packs /\ active \in Variants \cup {None}
    /\ imported \in Variants \cup {None}
    /\ faults \in 0..MaxFaults /\ requests \in 0..MaxRequests
    /\ cut \subseteq Packs /\ raced \in BOOLEAN /\ answered \in Variants \cup {"auto"}

Init ==
    /\ pack \in [Packs -> {"none", "whole", "foreign"}]
    /\ archive = [v \in Packs |-> NoFile]
    /\ install = [i \in Installs |-> Resting]
    /\ request = Waiting
    /\ pin = "auto" /\ filePin = "auto" /\ answered = "auto"
    /\ bad = {} /\ active = None /\ imported = None
    /\ faults = 0 /\ requests = 0 /\ cut = {} /\ raced = FALSE

(***************************************************************************)
(* Which variant: candidates, select, activate                             *)
(***************************************************************************)
Installed(v) == v \in Packs => pack[v] \in {"whole", "foreign", "torn"}

(* The built-in one is last, and never dropped, so there is always one.     *)
Candidates == (IF pin = "auto" THEN Ranking ELSE <<pin>>) \o <<Builtin>>
Usable(k) == Candidates[k] \notin bad /\ Installed(Candidates[k])

(* select takes the first that is installed; activate marks it bad when it  *)
(* was built for another Python, and selects again.                         *)
Fits(k) == Usable(k) /\ (Candidates[k] \in Packs => pack[Candidates[k]] # "foreign")
Chosen(k) == Fits(k) /\ \A j \in 1..k - 1 : ~Fits(j)
Activated ==
    \E k \in DOMAIN Candidates :
        /\ Chosen(k)
        /\ active' = Candidates[k]
        /\ bad' = bad \cup {Candidates[j] : j \in {j \in 1..k - 1 : Usable(j)}}

(* The lifespan, before any native backend is imported. *)
Start ==
    /\ active = None /\ request.pc = "idle" /\ Activated
    /\ UNCHANGED <<disk, install, request, pin, filePin, imported, counters, history>>

(* A backend loads: through the finder when the pack has what it asks for,  *)
(* and that one is gone a moment before active says so.                     *)
Routed == IF active \in Packs /\ pack[active] = "whole" THEN active ELSE Builtin
Import ==
    /\ imported = None /\ (active # None \/ request.pc = "activate")
    /\ imported' \in IF request.pc = "deactivate" THEN {Routed, Builtin} ELSE {Routed}
    /\ raced' = (raced \/ imported' # active \/ request.pc = "deactivate")
    /\ UNCHANGED <<disk, install, request, choice, counters, cut, answered>>

(***************************************************************************)
(* ensure: download, verify, unpack beside, move into place                 *)
(***************************************************************************)
Fault == faults < MaxFaults /\ faults' = faults + 1 /\ UNCHANGED requests
Step(i, pc) == install' = [install EXCEPT ![i].pc = pc]
installFrame == <<request, pin, filePin, active, imported, history>>

(* The archive's name is given up: whoever still writes to it goes on       *)
(* writing to a file without a name.                                        *)
Unlink(i, pc) ==
    LET v == install[i].of
    IN /\ archive' = [archive EXCEPT ![v] = NoFile]
       /\ install' = [k \in Installs |->
             IF k = i THEN [Resting EXCEPT !.pc = pc, !.of = v]
             ELSE IF install[k].of = v THEN [install[k] EXCEPT !.named = FALSE] ELSE install[k]]
Fails(i) == Unlink(i, "failed")

PostInstall(i, v) ==
    /\ install[i].pc = "idle" /\ ~Installed(v)
    /\ install' = [install EXCEPT ![i] = [Resting EXCEPT !.pc = "open", !.of = v]]
    /\ UNCHANGED <<disk, installFrame, bad, counters>>

(* Meanwhile installed by another job: nothing to do.  Otherwise the file   *)
(* is opened "wb": begun, or cut to nothing under whoever writes it too.     *)
Open(i) ==
    /\ install[i].pc = "open"
    /\ LET v == install[i].of
       IN \/ /\ Installed(v) /\ Step(i, "done") /\ UNCHANGED <<archive, counters>>
          \/ /\ ~Installed(v) /\ archive' = [archive EXCEPT ![v] = {}]
             /\ install' = [install EXCEPT ![i].pc = "read", ![i].named = TRUE]
             /\ UNCHANGED counters
          \/ ~Installed(v) /\ Fault /\ Fails(i)
    /\ UNCHANGED <<pack, installFrame, bad>>

Read(i) ==
    /\ install[i].pc = "read"
    /\ \/ /\ install[i].next <= Size
          /\ archive' = IF install[i].named
                        THEN [archive EXCEPT ![install[i].of] = @ \cup {install[i].next}]
                        ELSE archive
          /\ install' = [install EXCEPT ![i].next = @ + 1]
          /\ UNCHANGED counters
       \/ install[i].next <= Size /\ Fault /\ Fails(i)
       \/ install[i].next > Size /\ Step(i, "hash") /\ UNCHANGED <<archive, counters>>
    /\ UNCHANGED <<pack, installFrame, bad>>

(* The hash, and later the unpacking, open what bears the name by then.     *)
Hash(i) ==
    /\ install[i].pc = "hash"
    /\ IF archive[install[i].of] = Full
       THEN Step(i, "unpack") /\ UNCHANGED archive ELSE Fails(i)
    /\ UNCHANGED <<pack, installFrame, bad, counters>>

(* Mutant: unpacked where it will be used. *)
UnpackInPlace(i) ==
    /\ install[i].pc = "unpack"
    /\ \/ /\ archive[install[i].of] = Full /\ pack[install[i].of] = "none"
          /\ pack' = [pack EXCEPT ![install[i].of] = "torn"]
          /\ Step(i, "move") /\ UNCHANGED archive
       \/ (archive[install[i].of] # Full \/ pack[install[i].of] # "none")
          /\ Fails(i) /\ UNCHANGED pack
    /\ UNCHANGED <<installFrame, bad, counters>>
Unpack(i) ==
    /\ install[i].pc = "unpack"
    /\ IF archive[install[i].of] = Full
       THEN Step(i, "place") /\ UNCHANGED archive ELSE Fails(i)
    /\ UNCHANGED <<pack, installFrame, bad, counters>>

(* shutil.rmtree, entry by entry. *)
Rmtree(v) ==
    pack' = [pack EXCEPT ![v] = CASE @ \in {"whole", "foreign"} -> "torn"
                                  [] @ = "torn" -> "gutted"
                                  [] OTHER -> "none"]

Place(i) ==
    /\ install[i].pc = "place"
    /\ LET v == install[i].of
       IN IF pack[v] = "none" THEN Step(i, "move") /\ UNCHANGED pack
          ELSE Step(i, "clear") /\ Rmtree(v)
    /\ UNCHANGED <<archive, installFrame, bad, counters>>

(* Two rmtrees of one directory: the one that finds it gone raises.         *)
(* Mutant: the one that finds it gone waits for it. *)
ClearWaits(i) ==
    /\ install[i].pc = "clear"
    /\ LET v == install[i].of
       IN /\ pack[v] \in {"torn", "gutted"} /\ Rmtree(v)
          /\ IF pack[v] = "gutted" THEN Step(i, "move") ELSE UNCHANGED install
    /\ UNCHANGED <<archive, installFrame, bad, counters>>
Clear(i) ==
    /\ install[i].pc = "clear"
    /\ LET v == install[i].of
       IN \/ /\ pack[v] \in {"torn", "gutted"} /\ Rmtree(v)
             /\ IF pack[v] = "gutted" THEN Step(i, "move") ELSE UNCHANGED install
             /\ UNCHANGED archive
          \/ pack[v] \in {"none", "whole"} /\ Fails(i) /\ UNCHANGED pack
    /\ UNCHANGED <<installFrame, bad, counters>>

(* os.replace of the unpacked directory; it raises over one that is there.  *)
Move(i) ==
    /\ install[i].pc = "move"
    /\ LET v == install[i].of
       IN \/ /\ pack[v] = "none" /\ pack' = [pack EXCEPT ![v] = "whole"]
             /\ Step(i, "finish") /\ UNCHANGED archive
          \/ pack[v] # "none" /\ Fails(i) /\ UNCHANGED pack
    /\ cut' = IF pack[install[i].of] = "none" THEN cut \ {install[i].of} ELSE cut
    /\ UNCHANGED <<request, pin, filePin, active, imported, raced, answered, bad, counters>>

Finish(i) ==
    /\ install[i].pc = "finish"
    /\ Unlink(i, "done")
    /\ bad' = bad \ {install[i].of}
    /\ UNCHANGED <<pack, installFrame, counters>>

InstallStep(i) ==
    Open(i) \/ Read(i) \/ Hash(i) \/ Unpack(i) \/ Place(i) \/ Clear(i) \/ Move(i) \/ Finish(i)

(***************************************************************************)
(* POST /compute/select and DELETE /compute/packs/{variant}                 *)
(***************************************************************************)
Ask == active # None /\ request.pc = "idle" /\ requests < MaxRequests /\ requests' = requests + 1
requestFrame == <<archive, install, imported, faults, cut, raced>>

Select(v) ==
    /\ Ask /\ bad' = bad \ {v}
    /\ request' = [pc |-> "write", of |-> v]
    /\ UNCHANGED <<requestFrame, pack, pin, filePin, active, answered>>

WriteChoice ==
    /\ request.pc = "write" /\ filePin' = request.of
    /\ request' = [request EXCEPT !.pc = "set"]
    /\ UNCHANGED <<requestFrame, pack, pin, bad, active, requests, answered>>

SetChoice ==
    /\ request.pc = "set" /\ pin' = request.of /\ answered' = request.of
    /\ request' = [request EXCEPT !.pc = "check"]
    /\ UNCHANGED <<requestFrame, pack, filePin, bad, active, requests>>

Remove(v) ==
    /\ Ask /\ pack[v] # "none" /\ Rmtree(v)
    /\ request' = [pc |-> "clear", of |-> v]
    /\ UNCHANGED <<requestFrame, choice, answered>>

RemoveStep ==
    /\ request.pc = "clear"
    /\ LET v == request.of
       IN \/ /\ pack[v] \in {"torn", "gutted"} /\ Rmtree(v)
             /\ request' = IF pack[v] = "gutted" THEN [request EXCEPT !.pc = "check"] ELSE request
          \/ pack[v] \in {"none", "whole"} /\ request' = Waiting /\ UNCHANGED pack
    /\ UNCHANGED <<requestFrame, choice, requests, answered>>

(* reactivate, in a thread: whether a binding has been imported is asked    *)
(* first, the old routing undone next and the new one chosen last.          *)
(* Mutant: a restart is never asked for. *)
NeverTooLate ==
    /\ request.pc = "check"
    /\ request' = [request EXCEPT !.pc = "deactivate"]
    /\ UNCHANGED <<requestFrame, pack, choice, requests, answered>>
CanReactivate ==
    /\ request.pc = "check"
    /\ request' = IF imported = None THEN [request EXCEPT !.pc = "deactivate"] ELSE Waiting
    /\ UNCHANGED <<requestFrame, pack, choice, requests, answered>>

Deactivate ==
    /\ request.pc = "deactivate" /\ active' = None
    /\ request' = [request EXCEPT !.pc = "activate"]
    /\ UNCHANGED <<requestFrame, pack, pin, filePin, bad, requests, answered>>

Reactivate ==
    /\ request.pc = "activate" /\ Activated
    /\ request' = Waiting
    /\ UNCHANGED <<requestFrame, pack, pin, filePin, requests, answered>>

RequestStep == WriteChoice \/ SetChoice \/ RemoveStep \/ CanReactivate \/ Deactivate \/ Reactivate

(* Killed.  state.json and the config file are read again at the start.     *)
Crash ==
    /\ Fault
    /\ cut' = cut \cup {v \in Packs : pack[v] = "torn"}
    /\ install' = [i \in Installs |-> Resting] /\ request' = Waiting
    /\ pin' = filePin /\ answered' = filePin
    /\ active' = None /\ imported' = None /\ raced' = FALSE
    /\ UNCHANGED <<disk, filePin, bad>>

-----------------------------------------------------------------------------
Next ==
    \/ Start \/ Import \/ RequestStep \/ Crash
    \/ \E i \in Installs : InstallStep(i) \/ \E v \in Packs : PostInstall(i, v)
    \/ \E v \in Variants \cup {"auto"} : Select(v)
    \/ \E v \in Packs : Remove(v)

(* Threads that run come to an end: a read has a timeout of thirty seconds. *)
Fairness == WF_vars(RequestStep) /\ \A i \in Installs : WF_vars(InstallStep(i))
Spec == Init /\ [][Next]_vars /\ Fairness

-----------------------------------------------------------------------------
(* A manifest says that the pack is all there (core/runtimes.py:120): two   *)
(* jobs that write, hash, unpack and clear the same files never leave less. *)
(* Excepted are a removal at work and one cut short by a crash.             *)
Clearing(v) ==
    \/ request.pc = "clear" /\ request.of = v
    \/ \E i \in Installs : install[i].pc = "clear" /\ install[i].of = v
ManifestMeansWhole == \A v \in Packs : pack[v] = "torn" => Clearing(v) \/ v \in cut

(* What a native backend was imported from is what is reported as active,   *)
(* until the next start (core/runtimes.py:705).  Excepted is an import into *)
(* a pack being removed, or that fell between the question whether there    *)
(* has been one and the new routing.                                        *)
ImportedIsActive == imported # None /\ active # None => active = imported \/ raced

(* A choice that was answered holds in the process and over a restart       *)
(* (api/compute.py:129).                                                    *)
ChoiceSurvives == request.pc = "idle" => pin = answered /\ filePin = answered

(* No archive outlives the jobs that wrote it, except over a crash.         *)
NoLeftovers ==
    faults = 0 => \A v \in Packs : archive[v] # NoFile =>
        \E i \in Installs : install[i].pc \notin Over /\ install[i].of = v

(* Every install job and every request ends. *)
EverythingEnds ==
    /\ \A i \in Installs : install[i].pc \notin Over ~> install[i].pc \in Over
    /\ request.pc # "idle" ~> request.pc = "idle"

(* The packs on disk are whole or not there, and nothing is left beside     *)
(* them, however many jobs work on the same files (core/runtimes.py:568).   *)
PacksAreSound ==
    /\ TypeOK
    /\ ManifestMeansWhole
    /\ NoLeftovers

(* What the user chose, what the file says and what runs agree              *)
(* (core/runtimes.py:705, api/compute.py:129).                              *)
ChoiceIsTrue ==
    /\ ImportedIsActive
    /\ ChoiceSurvives
=============================================================================
