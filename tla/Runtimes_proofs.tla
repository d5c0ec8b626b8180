--------------------------- MODULE Runtimes_proofs ---------------------------
(***************************************************************************)
(* That packs are whole or not there, and that what was chosen, what is on *)
(* file and what runs agree, for any number of variants, jobs and faults.  *)
(***************************************************************************)
EXTENDS Runtimes, WellFoundedInduction, TLAPS

(* A job and a removal are about a pack; what a job writes under its name   *)
(* is there; and whose archive is there still has to end (a job that has    *)
(* not opened it yet does not count: it may find the pack installed).       *)
JobsInv ==
    /\ \A i \in Installs : install[i].pc # "idle" => install[i].of \in Packs
    /\ request.pc = "clear" => request.of \in Packs
    /\ \A i \in Installs : install[i].named =>
          install[i].of \in Packs /\ archive[install[i].of] # NoFile
ArchiveInv ==
    faults = 0 => \A v \in Packs : archive[v] # NoFile =>
        \E i \in Installs : install[i].pc \notin Over \cup {"open"} /\ install[i].of = v

(* Between the file and the memory there is one thread, and whatever was    *)
(* imported by the time the routing is redone was imported in that gap.     *)
ChoiceInv ==
    /\ pin = answered
    /\ filePin = IF request.pc = "set" THEN request.of ELSE pin
RoutedInv ==
    /\ imported # None => active = imported \/ raced
    /\ request.pc = "activate" => active = None
    /\ request.pc \in {"deactivate", "activate"} /\ imported # None => raced

IInv == TypeOK /\ JobsInv /\ ManifestMeansWhole /\ ArchiveInv /\ ChoiceInv /\ RoutedInv

InstallRecord == [pc : InstallPc, of : Variants, next : 1..Size + 1, named : BOOLEAN]
PackStates == {"none", "whole", "foreign", "torn", "gutted"}

LEMMA Kinds ==
    /\ Builtin \notin Packs /\ None \notin Variants /\ "auto" \notin Variants
    /\ Packs \subseteq Variants /\ Size \in Nat \ {0} /\ NoFile \notin SUBSET Full
    /\ Ranking \in Seq(Variants)
    /\ MaxFaults \in Nat /\ MaxRequests \in Nat
BY RuntimesAssumption DEF Variants, None, NoFile, Full

LEMMA RestingType ==
    Resting \in InstallRecord /\ Resting.pc = "idle" /\ Resting.named = FALSE
BY Kinds DEF Resting, InstallRecord, InstallPc, Variants

LEMMA Types ==
    ASSUME TypeOK
    PROVE  /\ pack \in [Packs -> PackStates]
           /\ archive \in [Packs -> (SUBSET Full) \cup {NoFile}]
           /\ install \in [Installs -> InstallRecord]
           /\ pin \in Variants \cup {"auto"} /\ bad \subseteq Packs
BY DEF TypeOK, InstallRecord, PackStates

-----------------------------------------------------------------------------
(* The candidates are variants and the last of them is the built-in one.    *)
LEMMA CandidatesEnd ==
    ASSUME TypeOK
    PROVE  /\ Candidates \in Seq(Variants) /\ Len(Candidates) \in Nat \ {0}
           /\ DOMAIN Candidates = 1..Len(Candidates)
           /\ Candidates[Len(Candidates)] = Builtin
<1> DEFINE chain == IF pin = "auto" THEN Ranking ELSE <<pin>>
<1>1. chain \in Seq(Variants) /\ <<Builtin>> \in Seq(Variants)
  <2>1. <<Builtin>> \in Seq(Variants)
    BY DEF Variants
  <2>2. CASE pin = "auto"
    BY <2>1, <2>2, Kinds
  <2>3. CASE pin # "auto"
    BY <2>1, <2>3, Types
  <2> QED BY <2>2, <2>3
<1>2. Candidates = chain \o <<Builtin>>
  BY DEF Candidates
<1> HIDE DEF chain
<1>3. /\ Candidates \in Seq(Variants) /\ Len(Candidates) = Len(chain) + 1
      /\ Candidates[Len(chain) + 1] = Builtin
  BY <1>1, <1>2
<1>4. Len(chain) \in Nat
  BY <1>1
<1> QED BY <1>3, <1>4

(* What is chosen and what is marked on the way: a variant, and packs.      *)
LEMMA ActivatedTypes ==
    ASSUME TypeOK, Activated
    PROVE  active' \in Variants /\ bad' \subseteq Packs
<1>1. PICK k \in DOMAIN Candidates :
        /\ Chosen(k)
        /\ active' = Candidates[k]
        /\ bad' = bad \cup {Candidates[j] : j \in {j \in 1..k - 1 : Usable(j)}}
  BY DEF Activated
<1>2. ASSUME NEW j \in 1..k - 1, Usable(j) PROVE Candidates[j] \in Packs
  BY <1>1, <1>2 DEF Chosen, Fits
<1> QED BY <1>1, <1>2, CandidatesEnd, Types

(* The built-in one is never marked bad and always there, so the chain      *)
(* never ends without a choice (core/runtimes.py:383: `the chain can never  *)
(* be empty').                                                              *)
THEOREM AlwaysAChoice ==
    ASSUME TypeOK
    PROVE  \E k \in DOMAIN Candidates : Chosen(k)
<1> DEFINE S == {k \in 1..Len(Candidates) : Fits(k)}
<1>1. Len(Candidates) \in S
  BY CandidatesEnd, Types, Kinds DEF Fits, Usable, Installed
<1>2. S \in SUBSET Nat
  BY CandidatesEnd
<1> HIDE DEF S
<1>3. PICK k \in S : \A j \in S : k <= j
  <2> DEFINE R == OpToRel(<, Nat)
  <2>1. IsWellFoundedOn(R, Nat)
    BY NatLessThanWellFounded
  <2>2. \A i, j \in Nat : i < j => <<i, j>> \in R
    BY DEF OpToRel
  <2> HIDE DEF R
  <2>3. PICK k \in S : \A j \in S : ~(<<j, k>> \in R)
    BY <2>1, <1>1, <1>2, WFMin
  <2>4. ASSUME NEW j \in S PROVE k <= j
    <3>1. j \in Nat /\ k \in Nat /\ ~(j < k)
      BY <2>2, <2>3, <1>2
    <3> QED BY <3>1
  <2> QED BY <2>4
<1>4. k \in 1..Len(Candidates) /\ Fits(k) /\ \A j \in 1..k - 1 : ~Fits(j)
  BY <1>3, CandidatesEnd DEF S
<1> QED BY <1>4, CandidatesEnd DEF Chosen

-----------------------------------------------------------------------------
jobFrame == <<request, pin, filePin, active, imported, raced, answered>>

(* What an install job leaves alone keeps the choice and what is routed.    *)
LEMMA JobFrame ==
    ASSUME IInv, UNCHANGED jobFrame
    PROVE  ChoiceInv' /\ RoutedInv'
BY DEF IInv, ChoiceInv, RoutedInv, jobFrame

(* A job gives its archive up: no other archive, and no other job, changes. *)
LEMMA UnlinkKeeps ==
    ASSUME IInv, NEW i \in Installs, NEW pc \in {"failed", "done"}, Unlink(i, pc),
           install[i].pc # "idle", install[i].pc = "clear" => pack[install[i].of] # "torn",
           UNCHANGED <<pack, jobFrame, cut, requests>>, bad' \subseteq Packs,
           faults' = faults \/ Fault
    PROVE  IInv'
<1> DEFINE v == install[i].of
<1>1. /\ v \in Packs /\ install \in [Installs -> InstallRecord]
      /\ archive \in [Packs -> (SUBSET Full) \cup {NoFile}] /\ pack \in [Packs -> PackStates]
  BY Types DEF IInv, JobsInv
<1>2. faults' \in 0..MaxFaults /\ (faults' = 0 => faults = 0)
  BY Kinds DEF IInv, TypeOK, Fault
<1>3. /\ archive' \in [Packs -> (SUBSET Full) \cup {NoFile}] /\ archive'[v] = NoFile
      /\ \A w \in Packs : w # v => archive'[w] = archive[w]
  <2>1. archive' = [archive EXCEPT ![v] = NoFile]
    BY DEF Unlink
  <2> HIDE DEF v
  <2> QED BY <1>1, <2>1
<1>4. [Resting EXCEPT !.pc = pc, !.of = v] \in InstallRecord
  <2>1. v \in Variants /\ pc \in InstallPc
    BY <1>1, Kinds DEF InstallPc
  <2> QED BY <2>1, RestingType DEF InstallRecord
<1>5. /\ install' \in [Installs -> InstallRecord]
      /\ install'[i].pc = pc /\ install'[i].of = v /\ install'[i].named = FALSE
      /\ \A k \in Installs : k # i =>
            /\ install'[k].pc = install[k].pc /\ install'[k].of = install[k].of
            /\ install'[k].named => install[k].named /\ install[k].of # v
  <2>1. install' = [k \in Installs |->
             IF k = i THEN [Resting EXCEPT !.pc = pc, !.of = v]
             ELSE IF install[k].of = v THEN [install[k] EXCEPT !.named = FALSE] ELSE install[k]]
    BY DEF Unlink
  <2>2. install'[i].pc = pc /\ install'[i].of = v /\ install'[i].named = FALSE
    BY <2>1 DEF Resting
  <2>3. ASSUME NEW k \in Installs, k # i
        PROVE  /\ install'[k] \in InstallRecord
               /\ install'[k].pc = install[k].pc /\ install'[k].of = install[k].of
               /\ install'[k].named => install[k].named /\ install[k].of # v
    BY <2>1, <2>3, <1>1 DEF InstallRecord
  <2>4. install' \in [Installs -> InstallRecord]
    BY <2>1, <2>3, <1>4
  <2> QED BY <2>2, <2>3, <2>4
<1> HIDE DEF v
<1>6. TypeOK'
  BY <1>2, <1>3, <1>5 DEF IInv, TypeOK, InstallRecord, jobFrame
<1>7. JobsInv'
  <2>1. \A k \in Installs : install'[k].pc # "idle" => install'[k].of \in Packs
    BY <1>1, <1>5 DEF IInv, JobsInv
  <2>2. \A k \in Installs : install'[k].named =>
          install'[k].of \in Packs /\ archive'[install'[k].of] # NoFile
    BY <1>3, <1>5 DEF IInv, JobsInv
  <2> QED BY <2>1, <2>2 DEF IInv, JobsInv, jobFrame
<1>8. ManifestMeansWhole'
  BY <1>5 DEF IInv, ManifestMeansWhole, Clearing, jobFrame, v
<1>9. ArchiveInv'
  <2> SUFFICES ASSUME faults = 0, NEW w \in Packs, archive'[w] # NoFile
               PROVE  \E k \in Installs : install'[k].pc \notin Over \cup {"open"}
                                         /\ install'[k].of = w
    BY <1>2 DEF ArchiveInv
  <2>1. w # v /\ archive[w] # NoFile
    BY <1>3
  <2>2. PICK k \in Installs : install[k].pc \notin Over \cup {"open"} /\ install[k].of = w
    BY <2>1 DEF IInv, ArchiveInv
  <2>3. k # i
    BY <2>1, <2>2 DEF v
  <2> QED BY <2>2, <2>3, <1>5
<1> QED BY <1>6, <1>7, <1>8, <1>9, JobFrame DEF IInv

(* A job goes on; what it does to the pack is said by the caller.           *)
LEMMA StepKeeps ==
    ASSUME IInv, NEW i \in Installs, NEW pc \in InstallPc \ {"idle"}, Step(i, pc),
           install[i].pc # "idle", install[i].pc = "open" \/ pc \notin Over \cup {"open"},
           UNCHANGED <<archive, jobFrame, counters, bad>>, cut' \subseteq Packs,
           pack' \in [Packs -> PackStates], ManifestMeansWhole'
    PROVE  IInv'
<1>1. /\ install \in [Installs -> InstallRecord] /\ install' \in [Installs -> InstallRecord]
      /\ install'[i].pc = pc /\ install'[i].of = install[i].of
      /\ install'[i].named = install[i].named
      /\ \A k \in Installs : k # i => install'[k] = install[k]
  BY Types DEF IInv, Step, InstallRecord
<1>2. TypeOK'
  BY <1>1 DEF IInv, TypeOK, InstallRecord, PackStates, jobFrame, counters
<1>3. JobsInv'
  BY <1>1 DEF IInv, JobsInv, jobFrame
<1>4. ArchiveInv'
  BY <1>1 DEF IInv, ArchiveInv, counters
<1> QED BY <1>2, <1>3, <1>4, JobFrame DEF IInv

-----------------------------------------------------------------------------
LEMMA PostInstallKeeps ==
    ASSUME IInv, NEW i \in Installs, NEW v \in Packs, PostInstall(i, v)
    PROVE  IInv'
<1>1. install[i].pc = "idle" /\ UNCHANGED <<disk, installFrame, bad, counters>>
  BY DEF PostInstall
<1>2. /\ install \in [Installs -> InstallRecord] /\ install' \in [Installs -> InstallRecord]
      /\ install'[i].pc = "open" /\ install'[i].of = v /\ install'[i].named = FALSE
      /\ \A k \in Installs : k # i => install'[k] = install[k]
  <2>1. [Resting EXCEPT !.pc = "open", !.of = v] \in InstallRecord
    <3>1. v \in Variants /\ "open" \in InstallPc
      BY Kinds DEF InstallPc
    <3> QED BY <3>1, RestingType DEF InstallRecord
  <2> QED BY <2>1, Types, RestingType DEF IInv, PostInstall
<1>3. TypeOK'
  BY <1>1, <1>2 DEF IInv, TypeOK, InstallRecord, disk, installFrame, history, counters
<1>4. JobsInv' /\ ManifestMeansWhole' /\ ArchiveInv'
  BY <1>1, <1>2 DEF IInv, JobsInv, ManifestMeansWhole, Clearing, ArchiveInv, disk, installFrame,
                    history, counters, Over
<1> QED BY <1>1, <1>3, <1>4, JobFrame DEF IInv, jobFrame, installFrame, history

LEMMA OpenKeeps ==
    ASSUME IInv, NEW i \in Installs, Open(i)
    PROVE  IInv'
<1> DEFINE v == install[i].of
<1>1. /\ install[i].pc = "open" /\ v \in Packs
      /\ UNCHANGED <<pack, jobFrame, cut, bad>>
  BY DEF IInv, JobsInv, Open, installFrame, history, jobFrame
<1>2. CASE Step(i, "done") /\ UNCHANGED <<archive, counters>>
  <2>1. ManifestMeansWhole'
    BY <1>1, <1>2, Types DEF IInv, ManifestMeansWhole, Clearing, Step, jobFrame, InstallRecord
  <2> QED BY <1>1, <1>2, <2>1, StepKeeps, Types DEF IInv, TypeOK, InstallPc
<1>3. CASE /\ archive' = [archive EXCEPT ![v] = {}]
           /\ install' = [install EXCEPT ![i].pc = "read", ![i].named = TRUE]
           /\ UNCHANGED counters
  <2>1. /\ install \in [Installs -> InstallRecord] /\ install' \in [Installs -> InstallRecord]
        /\ install'[i].pc = "read" /\ install'[i].of = v
        /\ \A k \in Installs : k # i => install'[k] = install[k]
    BY <1>3, Types DEF IInv, InstallRecord, InstallPc
  <2>2. /\ archive' \in [Packs -> (SUBSET Full) \cup {NoFile}] /\ archive'[v] # NoFile
        /\ \A w \in Packs : w # v => archive'[w] = archive[w]
    BY <1>1, <1>3, Types DEF IInv, NoFile
  <2> HIDE DEF v
  <2>3. TypeOK'
    BY <1>1, <1>3, <2>1, <2>2 DEF IInv, TypeOK, InstallRecord, jobFrame, counters
  <2>4. JobsInv'
    BY <1>1, <2>1, <2>2 DEF IInv, JobsInv, jobFrame
  <2>5. ManifestMeansWhole'
    BY <1>1, <2>1 DEF IInv, ManifestMeansWhole, Clearing, jobFrame
  <2>6. ArchiveInv'
    BY <1>3, <2>1, <2>2 DEF IInv, ArchiveInv, counters, Over
  <2> QED BY <1>1, <2>3, <2>4, <2>5, <2>6, JobFrame DEF IInv
<1>4. CASE Fault /\ Fails(i)
  BY <1>1, <1>4, UnlinkKeeps, Types DEF Fails, Fault, IInv
<1> QED BY <1>2, <1>3, <1>4 DEF Open

LEMMA ReadKeeps ==
    ASSUME IInv, NEW i \in Installs, Read(i)
    PROVE  IInv'
<1> DEFINE v == install[i].of
<1>1. /\ install[i].pc = "read" /\ v \in Packs /\ UNCHANGED <<pack, jobFrame, cut, bad>>
      /\ install[i] \in InstallRecord
  BY Types DEF IInv, JobsInv, Read, installFrame, history, jobFrame
<1>2. CASE /\ install[i].next <= Size
           /\ archive' = IF install[i].named
                         THEN [archive EXCEPT ![install[i].of] = @ \cup {install[i].next}]
                         ELSE archive
           /\ install' = [install EXCEPT ![i].next = @ + 1]
           /\ UNCHANGED counters
  <2>1. install[i].next \in Full /\ install[i].next + 1 \in 1..Size + 1
    BY <1>1, <1>2, Kinds DEF InstallRecord, Full
  <2>2. /\ install \in [Installs -> InstallRecord] /\ install' \in [Installs -> InstallRecord]
        /\ \A k \in Installs : /\ install'[k].pc = install[k].pc /\ install'[k].of = install[k].of
                               /\ install'[k].named = install[k].named
    BY <1>2, <2>1, Types DEF IInv, InstallRecord
  <2>3. /\ archive' \in [Packs -> (SUBSET Full) \cup {NoFile}]
        /\ \A w \in Packs : archive'[w] = NoFile <=> archive[w] = NoFile
    <3>1. CASE install[i].named
      <4>1. archive[v] \in SUBSET Full
        BY <1>1, <3>1, Types DEF IInv, JobsInv
      <4> QED BY <1>1, <1>2, <2>1, <3>1, <4>1, Types, Kinds DEF IInv
    <3>2. CASE ~install[i].named
      BY <1>2, <3>2, Types DEF IInv
    <3> QED BY <3>1, <3>2
  <2> HIDE DEF v
  <2>4. TypeOK'
    BY <1>1, <1>2, <2>2, <2>3 DEF IInv, TypeOK, InstallRecord, jobFrame, counters
  <2>5. JobsInv' /\ ManifestMeansWhole' /\ ArchiveInv'
    BY <1>1, <1>2, <2>2, <2>3
       DEF IInv, JobsInv, ManifestMeansWhole, Clearing, ArchiveInv, jobFrame, counters
  <2> QED BY <1>1, <2>4, <2>5, JobFrame DEF IInv
<1>3. CASE Fault /\ Fails(i)
  BY <1>1, <1>3, UnlinkKeeps, Types DEF Fails, Fault, IInv
<1>4. CASE Step(i, "hash") /\ UNCHANGED <<archive, counters>>
  <2>1. ManifestMeansWhole'
    BY <1>1, <1>4, Types DEF IInv, ManifestMeansWhole, Clearing, Step, jobFrame, InstallRecord
  <2> QED BY <1>1, <1>4, <2>1, StepKeeps, Types DEF IInv, TypeOK, InstallPc, Over
<1> QED BY <1>2, <1>3, <1>4 DEF Read

(* The hash and the unpacking leave the pack as it is.                      *)
LEMMA HashUnpackKeeps ==
    ASSUME IInv, NEW i \in Installs, Hash(i) \/ Unpack(i)
    PROVE  IInv'
<1>1. /\ install[i].pc \in {"hash", "unpack"} /\ install[i].of \in Packs
      /\ UNCHANGED <<pack, jobFrame, cut, bad, counters>>
  BY DEF IInv, JobsInv, Hash, Unpack, installFrame, history, jobFrame
<1>2. ASSUME NEW pc \in {"unpack", "place"}, Step(i, pc), UNCHANGED archive PROVE IInv'
  <2>1. ManifestMeansWhole'
    BY <1>1, <1>2, Types DEF IInv, ManifestMeansWhole, Clearing, Step, jobFrame, InstallRecord
  <2> QED BY <1>1, <1>2, <2>1, StepKeeps, Types DEF IInv, TypeOK, InstallPc, Over
<1>3. CASE Fails(i)
  BY <1>1, <1>3, UnlinkKeeps, Types DEF Fails, counters, IInv
<1> QED BY <1>2, <1>3 DEF Hash, Unpack

(* What an rmtree, entry by entry, leaves. *)
LEMMA RmtreeGives ==
    ASSUME TypeOK, NEW v \in Packs, Rmtree(v)
    PROVE  /\ pack' \in [Packs -> PackStates]
           /\ pack'[v] \in {"torn", "gutted", "none"}
           /\ pack[v] \in {"torn", "gutted"} => pack'[v] # "torn"
           /\ \A w \in Packs : w # v => pack'[w] = pack[w]
BY Types DEF Rmtree, PackStates

LEMMA PlaceKeeps ==
    ASSUME IInv, NEW i \in Installs, Place(i)
    PROVE  IInv'
<1> DEFINE v == install[i].of
<1>1. /\ install[i].pc = "place" /\ v \in Packs
      /\ UNCHANGED <<archive, jobFrame, cut, bad, counters>> /\ cut \subseteq Packs /\ TypeOK
      /\ install \in [Installs -> InstallRecord]
  BY Types DEF IInv, TypeOK, JobsInv, Place, installFrame, history, jobFrame
<1>2. CASE Step(i, "move") /\ UNCHANGED pack
  <2>1. ManifestMeansWhole'
    BY <1>1, <1>2 DEF IInv, ManifestMeansWhole, Clearing, Step, jobFrame, InstallRecord
  <2> QED BY <1>1, <1>2, <2>1, StepKeeps, Types DEF InstallPc, Over
<1>3. CASE Step(i, "clear") /\ Rmtree(v)
  <2>1. /\ pack' \in [Packs -> PackStates] /\ \A w \in Packs : w # v => pack'[w] = pack[w]
    BY <1>1, <1>3, RmtreeGives
  <2>2. /\ install'[i].pc = "clear" /\ install'[i].of = v
        /\ \A k \in Installs : k # i => install'[k] = install[k]
    BY <1>1, <1>3 DEF Step, InstallRecord
  <2>3. ManifestMeansWhole'
    BY <1>1, <2>1, <2>2 DEF IInv, ManifestMeansWhole, Clearing, jobFrame
  <2> QED BY <1>1, <1>3, <2>1, <2>3, StepKeeps DEF InstallPc, Over
<1> QED BY <1>2, <1>3 DEF Place

LEMMA ClearKeeps ==
    ASSUME IInv, NEW i \in Installs, Clear(i)
    PROVE  IInv'
<1> DEFINE v == install[i].of
<1>1. /\ install[i].pc = "clear" /\ v \in Packs
      /\ UNCHANGED <<jobFrame, cut, bad, counters>> /\ cut \subseteq Packs /\ TypeOK
      /\ install \in [Installs -> InstallRecord]
  BY Types DEF IInv, TypeOK, JobsInv, Clear, installFrame, history, jobFrame
<1>2. CASE /\ pack[v] \in {"torn", "gutted"} /\ Rmtree(v)
           /\ IF pack[v] = "gutted" THEN Step(i, "move") ELSE UNCHANGED install
           /\ UNCHANGED archive
  <2>1. /\ pack' \in [Packs -> PackStates] /\ pack'[v] # "torn"
        /\ \A w \in Packs : w # v => pack'[w] = pack[w]
    BY <1>1, <1>2, RmtreeGives
  <2>2. PICK pc \in {"clear", "move"} : Step(i, pc)
    BY <1>1, <1>2 DEF Step, InstallRecord
  <2>3. \A k \in Installs : k # i => install'[k] = install[k]
    BY <1>1, <2>2 DEF Step
  <2>4. ManifestMeansWhole'
    BY <1>1, <2>1, <2>3 DEF IInv, ManifestMeansWhole, Clearing, jobFrame
  <2> QED BY <1>1, <1>2, <2>1, <2>2, <2>4, StepKeeps DEF InstallPc, Over
<1>3. CASE pack[v] \in {"none", "whole"} /\ Fails(i) /\ UNCHANGED pack
  BY <1>1, <1>3, UnlinkKeeps, Types DEF Fails, counters
<1> QED BY <1>2, <1>3 DEF Clear

LEMMA MoveKeeps ==
    ASSUME IInv, NEW i \in Installs, Move(i)
    PROVE  IInv'
<1> DEFINE v == install[i].of
<1>1. /\ install[i].pc = "move" /\ v \in Packs
      /\ UNCHANGED <<jobFrame, bad, counters>> /\ cut \subseteq Packs /\ TypeOK
      /\ install \in [Installs -> InstallRecord]
      /\ cut' = IF pack[v] = "none" THEN cut \ {v} ELSE cut
  BY Types DEF IInv, TypeOK, JobsInv, Move, jobFrame
<1>2. CASE /\ pack[v] = "none" /\ pack' = [pack EXCEPT ![v] = "whole"]
           /\ Step(i, "finish") /\ UNCHANGED archive
  <2>1. /\ pack' \in [Packs -> PackStates] /\ pack'[v] = "whole"
        /\ \A w \in Packs : w # v => pack'[w] = pack[w]
    BY <1>1, <1>2, Types DEF PackStates
  <2>2. \A k \in Installs : k # i => install'[k] = install[k]
    BY <1>1, <1>2 DEF Step
  <2>3. ManifestMeansWhole'
    BY <1>1, <2>1, <2>2 DEF IInv, ManifestMeansWhole, Clearing, jobFrame
  <2> QED BY <1>1, <1>2, <2>1, <2>3, StepKeeps DEF InstallPc, Over
<1>3. CASE pack[v] # "none" /\ Fails(i) /\ UNCHANGED pack
  BY <1>1, <1>3, UnlinkKeeps, Types DEF Fails, counters
<1> QED BY <1>2, <1>3 DEF Move

LEMMA FinishKeeps ==
    ASSUME IInv, NEW i \in Installs, Finish(i)
    PROVE  IInv'
<1>1. /\ install[i].pc = "finish" /\ UNCHANGED <<pack, jobFrame, cut, counters>>
      /\ bad' \subseteq Packs /\ Unlink(i, "done")
  BY Types DEF IInv, Finish, installFrame, history, jobFrame
<1> QED BY <1>1, UnlinkKeeps DEF counters

-----------------------------------------------------------------------------
(* The handlers and the start: the jobs and the archives stay as they are.  *)
LEMMA ArchivesStay ==
    ASSUME IInv, UNCHANGED <<archive, install, faults>>, request'.pc = "clear" => request'.of \in Packs
    PROVE  JobsInv' /\ ArchiveInv'
BY DEF IInv, JobsInv, ArchiveInv

LEMMA StartKeeps ==
    ASSUME IInv, Start
    PROVE  IInv'
<1>1. /\ active = None /\ request.pc = "idle"
      /\ UNCHANGED <<disk, install, request, pin, filePin, imported, counters, history>>
  BY DEF Start
<1>2. active' \in Variants /\ bad' \subseteq Packs
  BY ActivatedTypes DEF IInv, Start
<1>3. TypeOK'
  BY <1>1, <1>2 DEF IInv, TypeOK, disk, counters, history
<1>4. JobsInv' /\ ArchiveInv'
  BY <1>1, ArchivesStay DEF disk, counters, IInv, JobsInv
<1>5. ManifestMeansWhole' /\ ChoiceInv' /\ RoutedInv'
  BY <1>1 DEF IInv, ManifestMeansWhole, Clearing, ChoiceInv, RoutedInv, disk, history
<1> QED BY <1>3, <1>4, <1>5 DEF IInv

LEMMA ImportKeeps ==
    ASSUME IInv, Import
    PROVE  IInv'
<1>1. /\ imported' \in {active, Builtin} /\ (imported' = active => active # None)
      /\ raced' = (raced \/ imported' # active \/ request.pc = "deactivate")
      /\ request.pc = "activate" => active = None
      /\ UNCHANGED <<disk, install, request, choice, counters, cut, answered>>
  <2>1. Routed \in {active, Builtin} /\ (Routed = active => active # None)
    BY Kinds DEF Routed, Variants
  <2>2. imported' \in {Routed, Builtin} /\ Builtin # None
    BY Kinds DEF Import, Variants
  <2>3. /\ raced' = (raced \/ imported' # active \/ request.pc = "deactivate")
        /\ UNCHANGED <<disk, install, request, choice, counters, cut, answered>>
    BY DEF Import
  <2> QED BY <2>1, <2>2, <2>3 DEF IInv, RoutedInv
<1>2. imported' \in Variants /\ raced' \in BOOLEAN
  BY <1>1, Kinds DEF IInv, TypeOK, Variants
<1>3. TypeOK'
  BY <1>1, <1>2 DEF IInv, TypeOK, disk, counters, choice
<1>4. JobsInv' /\ ArchiveInv'
  BY <1>1, ArchivesStay DEF disk, counters, IInv, JobsInv
<1>5. ManifestMeansWhole' /\ ChoiceInv'
  BY <1>1 DEF IInv, ManifestMeansWhole, Clearing, ChoiceInv, disk, choice
<1>6. RoutedInv'
  BY <1>1 DEF IInv, RoutedInv, choice
<1> QED BY <1>3, <1>4, <1>5, <1>6 DEF IInv

(* A choice: its mark is cleared, then the file, then the memory.           *)
LEMMA ChoiceKeeps ==
    ASSUME IInv, (\E v \in Variants \cup {"auto"} : Select(v)) \/ WriteChoice \/ SetChoice
    PROVE  IInv'
<1>1. /\ UNCHANGED <<requestFrame, pack, active>> /\ bad' \subseteq Packs
      /\ request.pc # "clear" /\ request'.pc \in {"write", "set", "check"}
  BY Types DEF IInv, TypeOK, Select, Ask, WriteChoice, SetChoice
<1>2. TypeOK'
  <2>1. CASE \E v \in Variants \cup {"auto"} : Select(v)
    BY <1>1, <2>1, Kinds DEF IInv, TypeOK, Select, Ask, requestFrame
  <2>2. CASE WriteChoice
    BY <1>1, <2>2 DEF IInv, TypeOK, WriteChoice, requestFrame
  <2>3. CASE SetChoice
    BY <1>1, <2>3 DEF IInv, TypeOK, SetChoice, requestFrame
  <2> QED BY <2>1, <2>2, <2>3
<1>3. JobsInv' /\ ArchiveInv'
  BY <1>1, ArchivesStay DEF requestFrame
<1>4. ManifestMeansWhole'
  BY <1>1 DEF IInv, ManifestMeansWhole, Clearing, requestFrame
<1>5. ChoiceInv'
  BY DEF IInv, TypeOK, ChoiceInv, Select, Ask, WriteChoice, SetChoice
<1>6. RoutedInv'
  BY <1>1 DEF IInv, RoutedInv, requestFrame
<1> QED BY <1>2, <1>3, <1>4, <1>5, <1>6 DEF IInv

LEMMA RemoveKeeps ==
    ASSUME IInv, NEW v \in Packs, Remove(v)
    PROVE  IInv'
<1>1. /\ UNCHANGED <<requestFrame, choice, answered>> /\ Rmtree(v) /\ request.pc = "idle"
      /\ request' = [pc |-> "clear", of |-> v] /\ requests' \in 0..MaxRequests
  BY Kinds DEF IInv, TypeOK, Remove, Ask
<1>2. pack' \in [Packs -> PackStates] /\ \A w \in Packs : w # v => pack'[w] = pack[w]
  BY <1>1, RmtreeGives DEF IInv
<1>3. TypeOK'
  BY <1>1, <1>2, Kinds DEF IInv, TypeOK, PackStates, requestFrame, choice
<1>4. JobsInv' /\ ArchiveInv'
  BY <1>1, ArchivesStay DEF requestFrame
<1>5. ManifestMeansWhole'
  BY <1>1, <1>2 DEF IInv, ManifestMeansWhole, Clearing, requestFrame
<1>6. ChoiceInv' /\ RoutedInv'
  BY <1>1 DEF IInv, ChoiceInv, RoutedInv, requestFrame, choice
<1> QED BY <1>3, <1>4, <1>5, <1>6 DEF IInv

LEMMA RemoveStepKeeps ==
    ASSUME IInv, RemoveStep
    PROVE  IInv'
<1> DEFINE v == request.of
<1>1. /\ request.pc = "clear" /\ v \in Packs /\ UNCHANGED <<requestFrame, choice, requests, answered>>
      /\ TypeOK /\ pack \in [Packs -> PackStates]
  BY Types DEF IInv, JobsInv, RemoveStep
<1>2. /\ request' \in {request, [request EXCEPT !.pc = "check"], Waiting}
      /\ pack' \in [Packs -> PackStates] /\ pack'[v] # "torn"
      /\ \A w \in Packs : w # v => pack'[w] = pack[w]
  <2>1. CASE /\ pack[v] \in {"torn", "gutted"} /\ Rmtree(v)
             /\ request' = IF pack[v] = "gutted" THEN [request EXCEPT !.pc = "check"] ELSE request
    BY <1>1, <2>1, RmtreeGives
  <2>2. CASE pack[v] \in {"none", "whole"} /\ request' = Waiting /\ UNCHANGED pack
    BY <1>1, <2>2
  <2> QED BY <2>1, <2>2 DEF RemoveStep
<1>3. request'.pc \in {"clear", "check", "idle"} /\ (request'.pc = "clear" => request'.of = v)
  BY <1>1, <1>2 DEF Waiting, TypeOK
<1>4. TypeOK'
  BY <1>1, <1>2 DEF TypeOK, PackStates, requestFrame, choice, Waiting, Variants
<1>5. JobsInv' /\ ArchiveInv'
  BY <1>1, <1>3, ArchivesStay DEF requestFrame
<1>6. ManifestMeansWhole'
  BY <1>1, <1>2 DEF IInv, ManifestMeansWhole, Clearing, requestFrame
<1>7. ChoiceInv' /\ RoutedInv'
  BY <1>1, <1>3 DEF IInv, ChoiceInv, RoutedInv, requestFrame, choice
<1> QED BY <1>4, <1>5, <1>6, <1>7 DEF IInv

LEMMA ReactivateKeeps ==
    ASSUME IInv, CanReactivate \/ Deactivate \/ Reactivate
    PROVE  IInv'
<1>1. /\ UNCHANGED <<requestFrame, pack, pin, filePin, requests, answered>>
      /\ request.pc \in {"check", "deactivate", "activate"}
      /\ request' \in {Waiting, [request EXCEPT !.pc = "deactivate"], [request EXCEPT !.pc = "activate"]}
      /\ active' \in Variants \cup {None} /\ bad' \subseteq Packs
  BY ActivatedTypes, Types DEF IInv, TypeOK, CanReactivate, Deactivate, Reactivate, choice
<1>2. request'.pc \in {"idle", "deactivate", "activate"}
  BY <1>1 DEF IInv, TypeOK, Waiting
<1>3. TypeOK'
  BY <1>1 DEF IInv, TypeOK, requestFrame, Waiting, Variants
<1>4. JobsInv' /\ ArchiveInv'
  BY <1>1, <1>2, ArchivesStay DEF requestFrame
<1>5. ManifestMeansWhole' /\ ChoiceInv'
  BY <1>1, <1>2 DEF IInv, ManifestMeansWhole, Clearing, ChoiceInv, requestFrame
<1>6. RoutedInv'
  <2>1. CASE CanReactivate
    BY <1>1, <2>1 DEF IInv, TypeOK, RoutedInv, CanReactivate, requestFrame, choice, Waiting
  <2>2. CASE Deactivate
    BY <1>1, <2>2 DEF IInv, TypeOK, RoutedInv, Deactivate, requestFrame
  <2>3. CASE Reactivate
    BY <1>1, <2>3 DEF IInv, TypeOK, RoutedInv, Reactivate, requestFrame, Waiting
  <2> QED BY <2>1, <2>2, <2>3
<1> QED BY <1>3, <1>4, <1>5, <1>6 DEF IInv

LEMMA CrashKeeps ==
    ASSUME IInv, Crash
    PROVE  IInv'
<1>1. /\ faults' \in 0..MaxFaults /\ faults' # 0 /\ cut' = cut \cup {v \in Packs : pack[v] = "torn"}
      /\ install' = [i \in Installs |-> Resting] /\ request' = Waiting
      /\ pin' = filePin /\ answered' = filePin
      /\ active' = None /\ imported' = None /\ raced' = FALSE
      /\ UNCHANGED <<disk, filePin, bad, requests>>
  BY Kinds DEF IInv, TypeOK, Crash, Fault
<1>2. install' \in [Installs -> InstallRecord]
  BY <1>1, RestingType
<1>3. TypeOK'
  BY <1>1, <1>2 DEF IInv, TypeOK, InstallRecord, Waiting, Variants, disk
<1>4. JobsInv' /\ ManifestMeansWhole' /\ ArchiveInv' /\ ChoiceInv' /\ RoutedInv'
  BY <1>1, RestingType DEF JobsInv, ManifestMeansWhole, ArchiveInv, ChoiceInv, RoutedInv, Waiting, disk
<1> QED BY <1>3, <1>4 DEF IInv

-----------------------------------------------------------------------------
LEMMA InitHolds == Init => IInv
<1> SUFFICES ASSUME Init PROVE IInv
  OBVIOUS
<1>1. install \in [Installs -> InstallRecord]
  BY RestingType DEF Init
<1>2. TypeOK
  <2>1. /\ pack \in [Packs -> PackStates]
        /\ archive \in [Packs -> (SUBSET Full) \cup {NoFile}]
    BY DEF Init, PackStates
  <2>2. request \in [pc : {"idle", "write", "set", "clear", "check", "deactivate", "activate"},
                     of : Variants \cup {"auto"}]
    BY DEF Init, Waiting, Variants
  <2>3. faults \in 0..MaxFaults /\ requests \in 0..MaxRequests
    BY Kinds DEF Init
  <2> QED BY <1>1, <2>1, <2>2, <2>3 DEF Init, TypeOK, InstallRecord, PackStates
<1>3. JobsInv /\ ManifestMeansWhole /\ ArchiveInv /\ ChoiceInv /\ RoutedInv
  BY RestingType DEF Init, JobsInv, ManifestMeansWhole, ArchiveInv, ChoiceInv, RoutedInv, Waiting
<1> QED BY <1>2, <1>3 DEF IInv

LEMMA StepHolds == IInv /\ [Next]_vars => IInv'
<1> SUFFICES ASSUME IInv, [Next]_vars PROVE IInv'
  OBVIOUS
<1>1. CASE Start \/ Import \/ Crash
  BY <1>1, StartKeeps, ImportKeeps, CrashKeeps
<1>2. CASE RequestStep
  BY <1>2, ChoiceKeeps, RemoveStepKeeps, ReactivateKeeps DEF RequestStep
<1>3. CASE \E i \in Installs : InstallStep(i)
  BY <1>3, OpenKeeps, ReadKeeps, HashUnpackKeeps, PlaceKeeps, ClearKeeps, MoveKeeps, FinishKeeps
     DEF InstallStep
<1>4. CASE \E i \in Installs : \E v \in Packs : PostInstall(i, v)
  BY <1>4, PostInstallKeeps
<1>5. CASE \E v \in Variants \cup {"auto"} : Select(v)
  BY <1>5, ChoiceKeeps
<1>6. CASE \E v \in Packs : Remove(v)
  BY <1>6, RemoveKeeps
<1>7. CASE UNCHANGED vars
  BY <1>7 DEF IInv, TypeOK, JobsInv, ManifestMeansWhole, Clearing, ArchiveInv, ChoiceInv, RoutedInv,
     vars, disk, choice, counters, history
<1> QED BY <1>1, <1>2, <1>3, <1>4, <1>5, <1>6, <1>7 DEF Next

LEMMA AlwaysIInv == Spec => []IInv
BY InitHolds, StepHolds, PTL DEF Spec

(* However many jobs download, hash, unpack, clear and move the same pack,  *)
(* a manifest never stands for half of one, but while somebody clears it or *)
(* after a crash; and no archive outlives its jobs (core/runtimes.py:568).  *)
THEOREM PacksStaySound == Spec => []PacksAreSound
<1>1. IInv => PacksAreSound
  BY DEF IInv, PacksAreSound, ArchiveInv, NoLeftovers, Over
<1> QED BY <1>1, AlwaysIInv, PTL

(* What is reported as active is what the bindings were imported from, and  *)
(* an answered choice is in memory and on file (core/runtimes.py:705,       *)
(* api/compute.py:129).                                                     *)
THEOREM ChoiceStaysTrue == Spec => []ChoiceIsTrue
<1>1. IInv => ChoiceIsTrue
  BY DEF IInv, ChoiceIsTrue, ImportedIsActive, ChoiceSurvives, RoutedInv, ChoiceInv
<1> QED BY <1>1, AlwaysIInv, PTL
=============================================================================
