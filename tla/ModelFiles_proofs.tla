-------------------------- MODULE ModelFiles_proofs --------------------------
(***************************************************************************)
(* For any models, jobs, sizes, faults, deletions and crashes: the path of  *)
(* a model with a hash is written atomically, so that ModelFiles implements *)
(* AtomicInstall, and of every model, with a hash or not, each chunk is in  *)
(* its place, success means installed and failure leaves what can be        *)
(* resumed.  Any number of download jobs may run; what is not promised is   *)
(* the file that two of them had in hand at once.                           *)
(***************************************************************************)
EXTENDS ModelFiles, SequenceTheorems, TLAPS

Download == [pc : JobPc, asked : SUBSET Models, todo : SUBSET Models,
             model : Models \cup {"none"}, have : Nat, next : 1..Size + 1,
             done : Nat, at : {"partial", "installed", "gone"}, append : BOOLEAN]

Typed ==
    /\ installed \in [Models -> Content] /\ partial \in [Models -> Content]
    /\ job \in [Jobs -> Download]
    /\ deleting \in Models \cup {"none"} /\ shared \subseteq Models

(* A model is chosen while a file is being fetched; a file that is open is  *)
(* there, and installed only when two jobs have had it in hand; what is     *)
(* renamed has been hashed, unless it was deleted.                          *)
Fetched(d, part, inst, sh) ==
    /\ d.pc \in Fetching => d.model \in Models
    /\ d.at # "gone" => d.pc = "read"
    /\ d.at = "partial" => part[d.model] # NoFile
    /\ d.at = "installed" => inst[d.model] # NoFile /\ d.model \in sh
    /\ d.pc \in {"hash", "rename"} => d.model \in Hashed
    /\ d.pc = "rename" /\ d.model \notin sh => part[d.model] \in {Whole, NoFile}
Verified == \A j \in Jobs : Fetched(job[j], partial, installed, shared)

(* Two jobs that fetch one model share it. *)
Has(d, m) == d.pc \in Fetching /\ d.model = m
Exclusive ==
    \A i, j \in Jobs : \A m : i # j /\ Has(job[i], m) /\ Has(job[j], m) => m \in shared
NeverTorn == \A m \in Hashed \ shared : installed[m] \in {Whole, NoFile}
IInv == Typed /\ Verified /\ Exclusive /\ NeverTorn

(* A step concerns the path of one model at most.                           *)
OnePath == \E m : \A k \in Hashed : k # m => FileState(k)' = FileState(k)

-----------------------------------------------------------------------------
(* A file that is there is not no file.                                     *)
LEMMA Files ==
    /\ Whole \in Content /\ NoFile \in Content /\ <<>> \in Content
    /\ Whole # NoFile /\ Bad \in Nat /\ Bad \in 1..Bad
    /\ \A f \in Content : f = NoFile \/ f \in Seq(1..Bad)
    /\ \A f \in Seq(1..Bad) : f # NoFile /\ f \in Content
    /\ \A f \in Content : Length(f) \in Nat
<1>0. Bad \in Nat /\ Bad = Size + 1 /\ Size \in Nat /\ Size # 0 /\ Bad \in 1..Bad
  BY ModelFilesAssumption DEF Bad
<1>1. Whole \in Seq(1..Bad)
  <2>1. Whole \in [1..Size -> 1..Bad]
    BY <1>0 DEF Whole
  <2>. QED
    BY <1>0, <2>1, SeqDef
<1>2. <<>> \in Seq(1..Bad)
  OBVIOUS
<1>3. ASSUME NEW f \in Seq(1..Bad) PROVE f # NoFile
  <2> SUFFICES ASSUME f = << 0 >> PROVE FALSE
    BY DEF NoFile
  <2>1. Len(f) = 1 /\ f[1] = 0
    OBVIOUS
  <2>2. f[1] \in 1..Bad
    BY <2>1
  <2>. QED
    BY <2>1, <2>2
<1>4. ASSUME NEW f \in Content PROVE Length(f) \in Nat
  BY <1>4 DEF Content, Length
<1>. QED
  BY <1>0, <1>1, <1>2, <1>3, <1>4 DEF Content

(* A chunk leaves a file a file. *)
LEMMA WrittenIsFile ==
    ASSUME NEW S, Bad \in S, NEW file \in Seq(S), NEW j \in Jobs, job[j] \in Download,
           NEW chunk \in S
    PROVE  Written(file, j, chunk) \in Seq(S)
<1>1. CASE job[j].append \/ job[j].done = Len(file)
  BY <1>1 DEF Written
<1>2. CASE ~(job[j].append \/ job[j].done = Len(file))
  <2> DEFINE n == IF job[j].done < Len(file) THEN Len(file) ELSE job[j].done + 1
             g == [i \in 1..n |-> IF i = job[j].done + 1 THEN chunk
                                  ELSE IF i \in DOMAIN file THEN file[i] ELSE Bad]
  <2>1. n \in Nat
    BY DEF Download
  <2>2. \A i \in DOMAIN file : file[i] \in S
    OBVIOUS
  <2>3. g \in [1..n -> S]
    <3> HIDE DEF n
    <3>. QED
      BY <2>2
  <2>4. g \in Seq(S)
    <3> HIDE DEF n, g
    <3>. QED
      BY <2>1, <2>3, SeqDef
  <2>5. Written(file, j, chunk) = g
    BY <1>2 DEF Written
  <2>. QED
    BY <2>4, <2>5
<1>. QED
  BY <1>1, <1>2

LEMMA IdleType ==
    /\ Idle \in Download /\ [Idle EXCEPT !.pc = "failed"] \in Download
    /\ Idle.pc = "idle" /\ Idle.at = "gone"
    /\ [Idle EXCEPT !.pc = "failed"].pc = "failed" /\ [Idle EXCEPT !.pc = "failed"].at = "gone"
<1>1. 1 \in 1..Size + 1
  BY ModelFilesAssumption
<1>. QED
  BY <1>1 DEF Idle, Download, JobPc

(* A job that is done with a file remembers what it was asked for. *)
LEMMA FinishesType ==
    ASSUME NEW j \in Jobs, job[j] \in Download, NEW pc \in JobPc, NEW model \in Models \cup {"none"}
    PROVE  LET d == Finishes(j, pc, model)
           IN  /\ d \in Download /\ d.pc = pc /\ d.at = "gone" /\ d.model = model
               /\ d.asked = job[j].asked /\ d.todo = job[j].todo
<1>1. 1 \in 1..Size + 1
  BY ModelFilesAssumption
<1>. QED
  BY <1>1 DEF Finishes, Idle, Download

LEMMA InvInit == Init => IInv
<1> SUFFICES ASSUME Init PROVE IInv
  OBVIOUS
<1>1. \A j \in Jobs : job[j] = Idle
  BY DEF Init
<1>2. Typed
  BY Files, IdleType DEF Init, Typed
<1>3. Verified /\ Exclusive
  BY <1>1, IdleType DEF Verified, Fetched, Exclusive, Has, Fetching
<1>4. NeverTorn
  BY ModelFilesAssumption DEF Init, NeverTorn
<1>. QED
  BY <1>2, <1>3, <1>4 DEF IInv

(* Moved changes where a job writes, and nothing else of it. *)
LEMMA MovedType ==
    ASSUME Typed, NEW m, NEW from, NEW to \in {"partial", "installed", "gone"}
    PROVE  /\ Moved(m, from, to) \in [Jobs -> Download]
           /\ \A j \in Jobs :
                /\ Moved(m, from, to)[j].pc = job[j].pc
                /\ Moved(m, from, to)[j].model = job[j].model
                /\ Moved(m, from, to)[j].asked = job[j].asked
                /\ Moved(m, from, to)[j].todo = job[j].todo
                /\ job[j].model = m /\ job[j].at = from => Moved(m, from, to)[j].at = to
                /\ job[j].model # m \/ job[j].at # from => Moved(m, from, to)[j] = job[j]
BY DEF Moved, Typed, Download

(* A step of job j that has to do with model m: what it must leave alone,   *)
(* and what it must make of its own record and of the file of m.            *)
LEMMA JobMoves ==
    ASSUME IInv, NEW j \in Jobs, NEW m,
           job' \in [Jobs -> Download], UNCHANGED deleting,
           installed' \in [Models -> Content], partial' \in [Models -> Content],
           shared \subseteq shared', shared' \subseteq Models, shared' \subseteq shared \cup {m},
           \A k \in Models : k # m => partial'[k] = partial[k] /\ installed'[k] = installed[k],
           (partial' = partial /\ installed' = installed) \/ Has(job[j], m),
           \A i \in Jobs : i # j =>
               /\ job'[i].pc = job[i].pc /\ job'[i].model = job[i].model
               /\ job'[i].at = "partial" =>
                      job[i].at = "partial" /\ (job[i].model = m => partial'[m] # NoFile)
               /\ job'[i].at = "installed" =>
                      /\ job[i].at # "gone"
                      /\ job[i].model \in shared'
                      /\ job[i].at = "partial" => job[i].model = m
                      /\ job[i].model = m => installed'[m] # NoFile,
           Fetched(job'[j], partial', installed', shared'), job'[j].pc \in Fetching => job'[j].model = m,
           \A i \in Jobs : i # j /\ Has(job[i], m) /\ job'[j].pc \in Fetching => m \in shared',
           m \in Hashed \ shared' => installed'[m] \in {Whole, NoFile}
    PROVE  IInv' /\ OnePath
<1> USE DEF IInv
<1>1. Typed'
  BY DEF Typed
<1>2. ASSUME NEW i \in Jobs, i # j PROVE Fetched(job'[i], partial', installed', shared')
  <2>1. Fetched(job[i], partial, installed, shared) /\ (Has(job[j], m) /\ Has(job[i], m) => m \in shared)
    BY <1>2 DEF Verified, Exclusive
  <2>2. job[i].at \in {"partial", "installed", "gone"} /\ job'[i].at \in {"partial", "installed", "gone"}
    BY DEF Typed, Download
  <2>3. job'[i].pc \in Fetching => job'[i].model \in Models
    BY <1>2, <2>1 DEF Fetched
  <2>4. job'[i].at # "gone" => job'[i].pc = "read"
    BY <1>2, <2>1, <2>2 DEF Fetched
  <2>5. job'[i].at = "partial" => partial'[job'[i].model] # NoFile
    <3>1. job'[i].at = "partial" => job[i].model \in Models
      BY <1>2, <2>1 DEF Fetched, Fetching
    <3>. QED
      BY <1>2, <2>1, <3>1 DEF Fetched
  <2>6. job'[i].at = "installed" => installed'[job'[i].model] # NoFile /\ job'[i].model \in shared'
    <3>1. job'[i].at = "installed" => job[i].model \in Models
      BY <1>2, <2>1 DEF Fetched, Fetching
    <3>2. job'[i].at = "installed" /\ job[i].model # m => job[i].at = "installed"
      BY <1>2, <2>2
    <3>. QED
      BY <1>2, <2>1, <3>1, <3>2 DEF Fetched
  <2>7. job'[i].pc \in {"hash", "rename"} => job'[i].model \in Hashed
    BY <1>2, <2>1 DEF Fetched
  <2>8. job'[i].pc = "rename" /\ job'[i].model \notin shared' =>
            partial'[job'[i].model] \in {Whole, NoFile}
    <3>1. job'[i].pc = "rename" => job[i].model \in Models
      BY <1>2, <2>1 DEF Fetched, Fetching
    <3>2. job'[i].pc = "rename" /\ job[i].model = m /\ m \notin shared' => partial' = partial
      BY <1>2, <2>1 DEF Has, Fetching
    <3>. QED
      BY <1>2, <2>1, <3>1, <3>2 DEF Fetched
  <2>. QED
    BY <2>3, <2>4, <2>5, <2>6, <2>7, <2>8 DEF Fetched
<1>3. Verified'
  BY <1>2 DEF Verified
<1>4. Exclusive'
  <2> SUFFICES ASSUME NEW a \in Jobs, NEW b \in Jobs, NEW k, a # b,
                      Has(job'[a], k), Has(job'[b], k)
               PROVE  k \in shared'
    BY DEF Exclusive, Has
  <2>1. CASE a # j /\ b # j
    BY <2>1 DEF Exclusive, Has
  <2>2. CASE a = j
    BY <2>2 DEF Has
  <2>3. CASE b = j
    BY <2>3 DEF Has
  <2>. QED
    BY <2>1, <2>2, <2>3
<1>5. NeverTorn'
  BY ModelFilesAssumption DEF NeverTorn
<1>6. OnePath
  <2>1. \A k \in Hashed : k # m => FileState(k)' = FileState(k)
    BY ModelFilesAssumption DEF FileState
  <2>. QED
    BY <2>1 DEF OnePath
<1>. QED
  BY <1>1, <1>3, <1>4, <1>5, <1>6

(* The same, when the other jobs notice nothing. *)
LEMMA JobMovesAlone ==
    ASSUME IInv, NEW j \in Jobs, NEW d \in Download, NEW m,
           job' = [job EXCEPT ![j] = d], UNCHANGED deleting,
           shared \subseteq shared', shared' \subseteq Models, shared' \subseteq shared \cup {m},
           UNCHANGED disk \/
             (/\ Has(job[j], m)
              /\ installed' \in [Models -> Content] /\ partial' \in [Models -> Content]
              /\ \A k \in Models : k # m => partial'[k] = partial[k] /\ installed'[k] = installed[k]
              /\ partial'[m] # NoFile \/ partial' = partial
              /\ installed' = installed \/ (m \in shared /\ installed'[m] # NoFile)),
           Fetched(d, partial', installed', shared'), d.pc \in Fetching => d.model = m,
           Has(job[j], m) \/ d.pc \notin Fetching
             \/ \A i \in Jobs : i # j /\ Has(job[i], m) => m \in shared'
    PROVE  IInv' /\ OnePath
<1> USE DEF IInv
<1>1. job' \in [Jobs -> Download] /\ job'[j] = d /\ \A i \in Jobs : i # j => job'[i] = job[i]
  BY DEF Typed
<1>2. Fetched(job'[j], partial', installed', shared')
  BY <1>1
<1>3. installed' \in [Models -> Content] /\ partial' \in [Models -> Content]
  BY DEF Typed, disk
<1>4. \A k \in Models : k # m => partial'[k] = partial[k] /\ installed'[k] = installed[k]
  BY DEF disk
<1>5. (partial' = partial /\ installed' = installed) \/ Has(job[j], m)
  BY DEF disk
<1>6. ASSUME NEW i \in Jobs, i # j
      PROVE  /\ job'[i].pc = job[i].pc /\ job'[i].model = job[i].model
             /\ job'[i].at = "partial" =>
                    job[i].at = "partial" /\ (job[i].model = m => partial'[m] # NoFile)
             /\ job'[i].at = "installed" =>
                    /\ job[i].at # "gone"
                    /\ job[i].model \in shared'
                    /\ job[i].at = "partial" => job[i].model = m
                    /\ job[i].model = m => installed'[m] # NoFile
  <2>1. job'[i] = job[i] /\ Fetched(job[i], partial, installed, shared)
    BY <1>1, <1>6 DEF Verified
  <2>2. partial'[m] # NoFile \/ partial' = partial
    BY DEF disk
  <2>3. installed'[m] # NoFile \/ installed' = installed
    BY DEF disk
  <2>. QED
    BY <2>1, <2>2, <2>3 DEF Fetched
<1>7. \A i \in Jobs : i # j /\ Has(job[i], m) /\ job'[j].pc \in Fetching => m \in shared'
  BY <1>1 DEF Exclusive
<1>8. m \in Hashed \ shared' => installed'[m] \in {Whole, NoFile}
  BY DEF NeverTorn, disk
<1>9. job'[j].pc \in Fetching => job'[j].model = m
  BY <1>1
<1>. QED
  BY <1>1, <1>2, <1>3, <1>4, <1>5, <1>6, <1>7, <1>8, <1>9, JobMoves

(* The rename: of a file that was verified, or of one with no hash.  Others *)
(* that have the file open go on writing to where it now is.                *)
LEMMA RenamedKeeps ==
    ASSUME IInv, NEW j \in Jobs, Renamed(j), UNCHANGED <<deleting, shared>>,
           job[j].pc \in Fetching,
           job[j].model \in Hashed \ shared => partial[job[j].model] \in {Whole, NoFile}
    PROVE  IInv' /\ OnePath
<1> DEFINE m == job[j].model
<1>0. m \in Models /\ Has(job[j], m) /\ job[j] \in Download
  BY DEF IInv, Typed, Verified, Fetched, Has
<1>1. CASE partial[m] = NoFile /\ job' = Fails(job, j) /\ UNCHANGED disk
  <2> DEFINE d == [Idle EXCEPT !.pc = "failed"]
  <2>1. d \in Download /\ d.pc = "failed" /\ d.at = "gone" /\ job' = [job EXCEPT ![j] = d]
    BY <1>1, IdleType DEF Fails
  <2> HIDE DEF d, m
  <2>2. Fetched(d, partial', installed', shared') /\ d.pc \notin Fetching
    BY <2>1 DEF Fetched, Fetching
  <2>3. shared \subseteq Models
    BY DEF IInv, Typed
  <2>. QED
    BY <1>1, <2>1, <2>2, <2>3, JobMovesAlone
<1>2. CASE /\ partial[m] # NoFile
           /\ installed' = [installed EXCEPT ![m] = partial[m]]
           /\ partial' = [partial EXCEPT ![m] = NoFile]
           /\ job' = [i \in Jobs |->
                 IF i = j THEN Finishes(j, "next", "none")
                 ELSE IF job[i].model # m \/ job[i].at = "gone" THEN job[i]
                 ELSE [job[i] EXCEPT !.at = IF @ = "partial" THEN "installed" ELSE "gone"]]
  <2> DEFINE d == Finishes(j, "next", "none")
  <2>1. d \in Download /\ d.pc = "next" /\ d.at = "gone"
    BY <1>0, FinishesType DEF JobPc
  <2>2. job'[j] = d
    BY <1>2
  <2> HIDE DEF d
  <2>3. ASSUME NEW i \in Jobs, i # j
        PROVE  /\ job'[i] \in Download
               /\ job'[i].pc = job[i].pc /\ job'[i].model = job[i].model
               /\ job'[i].at = "partial" => job[i].at = "partial" /\ job[i].model # m
               /\ job'[i].at = "installed" =>
                      /\ job[i].at # "gone"
                      /\ job[i].model \in shared
                      /\ job[i].at = "partial" => job[i].model = m
    <3>0. job[i] \in Download /\ Fetched(job[i], partial, installed, shared) /\ (Has(job[i], m) => m \in shared)
      BY <1>0, <2>3 DEF IInv, Typed, Verified, Exclusive
    <3>1. CASE job[i].model # m \/ job[i].at = "gone"
      <4>1. job'[i] = job[i]
        BY <1>2, <2>3, <3>1
      <4>. QED
        BY <3>0, <3>1, <4>1 DEF Fetched
    <3>2. CASE ~(job[i].model # m \/ job[i].at = "gone")
      <4>1. job'[i] = [job[i] EXCEPT !.at = IF @ = "partial" THEN "installed" ELSE "gone"]
        BY <1>2, <2>3, <3>2
      <4>2. Has(job[i], m)
        BY <3>0, <3>2 DEF Fetched, Has, Fetching
      <4>. QED
        BY <3>0, <3>2, <4>1, <4>2 DEF Download
    <3>. QED
      BY <3>1, <3>2
  <2>4. job' \in [Jobs -> Download]
    BY <1>2, <2>1, <2>2, <2>3
  <2>5. /\ installed' \in [Models -> Content] /\ partial' \in [Models -> Content]
        /\ installed'[m] = partial[m]
        /\ \A k \in Models : k # m => partial'[k] = partial[k] /\ installed'[k] = installed[k]
    BY <1>0, <1>2, Files DEF IInv, Typed
  <2>6. Fetched(job'[j], partial', installed', shared') /\ job'[j].pc \notin Fetching
    BY <2>1, <2>2 DEF Fetched, Fetching
  <2>7. m \in Hashed \ shared' => installed'[m] \in {Whole, NoFile}
    BY <2>5
  <2>8. shared \subseteq Models
    BY DEF IInv, Typed
  <2>9. ASSUME NEW i \in Jobs, i # j
        PROVE  /\ job'[i].pc = job[i].pc /\ job'[i].model = job[i].model
               /\ job'[i].at = "partial" =>
                      job[i].at = "partial" /\ (job[i].model = m => partial'[m] # NoFile)
               /\ job'[i].at = "installed" =>
                      /\ job[i].at # "gone"
                      /\ job[i].model \in shared'
                      /\ job[i].at = "partial" => job[i].model = m
                      /\ job[i].model = m => installed'[m] # NoFile
    BY <1>2, <2>3, <2>5, <2>9
  <2>10. shared' = shared /\ UNCHANGED deleting
    OBVIOUS
  <2> HIDE DEF m
  <2>. QED
    BY <1>0, <2>4, <2>5, <2>6, <2>7, <2>8, <2>9, <2>10, JobMoves
<1>. QED
  BY <1>1, <1>2 DEF Renamed

(* One job, one step. *)
LEMMA JobStepKeeps ==
    ASSUME IInv, NEW j \in Jobs, Post(j) \/ JobStep(j)
    PROVE  IInv' /\ OnePath
<1>0. /\ job[j] \in Download /\ Fetched(job[j], partial, installed, shared) /\ shared \subseteq Models
      /\ installed \in [Models -> Content] /\ partial \in [Models -> Content]
  BY DEF IInv, Typed, Verified
<1>a. ASSUME NEW d \in Download, job' = [job EXCEPT ![j] = d], d.pc \notin Fetching,
             d.at = "gone", UNCHANGED <<disk, deleting, shared>>
      PROVE  IInv' /\ OnePath
  <2>1. Fetched(d, partial', installed', shared')
    BY <1>a DEF Fetched, Fetching
  <2>. QED
    BY <1>0, <1>a, <2>1, JobMovesAlone
<1>1. CASE Post(j)
  <2> DEFINE missing == {m \in Models : ~Present(m)}
             d == [Idle EXCEPT !.pc = "next", !.asked = missing, !.todo = missing]
  <2>1. job' = [job EXCEPT ![j] = d] /\ UNCHANGED <<disk, deleting, shared>>
    BY <1>1 DEF Post
  <2>2. missing \subseteq Models
    OBVIOUS
  <2>3. d \in Download /\ d.pc = "next" /\ d.at = "gone"
    <3> HIDE DEF missing
    <3>. QED
      BY <2>2, IdleType DEF Idle, Download, JobPc
  <2> HIDE DEF d
  <2>. QED
    BY <1>a, <2>1, <2>3 DEF Fetching
<1>2. CASE NextFile(j) /\ job[j].todo = {}
  <2> DEFINE d == [Idle EXCEPT !.pc = "done", !.asked = job[j].asked]
  <2>1. job' = [job EXCEPT ![j] = d] /\ UNCHANGED <<disk, deleting, shared>>
    BY <1>2 DEF NextFile
  <2>2. d \in Download /\ d.pc = "done" /\ d.at = "gone"
    BY <1>0, IdleType DEF Idle, Download, JobPc
  <2> HIDE DEF d
  <2>. QED
    BY <1>a, <2>1, <2>2 DEF Fetching
<1>3. CASE NextFile(j) /\ job[j].todo # {}
  <2> DEFINE m == CHOOSE m \in job[j].todo : TRUE
             rivals == {i \in Jobs \ {j} : job[i].pc \in Fetching /\ job[i].model = m}
             d == [job[j] EXCEPT !.pc = "open", !.todo = @ \ {m}, !.model = m,
                                 !.have = Length(partial[m])]
  <2>1. m \in Models
    BY <1>0, <1>3 DEF Download
  <2>2. Length(partial[m]) \in Nat
    BY <1>0, <2>1, Files
  <2>3. /\ job' = [job EXCEPT ![j] = d] /\ UNCHANGED <<disk, deleting>> /\ job[j].pc = "next"
        /\ shared' = IF rivals = {} THEN shared ELSE shared \cup {m}
    BY <1>3 DEF NextFile
  <2> HIDE DEF m
  <2>4. d \in Download /\ d.pc = "open" /\ d.at = job[j].at /\ d.model = m
    BY <1>0, <2>1, <2>2 DEF Download, JobPc
  <2> HIDE DEF d
  <2>5. Fetched(d, partial', installed', shared')
    BY <1>0, <2>1, <2>3, <2>4 DEF Fetched, Fetching
  <2>6. \A i \in Jobs : i # j /\ Has(job[i], m) => m \in shared'
    BY <2>3 DEF Has
  <2>7. shared \subseteq shared' /\ shared' \subseteq Models /\ shared' \subseteq shared \cup {m}
    BY <1>0, <2>1, <2>3
  <2>. QED
    BY <2>3, <2>4, <2>5, <2>6, <2>7, JobMovesAlone
<1>4. CASE OpenFails(j) \/ ReadBreaks(j)
  <2> DEFINE d == [Idle EXCEPT !.pc = "failed"]
  <2>1. job' = [job EXCEPT ![j] = d] /\ UNCHANGED <<disk, deleting, shared>>
    BY <1>4 DEF OpenFails, ReadBreaks, Fails
  <2>2. d \in Download /\ d.pc = "failed" /\ d.at = "gone"
    BY IdleType
  <2> HIDE DEF d
  <2>. QED
    BY <1>a, <2>1, <2>2 DEF Fetching
<1>5. CASE Resumes(j) \/ StartsOver(j)
  <2> DEFINE m == job[j].model
  <2>1. PICK from \in 1..Size, append \in BOOLEAN :
            job[j].pc = "open" /\ Opened(j, from, append)
    <3>1. CASE Resumes(j)
      <4>1. /\ job[j].have \in 1..Size - 1 /\ TRUE \in BOOLEAN
            /\ job[j].pc = "open" /\ Opened(j, job[j].have + 1, TRUE)
        BY <3>1 DEF Resumes
      <4>2. job[j].have + 1 \in 1..Size
        BY <4>1, ModelFilesAssumption
      <4>. QED
        BY <4>1, <4>2
    <3>2. CASE StartsOver(j)
      <4>1. FALSE \in BOOLEAN /\ job[j].pc = "open" /\ Opened(j, 1, FALSE)
        BY <3>2 DEF StartsOver
      <4>2. 1 \in 1..Size
        BY ModelFilesAssumption
      <4>. QED
        BY <4>1, <4>2
    <3>. QED
      BY <1>5, <3>1, <3>2
  <2> DEFINE d == [job[j] EXCEPT !.pc = "read", !.have = 0, !.next = from, !.done = from - 1,
                                 !.at = "partial", !.append = append]
  <2>2. m \in Models /\ Has(job[j], m)
    BY <1>0, <2>1 DEF Fetched, Has, Fetching
  <2>3. /\ partial' \in [Models -> Content] /\ UNCHANGED <<installed, deleting, shared>>
        /\ partial'[m] # NoFile /\ \A k \in Models : k # m => partial'[k] = partial[k]
    <3>1. partial' = [partial EXCEPT ![m] = <<>>] \/ (partial' = partial /\ partial[m] # NoFile)
      BY <1>5 DEF Resumes, StartsOver
    <3>2. UNCHANGED <<installed, deleting, shared>>
      BY <1>5 DEF Resumes, StartsOver
    <3>. QED
      BY <1>0, <2>2, <3>1, <3>2, Files DEF NoFile
  <2>4. job' = [job EXCEPT ![j] = d]
    BY <2>1 DEF Opened
  <2>5. d \in Download /\ d.pc = "read" /\ d.at = "partial" /\ d.model = m
    <3>1. from \in 1..Size + 1 /\ from - 1 \in Nat /\ 0 \in Nat
      BY <2>1, ModelFilesAssumption
    <3>. QED
      BY <1>0, <2>1, <3>1 DEF Download, JobPc
  <2> HIDE DEF d
  <2>6. Fetched(d, partial', installed', shared')
    BY <2>2, <2>3, <2>5 DEF Fetched
  <2> HIDE DEF m
  <2>. QED
    BY <1>0, <2>2, <2>3, <2>4, <2>5, <2>6, JobMovesAlone
<1>6. CASE ReadChunk(j)
  <2> DEFINE m == job[j].model
             d == [job[j] EXCEPT !.next = @ + 1, !.done = @ + 1]
  <2>1. /\ job[j].pc = "read" /\ job[j].next <= Size /\ UNCHANGED <<deleting, shared>>
        /\ job' = [job EXCEPT ![j] = d]
    BY <1>6 DEF ReadChunk
  <2>2. PICK chunk \in {job[j].next, Bad} :
            /\ partial' = IF job[j].at = "partial"
                          THEN [partial EXCEPT ![m] = Written(@, j, chunk)] ELSE partial
            /\ installed' = IF job[j].at = "installed"
                            THEN [installed EXCEPT ![m] = Written(@, j, chunk)] ELSE installed
    BY <1>6 DEF ReadChunk
  <2>3. chunk \in 1..Bad
    <3>1. job[j].next \in 1..Size + 1 /\ Bad = Size + 1
      BY <1>0 DEF Download, Bad
    <3>. QED
      BY <3>1, ModelFilesAssumption
  <2>4. m \in Models /\ Has(job[j], m)
    BY <1>0, <2>1 DEF Fetched, Has, Fetching
  <2>5. d \in Download /\ d.pc = job[j].pc /\ d.at = job[j].at /\ d.model = m
    <3>1. job[j].next + 1 \in 1..Size + 1 /\ job[j].done + 1 \in Nat
      BY <1>0, <2>1, ModelFilesAssumption DEF Download
    <3>. QED
      BY <1>0, <3>1 DEF Download
  <2> HIDE DEF d, m
  <2>6. ASSUME NEW file \in Content, file # NoFile
        PROVE  Written(file, j, chunk) \in Content /\ Written(file, j, chunk) # NoFile
    <3>1. file \in Seq(1..Bad)
      BY <2>6, Files
    <3>2. Written(file, j, chunk) \in Seq(1..Bad)
      BY <1>0, <2>3, <3>1, Files, WrittenIsFile
    <3>. QED
      BY <3>2, Files
  <2>7. partial[m] \in Content /\ installed[m] \in Content
    BY <1>0, <2>4
  <2>8. CASE job[j].at = "partial"
    <3>1. partial[m] # NoFile
      BY <1>0, <2>8 DEF Fetched, m
    <3>2. partial' = [partial EXCEPT ![m] = Written(partial[m], j, chunk)] /\ installed' = installed
      BY <2>2, <2>8
    <3>3. partial' \in [Models -> Content] /\ partial'[m] # NoFile
          /\ \A k \in Models : k # m => partial'[k] = partial[k]
      BY <1>0, <2>4, <2>6, <2>7, <3>1, <3>2
    <3>4. Fetched(d, partial', installed', shared')
      BY <2>1, <2>4, <2>5, <2>8, <3>3 DEF Fetched
    <3>. QED
      BY <1>0, <2>1, <2>4, <2>5, <3>2, <3>3, <3>4, JobMovesAlone
  <2>9. CASE job[j].at = "installed"
    <3>1. installed[m] # NoFile /\ m \in shared
      BY <1>0, <2>9 DEF Fetched, m
    <3>2. installed' = [installed EXCEPT ![m] = Written(installed[m], j, chunk)] /\ partial' = partial
      BY <2>2, <2>9
    <3>3. installed' \in [Models -> Content] /\ installed'[m] # NoFile
          /\ \A k \in Models : k # m => installed'[k] = installed[k]
      BY <1>0, <2>4, <2>6, <2>7, <3>1, <3>2
    <3>4. Fetched(d, partial', installed', shared')
      BY <2>1, <2>4, <2>5, <2>9, <3>1, <3>3 DEF Fetched
    <3>. QED
      BY <1>0, <2>1, <2>4, <2>5, <3>1, <3>2, <3>3, <3>4, JobMovesAlone
  <2>10. CASE job[j].at = "gone"
    <3>1. UNCHANGED disk
      BY <2>2, <2>10 DEF disk
    <3>2. Fetched(d, partial', installed', shared')
      BY <2>1, <2>4, <2>5, <2>10 DEF Fetched
    <3>. QED
      BY <1>0, <2>1, <2>4, <2>5, <3>1, <3>2, JobMovesAlone
  <2>. QED
    BY <1>0, <2>8, <2>9, <2>10 DEF Download
<1>7. CASE ReadEnds(j)
  <2>0. job[j].pc = "read" /\ job[j].model \in Models /\ UNCHANGED <<deleting, shared>>
    BY <1>0, <1>7 DEF ReadEnds, Fetched, Fetching
  <2>1. CASE job[j].model \in Hashed
    <3> DEFINE d == Finishes(j, "hash", job[j].model)
    <3>1. job' = [job EXCEPT ![j] = d] /\ UNCHANGED disk
      BY <1>7, <2>1 DEF ReadEnds
    <3>2. d \in Download /\ d.pc = "hash" /\ d.at = "gone" /\ d.model = job[j].model
      BY <1>0, <2>0, FinishesType DEF JobPc
    <3> HIDE DEF d
    <3>3. Fetched(d, partial', installed', shared') /\ Has(job[j], job[j].model)
      BY <2>0, <2>1, <3>2 DEF Fetched, Has, Fetching
    <3>. QED
      BY <1>0, <2>0, <3>1, <3>2, <3>3, JobMovesAlone
  <2>2. CASE job[j].model \notin Hashed
    BY <1>7, <2>0, <2>2, RenamedKeeps DEF ReadEnds, Fetching
  <2>. QED
    BY <2>1, <2>2
<1>8. CASE HashTaken(j)
  <2> DEFINE m == job[j].model
  <2>0. /\ job[j].pc = "hash" /\ m \in Models /\ m \in Hashed /\ Has(job[j], m)
        /\ UNCHANGED <<installed, deleting, shared>>
    BY <1>0, <1>8 DEF HashTaken, Fetched, Has, Fetching
  <2>1. CASE partial[m] = Whole /\ job' = [job EXCEPT ![j].pc = "rename"] /\ UNCHANGED partial
    <3> DEFINE d == [job[j] EXCEPT !.pc = "rename"]
    <3>1. job' = [job EXCEPT ![j] = d] /\ UNCHANGED disk
      BY <2>0, <2>1 DEF disk
    <3>2. d \in Download /\ d.pc = "rename" /\ d.at = job[j].at /\ d.model = m
      BY <1>0 DEF Download, JobPc
    <3>3. job[j].at = "gone"
      BY <1>0, <2>0 DEF Fetched
    <3> HIDE DEF d
    <3>4. Fetched(d, partial', installed', shared')
      BY <2>0, <2>1, <3>2, <3>3 DEF Fetched
    <3>. QED
      BY <1>0, <2>0, <3>1, <3>2, <3>4, JobMovesAlone
  <2>2. CASE /\ partial' = [partial EXCEPT ![m] = NoFile]
             /\ job' = Fails(Moved(m, "partial", "gone"), j)
    <3> DEFINE d == [Idle EXCEPT !.pc = "failed"]
               moved == Moved(m, "partial", "gone")
    <3>1. moved \in [Jobs -> Download]
          /\ \A i \in Jobs : /\ moved[i].pc = job[i].pc /\ moved[i].model = job[i].model
                             /\ job[i].model = m /\ job[i].at = "partial" => moved[i].at = "gone"
                             /\ job[i].model # m \/ job[i].at # "partial" => moved[i] = job[i]
      <4>1. Typed /\ "gone" \in {"partial", "installed", "gone"}
        BY DEF IInv
      <4>. QED
        BY <4>1, MovedType
    <3>2. d \in Download /\ d.pc = "failed" /\ d.at = "gone" /\ job' = [moved EXCEPT ![j] = d]
      BY <2>2, IdleType DEF Fails
    <3> HIDE DEF d, moved, m
    <3>3. job' \in [Jobs -> Download] /\ job'[j] = d /\ \A i \in Jobs : i # j => job'[i] = moved[i]
      BY <3>1, <3>2
    <3>4. Fetched(job'[j], partial', installed', shared') /\ job'[j].pc \notin Fetching
      BY <3>2, <3>3 DEF Fetched, Fetching
    <3>5. ASSUME NEW i \in Jobs, i # j
          PROVE  /\ job'[i].pc = job[i].pc /\ job'[i].model = job[i].model
                 /\ job'[i].at = "partial" =>
                        job[i].at = "partial" /\ (job[i].model = m => partial'[m] # NoFile)
                 /\ job'[i].at = "installed" =>
                        /\ job[i].at # "gone"
                        /\ job[i].model \in shared'
                        /\ job[i].at = "partial" => job[i].model = m
                        /\ job[i].model = m => installed'[m] # NoFile
      <4>1. Fetched(job[i], partial, installed, shared)
        BY DEF IInv, Verified
      <4>. QED
        BY <2>0, <3>1, <3>3, <3>5, <4>1 DEF Fetched
    <3>6. partial' \in [Models -> Content] /\ \A k \in Models : k # m => partial'[k] = partial[k]
      BY <1>0, <2>0, <2>2, Files DEF m
    <3>7. m \in Hashed \ shared' => installed'[m] \in {Whole, NoFile}
      BY <2>0 DEF IInv, NeverTorn
    <3>. QED
      BY <1>0, <2>0, <3>3, <3>4, <3>5, <3>6, <3>7, JobMoves
  <2>. QED
    BY <1>8, <2>1, <2>2 DEF HashTaken
<1>9. CASE Rename(j)
  <2>1. /\ job[j].pc \in Fetching /\ Renamed(j) /\ UNCHANGED <<deleting, shared>>
        /\ job[j].model \in Hashed \ shared => partial[job[j].model] \in {Whole, NoFile}
    BY <1>0, <1>9 DEF Rename, Fetched, Fetching
  <2>. QED
    BY <2>1, RenamedKeeps
<1>. QED
  BY <1>1, <1>2, <1>3, <1>4, <1>5, <1>6, <1>7, <1>8, <1>9 DEF JobStep

(* A deletion and a crash. *)
LEMMA OthersKeep ==
    ASSUME IInv, (\E m \in Models : Delete(m)) \/ DeletePartial \/ Crash
    PROVE  IInv' /\ OnePath
<1>0. /\ Typed /\ installed \in [Models -> Content] /\ partial \in [Models -> Content]
      /\ \A j \in Jobs : job[j] \in Download /\ Fetched(job[j], partial, installed, shared)
  BY DEF IInv, Typed, Verified
<1>1. CASE \E m \in Models : Delete(m)
  <2>1. PICK m \in Models : Delete(m)
    BY <1>1
  <2>2. /\ job' = Moved(m, "installed", "gone") /\ deleting' = m /\ UNCHANGED <<partial, shared>>
        /\ installed' = [installed EXCEPT ![m] = NoFile]
    BY <2>1 DEF Delete
  <2>3. /\ job' \in [Jobs -> Download]
        /\ \A j \in Jobs : /\ job'[j].pc = job[j].pc /\ job'[j].model = job[j].model
                           /\ job[j].model = m /\ job[j].at = "installed" => job'[j].at = "gone"
                           /\ job[j].model # m \/ job[j].at # "installed" => job'[j] = job[j]
    BY <1>0, <2>2, MovedType
  <2>4. /\ installed' \in [Models -> Content] /\ installed'[m] = NoFile
        /\ \A k \in Models : k # m => installed'[k] = installed[k]
    BY <1>0, <2>2, Files
  <2>5. Verified'
    <3> SUFFICES ASSUME NEW j \in Jobs PROVE Fetched(job'[j], partial', installed', shared')
      BY DEF Verified
    <3>1. CASE job[j].model = m /\ job[j].at = "installed"
      BY <1>0, <2>2, <2>3, <3>1 DEF Fetched
    <3>2. CASE job[j].model # m \/ job[j].at # "installed"
      <4>1. job'[j] = job[j] /\ Fetched(job[j], partial, installed, shared)
        BY <1>0, <2>3, <3>2
      <4>2. job[j].at = "installed" => installed'[job[j].model] = installed[job[j].model]
        BY <2>4, <3>2, <4>1 DEF Fetched, Fetching
      <4>. QED
        BY <2>2, <4>1, <4>2 DEF Fetched
    <3>. QED
      BY <3>1, <3>2
  <2>6. Exclusive'
    BY <2>2, <2>3 DEF IInv, Exclusive, Has
  <2>7. NeverTorn'
    BY <2>2, <2>4, ModelFilesAssumption DEF IInv, NeverTorn
  <2>8. Typed'
    BY <1>0, <2>2, <2>3, <2>4 DEF Typed
  <2>9. OnePath
    <3>1. \A k \in Hashed : k # m => FileState(k)' = FileState(k)
      BY <2>2, <2>4, ModelFilesAssumption DEF FileState
    <3>. QED
      BY <3>1 DEF OnePath
  <2>. QED
    BY <2>5, <2>6, <2>7, <2>8, <2>9 DEF IInv
<1>2. CASE DeletePartial
  <2>1. /\ deleting \in Models /\ deleting' = "none" /\ UNCHANGED <<installed, shared>>
        /\ partial' = [partial EXCEPT ![deleting] = NoFile]
        /\ job' = Moved(deleting, "partial", "gone")
    BY <1>0, <1>2 DEF DeletePartial, Typed
  <2>2. /\ job' \in [Jobs -> Download]
        /\ \A j \in Jobs : /\ job'[j].pc = job[j].pc /\ job'[j].model = job[j].model
                           /\ job[j].model = deleting /\ job[j].at = "partial" => job'[j].at = "gone"
                           /\ job[j].model # deleting \/ job[j].at # "partial" => job'[j] = job[j]
    BY <1>0, <2>1, MovedType
  <2>3. /\ partial' \in [Models -> Content] /\ partial'[deleting] = NoFile
        /\ \A k \in Models : k # deleting => partial'[k] = partial[k]
    BY <1>0, <2>1, Files
  <2>4. Verified'
    <3> SUFFICES ASSUME NEW j \in Jobs PROVE Fetched(job'[j], partial', installed', shared')
      BY DEF Verified
    <3>0. Fetched(job[j], partial, installed, shared)
      BY <1>0
    <3>1. CASE job[j].model = deleting /\ job[j].at = "partial"
      BY <2>1, <2>2, <3>0, <3>1 DEF Fetched
    <3>2. CASE job[j].model # deleting \/ job[j].at # "partial"
      <4>1. job'[j] = job[j]
        BY <2>2, <3>2
      <4>2. job[j].at = "partial" => partial'[job[j].model] = partial[job[j].model]
        BY <2>3, <3>0, <3>2 DEF Fetched, Fetching
      <4>3. job[j].pc = "rename" => \/ partial'[job[j].model] = partial[job[j].model]
                                    \/ partial'[job[j].model] = NoFile
        BY <2>3, <3>0 DEF Fetched, Fetching
      <4>. QED
        BY <2>1, <3>0, <4>1, <4>2, <4>3 DEF Fetched
    <3>. QED
      BY <3>1, <3>2
  <2>5. Exclusive'
    BY <2>1, <2>2 DEF IInv, Exclusive, Has
  <2>6. NeverTorn' /\ Typed' /\ OnePath
    BY <1>0, <2>1, <2>2, <2>3 DEF IInv, NeverTorn, Typed, OnePath, FileState
  <2>. QED
    BY <2>4, <2>5, <2>6 DEF IInv
<1>3. CASE Crash
  <2>1. /\ job' = [j \in Jobs |-> Idle] /\ deleting' = "none"
        /\ UNCHANGED <<installed, partial, shared>>
    BY <1>3 DEF Crash, disk
  <2>2. Typed'
    BY <1>0, <2>1, IdleType DEF Typed
  <2>3. Verified' /\ Exclusive'
    BY <2>1, IdleType DEF Verified, Fetched, Exclusive, Has, Fetching
  <2>4. NeverTorn' /\ OnePath
    BY <2>1 DEF IInv, NeverTorn, OnePath, FileState
  <2>. QED
    BY <2>2, <2>3, <2>4 DEF IInv
<1>. QED
  BY <1>1, <1>2, <1>3

LEMMA InvStep ==
    ASSUME IInv, [Next]_vars
    PROVE  IInv' /\ OnePath
<1>1. CASE UNCHANGED vars
  <2>1. UNCHANGED <<installed, partial, job, deleting, shared>>
    BY <1>1 DEF vars, disk
  <2>2. Typed' /\ Verified' /\ Exclusive'
    BY <2>1 DEF IInv, Typed, Verified, Exclusive, Has
  <2>3. NeverTorn' /\ OnePath
    BY <2>1 DEF IInv, NeverTorn, OnePath, FileState
  <2>. QED
    BY <2>2, <2>3 DEF IInv
<1>. QED
  BY <1>1, JobStepKeeps, OthersKeep DEF Next

-----------------------------------------------------------------------------
(* The initial states of the detailed specification are initial states of   *)
(* the abstract one.                                                        *)
LEMMA AbstractInit == Init => Abstract!Init
BY ModelFilesAssumption DEF Init, Abstract!Init, FileState

(* What nobody shares is missing or whole, and so is what counts as missing.*)
LEMMA MissingOrWhole ==
    ASSUME IInv, NEW k \in Hashed
    PROVE  FileState(k) \in {"missing", "whole"}
BY Files DEF IInv, NeverTorn, FileState

(* A step is an installation, a removal or none of the two.                 *)
LEMMA AbstractStep ==
    ASSUME IInv, IInv', OnePath
    PROVE  [Abstract!Next]_[m \in Hashed |-> FileState(m)]
<1> DEFINE state == [m \in Hashed |-> FileState(m)]
<1>1. PICK m : \A k \in Hashed : k # m => FileState(k)' = FileState(k)
  BY DEF OnePath
<1>2. CASE m \notin Hashed
  <2>1. \A k \in Hashed : FileState(k)' = FileState(k)
    BY <1>1, <1>2
  <2>2. state' = state
    BY <2>1
  <2>. QED
    BY <2>2
<1>3. CASE m \in Hashed
  <2>1. \A k \in Hashed : k # m => state'[k] = state[k]
    BY <1>1
  <2>2. state' = [k \in Hashed |-> IF k = m THEN state'[m] ELSE state[k]]
    BY <2>1
  <2>3. state' = [state EXCEPT ![m] = state'[m]]
    BY <2>2
  <2>4. FileState(m) \in {"missing", "whole"}
    BY <1>3, MissingOrWhole
  <2>5. FileState(m)' \in {"missing", "whole"}
    BY <1>3, ModelFilesAssumption, Files DEF IInv, NeverTorn, FileState
  <2>6. state[m] \in {"missing", "whole"} /\ state'[m] \in {"missing", "whole"}
    BY <1>3, <2>4, <2>5
  <2>7. CASE state'[m] = state[m]
    BY <2>3, <2>7
  <2>8. CASE state[m] = "missing" /\ state'[m] = "whole"
    BY <1>3, <2>3, <2>8 DEF Abstract!Next, Abstract!Install
  <2>9. CASE state[m] = "whole" /\ state'[m] = "missing"
    BY <1>3, <2>3, <2>9 DEF Abstract!Next, Abstract!Remove
  <2>. QED
    BY <2>6, <2>7, <2>8, <2>9
<1>. QED
  BY <1>2, <1>3

(* However many download jobs run, the file of a model with a hash is there *)
(* whole or not at all, and appears in one step, unless two jobs had it in  *)
(* hand: whatever is damaged, broken off, answered in full, deleted         *)
(* meanwhile or cut short by a crash (core/models.py:173).                  *)
THEOREM InstallsAtomically == Spec => AtomicallyInstalled
<1>1. IInv /\ [Next]_vars => IInv' /\ OnePath
  BY InvStep
<1>2. IInv /\ IInv' /\ OnePath => [Abstract!Next]_[m \in Hashed |-> FileState(m)]
  BY AbstractStep
<1>. QED
  BY <1>1, <1>2, InvInit, AbstractInit, PTL DEF Spec, AtomicallyInstalled, Abstract!Spec

-----------------------------------------------------------------------------
(* What DownloadsAreSound needs besides, of the models nobody shares.  A    *)
(* file is short of Size chunks, unless it is being written, hashed or      *)
(* renamed, or an engine was killed; and without deletions the writer       *)
(* stands at its end.                                                       *)
Writing == {"read", "hash", "rename"}
Kept(file) == file = NoFile \/ (file \in Seq(1..Bad) /\ Len(file) <= Size)

(* d is a job, file the partial file of its model, dels the deletions.      *)
Opening(d, file, dels) ==
    d.pc = "open" =>
        /\ d.have <= Size /\ Length(file) <= d.have
        /\ dels = 0 => Length(file) = d.have
Reading(d, file, dels) ==
    d.pc = "read" =>
        /\ d.done = d.next - 1 /\ Length(file) <= d.done
        /\ d.at = "gone" => file = NoFile
        /\ dels = 0 => d.at = "partial"
        /\ d.at = "partial" /\ (dels = 0 \/ ~d.append) => Len(file) = d.done
Complete(d, file, dels) ==
    d.pc \in {"hash", "rename"} /\ dels = 0 => file # NoFile /\ Len(file) = Size
Progress(d, file, dels) == Opening(d, file, dels) /\ Reading(d, file, dels) /\ Complete(d, file, dels)

(* What a job was asked for is installed, ahead of it or in its hands, if   *)
(* it is not shared.                                                        *)
Owes(d, inst, dels, sh) ==
    /\ d.pc = "done" => d.todo = {}
    /\ dels = 0 /\ d.pc \notin {"idle", "failed"} =>
          \A m \in d.asked \ sh : m \in d.todo \/ Length(inst[m]) >= Size \/ Has(d, m)
Busy(d, m) == d.pc \in Writing /\ d.model = m

Bounds ==
    /\ faults \in 0..MaxFaults /\ deletes \in 0..MaxDeletes /\ crashed \in BOOLEAN
    /\ deleting # "none" => deletes # 0
    /\ \A m \in Models \ shared : Kept(partial[m]) /\ Kept(installed[m])
Progressing ==
    \A j \in Jobs : /\ job[j].model \notin shared => Progress(job[j], partial[job[j].model], deletes)
                    /\ Owes(job[j], installed, deletes, shared)
Short ==
    \A m \in Models \ shared :
        ~crashed /\ (\A j \in Jobs : ~Busy(job[j], m)) => Length(partial[m]) < Size
FInv == IInv /\ Bounds /\ ChunksInPlace /\ Progressing /\ Short

(* A file is content, of a length that is a number, and no file has none.   *)
LEMMA KeptFacts ==
    /\ Kept(NoFile) /\ Kept(<<>>) /\ Length(NoFile) = 0 /\ Length(<<>>) = 0
    /\ \A f : Kept(f) => /\ Length(f) \in 0..Size
                         /\ f # NoFile => f \in Seq(1..Bad) /\ Length(f) = Len(f)
<1>1. Size \in Nat \ {0} /\ Bad \in Nat
  BY ModelFilesAssumption DEF Bad
<1>2. <<>> # NoFile /\ <<>> \in Seq(1..Bad) /\ Len(<<>>) = 0
  BY DEF NoFile
<1>3. ASSUME NEW f, Kept(f)
      PROVE  /\ Length(f) \in 0..Size
             /\ f # NoFile => f \in Seq(1..Bad) /\ Length(f) = Len(f)
  <2>1. CASE f = NoFile
    BY <1>1, <2>1 DEF Length
  <2>2. CASE f # NoFile
    <3>1. f \in Seq(1..Bad) /\ Len(f) <= Size /\ Len(f) \in Nat
      BY <1>3, <2>2 DEF Kept
    <3>. QED
      BY <1>1, <2>2, <3>1 DEF Length
  <2>. QED
    BY <2>1, <2>2
<1>. QED
  BY <1>1, <1>2, <1>3 DEF Kept, Length

LEMMA IdleIsFine ==
    ASSUME NEW file, NEW inst, NEW dels, NEW sh, NEW d, d.pc \in {"idle", "failed"}
    PROVE  Progress(d, file, dels) /\ Owes(d, inst, dels, sh) /\ \A m : ~Busy(d, m)
BY DEF Progress, Opening, Reading, Complete, Owes, Busy, Writing

LEMMA StrongInit == Init => FInv
<1> SUFFICES ASSUME Init PROVE FInv
  OBVIOUS
<1>1. IInv
  BY InvInit
<1>2. Bounds
  <2>1. 0 \in 0..MaxFaults /\ 0 \in 0..MaxDeletes
    BY ModelFilesAssumption
  <2>. QED
    BY <2>1, KeptFacts DEF Init, Bounds
<1>3. ChunksInPlace
  BY DEF Init, ChunksInPlace
<1>4. Progressing
  <2>1. \A j \in Jobs : job[j].pc = "idle"
    BY IdleType DEF Init
  <2>. QED
    BY <2>1, IdleIsFine DEF Progressing
<1>5. Short
  BY KeptFacts, ModelFilesAssumption DEF Init, Short
<1>. QED
  BY <1>1, <1>2, <1>3, <1>4, <1>5 DEF FInv

-----------------------------------------------------------------------------
(* A step of job j that has to do with model m, and what it must make of    *)
(* both if m is not shared.  Who else has m in hand shares it.              *)
LEMMA JobIsSound ==
    ASSUME FInv, IInv', NEW j \in Jobs, NEW m, NEW file, NEW inst,
           UNCHANGED <<deleting, deletes, crashed>>, faults' \in 0..MaxFaults,
           shared \subseteq shared',
           \A i \in Jobs : i # j =>
               \/ job'[i] = job[i]
               \/ /\ Has(job[i], m) /\ m \in shared'
                  /\ job'[i].pc = job[i].pc /\ job'[i].model = job[i].model
                  /\ job'[i].asked = job[i].asked /\ job'[i].todo = job[i].todo,
           \A k \in Models : k # m => partial'[k] = partial[k] /\ installed'[k] = installed[k],
           m \in Models => partial'[m] = file /\ installed'[m] = inst,
           (partial' = partial /\ installed' = installed) \/ Has(job[j], m),
           job[j].pc \in Writing => job[j].model = m,
           job'[j].pc \in Fetching => job'[j].model = m,
           m \in Models \ shared' =>
               /\ Kept(file) /\ Kept(inst)
               /\ deletes = 0 /\ file # NoFile => Aligned(file)
               /\ deletes = 0 /\ inst # NoFile => Aligned(inst)
               /\ deletes = 0 => inst = installed[m] \/ Length(inst) >= Size
               /\ Progress(job'[j], file, deletes)
               /\ job'[j].pc \in Writing \/ crashed \/ Length(file) < Size
                    \/ (job[j].pc \notin Writing /\ file = partial[m]),
           Owes(job'[j], installed', deletes, shared')
    PROVE  FInv'
<1>0. \A i \in Jobs : i # j => job'[i].pc = job[i].pc /\ job'[i].model = job[i].model
                               /\ job'[i].asked = job[i].asked /\ job'[i].todo = job[i].todo
  OBVIOUS
<1>1. Bounds'
  BY DEF FInv, Bounds
<1>2. ChunksInPlace'
  BY DEF FInv, ChunksInPlace, Aligned
<1>3. ASSUME NEW i \in Jobs, i # j
      PROVE  /\ job'[i].model \notin shared' => Progress(job'[i], partial'[job'[i].model], deletes')
             /\ Owes(job'[i], installed', deletes', shared')
  <2>1. /\ job[i].model \notin shared => Progress(job[i], partial[job[i].model], deletes)
        /\ Owes(job[i], installed, deletes, shared)
    BY DEF FInv, Progressing
  <2>2. job'[i].model \notin shared' => Progress(job'[i], partial'[job'[i].model], deletes')
    <3> SUFFICES ASSUME job'[i].model \notin shared'
                 PROVE  Progress(job'[i], partial'[job'[i].model], deletes')
      OBVIOUS
    <3>1. job'[i] = job[i] /\ job[i].model \notin shared
      BY <1>0, <1>3 DEF Has
    <3>2. CASE job[i].pc \in Fetching
      <4>1. job[i].model \in Models
        BY <3>2 DEF FInv, IInv, Verified, Fetched
      <4>2. partial'[job[i].model] = partial[job[i].model]
        <5>1. CASE job[i].model # m
          BY <4>1, <5>1
        <5>2. CASE job[i].model = m
          <6>1. ~Has(job[j], m)
            BY <1>3, <3>1, <3>2, <5>2 DEF FInv, IInv, Exclusive, Has
          <6>. QED
            BY <6>1
        <5>. QED
          BY <5>1, <5>2
      <4>. QED
        BY <2>1, <3>1, <4>2
    <3>3. CASE job[i].pc \notin Fetching
      BY <3>1, <3>3 DEF Progress, Opening, Reading, Complete, Fetching
    <3>. QED
      BY <3>2, <3>3
  <2>3. Owes(job'[i], installed', deletes', shared')
    <3>1. job'[i].pc = "done" => job'[i].todo = {}
      BY <1>0, <1>3, <2>1 DEF Owes
    <3>2. ASSUME deletes = 0, job[i].pc \notin {"idle", "failed"}, NEW k \in job[i].asked \ shared'
          PROVE  k \in job[i].todo \/ Length(installed'[k]) >= Size \/ Has(job[i], k)
      <4>1. k \in job[i].todo \/ Length(installed[k]) >= Size \/ Has(job[i], k)
        BY <2>1, <3>2 DEF Owes
      <4>2. k \in Models
        BY <3>2 DEF FInv, IInv, Typed, Download
      <4>. QED
        BY <3>2, <4>1, <4>2
    <3>. QED
      BY <1>0, <1>3, <3>1, <3>2 DEF Owes, Has
  <2>. QED
    BY <2>2, <2>3
<1>4. /\ job'[j].model \notin shared' => Progress(job'[j], partial'[job'[j].model], deletes')
      /\ Owes(job'[j], installed', deletes', shared')
  <2>1. CASE job'[j].pc \in Fetching
    <3>1. job'[j].model \in Models /\ job'[j].model = m
      BY <2>1 DEF IInv, Verified, Fetched
    <3>. QED
      BY <2>1, <3>1
  <2>2. CASE job'[j].pc \notin Fetching
    BY <2>2 DEF Progress, Opening, Reading, Complete, Fetching
  <2>. QED
    BY <2>1, <2>2
<1>5. Progressing'
  BY <1>3, <1>4 DEF Progressing
<1>6. Short'
  <2> SUFFICES ASSUME NEW k \in Models \ shared', ~crashed, \A i \in Jobs : ~Busy(job'[i], k)
               PROVE  Length(partial'[k]) < Size
    BY DEF Short
  <2>1. \A i \in Jobs : i # j => ~Busy(job[i], k)
    BY <1>0 DEF Busy
  <2>2. CASE k = m
    <3>1. job'[j].pc \notin Writing
      BY <2>2 DEF Busy, Writing, Fetching
    <3>2. CASE Length(file) < Size
      BY <2>2, <3>2
    <3>3. CASE job[j].pc \notin Writing /\ file = partial[m]
      BY <2>1, <2>2, <3>3 DEF FInv, Short, Busy
    <3>. QED
      BY <2>2, <3>1, <3>2, <3>3
  <2>3. CASE k # m
    <3>1. ~Busy(job[j], k)
      BY <2>3 DEF Busy
    <3>. QED
      BY <2>1, <2>3, <3>1 DEF FInv, Short
  <2>. QED
    BY <2>2, <2>3
<1>. QED
  BY <1>1, <1>2, <1>5, <1>6 DEF FInv

(* A step of one job that leaves the disk alone. *)
LEMMA NoWrite ==
    ASSUME FInv, IInv', NEW j \in Jobs, NEW d, NEW m, job' = [job EXCEPT ![j] = d],
           UNCHANGED <<disk, deleting, deletes, crashed>>, faults' \in 0..MaxFaults,
           shared \subseteq shared',
           job[j].pc \in Writing => job[j].model = m,
           d.pc \in Fetching => d.model = m,
           m \in Models \ shared' =>
               /\ Progress(d, partial[m], deletes)
               /\ d.pc \in Writing \/ crashed \/ Length(partial[m]) < Size \/ job[j].pc \notin Writing,
           Owes(d, installed, deletes, shared')
    PROVE  FInv'
<1>1. job'[j] = d /\ \A i \in Jobs : i # j => job'[i] = job[i]
  BY DEF FInv, IInv, Typed
<1>2. partial' = partial /\ installed' = installed
  BY DEF disk
<1>3. m \in Models \ shared' =>
          /\ Kept(partial[m]) /\ Kept(installed[m])
          /\ deletes = 0 /\ partial[m] # NoFile => Aligned(partial[m])
          /\ deletes = 0 /\ installed[m] # NoFile => Aligned(installed[m])
  BY DEF FInv, Bounds, ChunksInPlace
<1> DEFINE file == partial[m]
           inst == installed[m]
<1>4. m \in Models => partial'[m] = file /\ installed'[m] = inst
  BY <1>2
<1>5. \A k \in Models : k # m => partial'[k] = partial[k] /\ installed'[k] = installed[k]
  BY <1>2
<1>6. m \in Models \ shared' =>
          /\ Kept(file) /\ Kept(inst)
          /\ deletes = 0 /\ file # NoFile => Aligned(file)
          /\ deletes = 0 /\ inst # NoFile => Aligned(inst)
          /\ deletes = 0 => inst = installed[m] \/ Length(inst) >= Size
          /\ Progress(job'[j], file, deletes)
          /\ job'[j].pc \in Writing \/ crashed \/ Length(file) < Size
               \/ (job[j].pc \notin Writing /\ file = partial[m])
  BY <1>1, <1>3
<1>7. Owes(job'[j], installed', deletes, shared') /\ (job'[j].pc \in Fetching => job'[j].model = m)
  BY <1>1, <1>2
<1> HIDE DEF file, inst
<1>. QED
  BY <1>1, <1>2, <1>4, <1>5, <1>6, <1>7, JobIsSound

(* A step of one job that writes to the partial file of its model. *)
LEMMA OneWrite ==
    ASSUME FInv, IInv', NEW j \in Jobs, NEW d, NEW m, NEW file, job' = [job EXCEPT ![j] = d],
           UNCHANGED <<installed, deleting, shared, deletes, crashed>>, faults' \in 0..MaxFaults,
           Has(job[j], m), m \in Models, partial' = [partial EXCEPT ![m] = file],
           d.pc \in Fetching => d.model = m,
           m \notin shared =>
               /\ Kept(file)
               /\ deletes = 0 /\ file # NoFile => Aligned(file)
               /\ Progress(d, file, deletes)
               /\ d.pc \in Writing \/ crashed \/ Length(file) < Size,
           Owes(d, installed, deletes, shared)
    PROVE  FInv'
<1>1. job'[j] = d /\ \A i \in Jobs : i # j => job'[i] = job[i]
  BY DEF FInv, IInv, Typed
<1>2. partial'[m] = file /\ \A k \in Models : k # m => partial'[k] = partial[k]
  BY DEF FInv, IInv, Typed
<1> DEFINE inst == installed[m]
<1>3. m \in Models \ shared' =>
          /\ Kept(file) /\ Kept(inst)
          /\ deletes = 0 /\ file # NoFile => Aligned(file)
          /\ deletes = 0 /\ inst # NoFile => Aligned(inst)
          /\ deletes = 0 => inst = installed[m] \/ Length(inst) >= Size
          /\ Progress(job'[j], file, deletes)
          /\ job'[j].pc \in Writing \/ crashed \/ Length(file) < Size
               \/ (job[j].pc \notin Writing /\ file = partial[m])
  BY <1>1 DEF FInv, Bounds, ChunksInPlace
<1>4. Owes(job'[j], installed', deletes, shared') /\ (job'[j].pc \in Fetching => job'[j].model = m)
  BY <1>1
<1>5. job[j].pc \in Writing => job[j].model = m
  BY DEF Has
<1>6. m \in Models => partial'[m] = file /\ installed'[m] = inst
  BY <1>2
<1>7. \A k \in Models : k # m => partial'[k] = partial[k] /\ installed'[k] = installed[k]
  BY <1>2
<1> HIDE DEF inst
<1>. QED
  BY <1>1, <1>3, <1>4, <1>5, <1>6, <1>7, JobIsSound

(* What a job owes does not grow by a step that keeps what it has in hand,  *)
(* nor when there is more that it shares.                                   *)
LEMMA StillOwes ==
    ASSUME NEW d, NEW e, NEW inst, NEW dels, NEW sh, NEW more, sh \subseteq more,
           Owes(d, inst, dels, sh), e.asked = d.asked, e.todo = d.todo,
           d.pc \notin {"idle", "failed"}, e.pc # "done", \A m : Has(d, m) => Has(e, m)
    PROVE  Owes(e, inst, dels, more)
BY DEF Owes

(* The rename, of a file that is complete unless something was deleted. *)
LEMMA RenamedIsSound ==
    ASSUME FInv, IInv', NEW j \in Jobs, Renamed(j), UNCHANGED <<deleting, shared, counters>>,
           job[j].pc \in Writing,
           deletes = 0 /\ job[j].model \notin shared => Length(partial[job[j].model]) = Size
    PROVE  FInv'
<1> DEFINE m == job[j].model
<1>0. /\ job[j] \in Download /\ UNCHANGED <<deletes, crashed>> /\ faults' \in 0..MaxFaults
      /\ m \in Models /\ Has(job[j], m)
      /\ Owes(job[j], installed, deletes, shared)
      /\ installed \in [Models -> Content] /\ partial \in [Models -> Content]
  BY DEF FInv, IInv, Typed, Verified, Fetched, Has, Fetching, Writing, Bounds, Progressing, counters
<1>1. CASE partial[m] = NoFile /\ job' = Fails(job, j) /\ UNCHANGED disk
  <2> DEFINE d == [Idle EXCEPT !.pc = "failed"]
  <2>1. job' = [job EXCEPT ![j] = d] /\ d.pc = "failed"
    BY <1>1, IdleType DEF Fails
  <2> HIDE DEF d, m
  <2>2. Progress(d, partial[m], deletes) /\ Owes(d, installed, deletes, shared')
        /\ d.pc \notin Fetching
    BY <2>1, IdleIsFine DEF Fetching
  <2>3. Length(partial[m]) < Size
    BY <1>1, KeptFacts, ModelFilesAssumption
  <2>4. job[j].pc \in Writing => job[j].model = m
    BY DEF m
  <2>. QED
    BY <1>0, <1>1, <2>1, <2>2, <2>3, <2>4, NoWrite
<1>2. CASE /\ partial[m] # NoFile
           /\ installed' = [installed EXCEPT ![m] = partial[m]]
           /\ partial' = [partial EXCEPT ![m] = NoFile]
           /\ job' = [i \in Jobs |->
                 IF i = j THEN Finishes(j, "next", "none")
                 ELSE IF job[i].model # m \/ job[i].at = "gone" THEN job[i]
                 ELSE [job[i] EXCEPT !.at = IF @ = "partial" THEN "installed" ELSE "gone"]]
  <2> DEFINE d == Finishes(j, "next", "none")
             file == NoFile
             inst == partial[m]
  <2>1. job'[j] = d /\ d.pc = "next" /\ d.asked = job[j].asked /\ d.todo = job[j].todo
    BY <1>0, <1>2, FinishesType DEF JobPc
  <2> HIDE DEF d
  <2>2. ASSUME NEW i \in Jobs, i # j
        PROVE  \/ job'[i] = job[i]
               \/ /\ Has(job[i], m) /\ m \in shared'
                  /\ job'[i].pc = job[i].pc /\ job'[i].model = job[i].model
                  /\ job'[i].asked = job[i].asked /\ job'[i].todo = job[i].todo
    <3>1. CASE job[i].model # m \/ job[i].at = "gone"
      BY <1>2, <2>2, <3>1
    <3>2. CASE ~(job[i].model # m \/ job[i].at = "gone")
      <4>1. job'[i] = [job[i] EXCEPT !.at = IF @ = "partial" THEN "installed" ELSE "gone"]
        BY <1>2, <2>2, <3>2
      <4>2. job[i] \in Download /\ Fetched(job[i], partial, installed, shared)
        BY DEF FInv, IInv, Typed, Verified
      <4>3. Has(job[i], m)
        BY <3>2, <4>2 DEF Fetched, Has, Fetching
      <4>4. m \in shared'
        BY <1>0, <2>2, <4>3 DEF FInv, IInv, Exclusive
      <4>. QED
        BY <4>1, <4>2, <4>3, <4>4 DEF Download
    <3>. QED
      BY <3>1, <3>2
  <2>3. /\ m \in Models => installed'[m] = inst /\ partial'[m] = file
        /\ \A k \in Models : k # m => partial'[k] = partial[k] /\ installed'[k] = installed[k]
    BY <1>0, <1>2
  <2>4. m \in Models \ shared' =>
            /\ Kept(file) /\ Kept(inst)
            /\ deletes = 0 /\ file # NoFile => Aligned(file)
            /\ deletes = 0 /\ inst # NoFile => Aligned(inst)
            /\ deletes = 0 => inst = installed[m] \/ Length(inst) >= Size
            /\ Length(file) < Size
    BY KeptFacts, ModelFilesAssumption DEF FInv, Bounds, ChunksInPlace
  <2>5. Progress(job'[j], file, deletes)
    BY <2>1 DEF Progress, Opening, Reading, Complete
  <2>6. Owes(job'[j], installed', deletes, shared')
    <3> SUFFICES ASSUME deletes = 0, NEW k \in job[j].asked \ shared
                 PROVE  k \in job[j].todo \/ Length(installed'[k]) >= Size
      BY <2>1 DEF Owes
    <3>1. k \in job[j].todo \/ Length(installed[k]) >= Size \/ k = m
      BY <1>0 DEF Owes, Has, Writing
    <3>2. k \in Models
      BY <1>0 DEF Download
    <3>3. k = m => Length(installed'[k]) = Size
      BY <1>0, <2>3
    <3>. QED
      BY <2>3, <3>1, <3>2, <3>3, ModelFilesAssumption
  <2>7. /\ job[j].pc \in Writing => job[j].model = m
        /\ job'[j].pc \in Fetching => job'[j].model = m
    BY <2>1 DEF Fetching
  <2> HIDE DEF m, file, inst
  <2>. QED
    BY <1>0, <2>2, <2>3, <2>4, <2>5, <2>6, <2>7, JobIsSound
<1>. QED
  BY <1>1, <1>2 DEF Renamed

(* What is known of a job before its step. *)
LEMMA JobFacts ==
    ASSUME FInv, NEW j \in Jobs
    PROVE  /\ job[j] \in Download /\ Fetched(job[j], partial, installed, shared)
           /\ Owes(job[j], installed, deletes, shared)
           /\ job[j].model \notin shared => Progress(job[j], partial[job[j].model], deletes)
           /\ job[j].pc \in Fetching => Has(job[j], job[j].model) /\ job[j].model \in Models
           /\ \A k \in Models \ shared :
                /\ Kept(partial[k])
                /\ Length(partial[k]) \in 0..Size
                /\ partial[k] # NoFile =>
                       partial[k] \in Seq(1..Bad) /\ Length(partial[k]) = Len(partial[k])
                /\ deletes = 0 /\ partial[k] # NoFile => Aligned(partial[k])
           /\ faults \in 0..MaxFaults /\ partial \in [Models -> Content]
<1>1. \A k \in Models \ shared : Kept(partial[k])
  BY DEF FInv, Bounds
<1>2. \A k \in Models \ shared :
          /\ Length(partial[k]) \in 0..Size
          /\ partial[k] # NoFile =>
                 partial[k] \in Seq(1..Bad) /\ Length(partial[k]) = Len(partial[k])
  BY <1>1, KeptFacts
<1>3. \A k \in Models \ shared : deletes = 0 /\ partial[k] # NoFile => Aligned(partial[k])
  BY DEF FInv, ChunksInPlace
<1>4. job[j] \in Download /\ Fetched(job[j], partial, installed, shared)
  BY DEF FInv, IInv, Typed, Verified
<1>5. job[j].pc \in Fetching => Has(job[j], job[j].model) /\ job[j].model \in Models
  BY <1>4 DEF Fetched, Has
<1>6. /\ Owes(job[j], installed, deletes, shared)
      /\ job[j].model \notin shared => Progress(job[j], partial[job[j].model], deletes)
  BY DEF FInv, Progressing
<1>7. faults \in 0..MaxFaults /\ partial \in [Models -> Content]
  BY DEF FInv, Bounds, IInv, Typed
<1>. QED
  BY <1>1, <1>2, <1>3, <1>4, <1>5, <1>6, <1>7

(* The job is asked, takes a file, or is refused by the server. *)
LEMMA OutsideIsSound ==
    ASSUME FInv, IInv', NEW j \in Jobs, Post(j) \/ NextFile(j) \/ OpenFails(j)
    PROVE  FInv'
<1>0. job[j] \in Download /\ Owes(job[j], installed, deletes, shared)
  BY JobFacts
<1>1. UNCHANGED <<disk, deleting, deletes, crashed>> /\ faults' \in 0..MaxFaults
  <2>1. UNCHANGED <<disk, deleting, deletes, crashed>>
    BY DEF Post, NextFile, OpenFails, Fault, counters
  <2>2. faults' = faults \/ (faults < MaxFaults /\ faults' = faults + 1)
    BY DEF Post, NextFile, OpenFails, Fault, counters
  <2>3. faults \in 0..MaxFaults
    BY JobFacts
  <2>. QED
    BY <2>1, <2>2, <2>3, ModelFilesAssumption
<1>a. ASSUME NEW d, job' = [job EXCEPT ![j] = d], shared' = shared, d.pc \notin Fetching,
             job[j].pc \notin Writing, Owes(d, installed, deletes, shared)
      PROVE  FInv'
  <2> DEFINE m == "none"
  <2>1. Progress(d, partial[m], deletes)
    BY <1>a DEF Progress, Opening, Reading, Complete, Fetching
  <2> HIDE DEF m
  <2>. QED
    BY <1>1, <1>a, <2>1, NoWrite
<1>2. CASE Post(j)
  <2> DEFINE missing == {m \in Models : ~Present(m)}
             d == [Idle EXCEPT !.pc = "next", !.asked = missing, !.todo = missing]
  <2>1. job' = [job EXCEPT ![j] = d] /\ job[j].pc \notin Writing /\ shared' = shared
    BY <1>2 DEF Post, Ended, Writing
  <2> HIDE DEF missing
  <2>2. d.pc = "next" /\ d.asked = d.todo
    BY DEF Idle
  <2> HIDE DEF d
  <2>3. Owes(d, installed, deletes, shared) /\ d.pc \notin Fetching
    BY <2>2 DEF Owes, Fetching
  <2>. QED
    BY <1>a, <2>1, <2>3
<1>3. CASE NextFile(j) /\ job[j].todo = {}
  <2> DEFINE d == [Idle EXCEPT !.pc = "done", !.asked = job[j].asked]
  <2>1. job' = [job EXCEPT ![j] = d] /\ job[j].pc = "next" /\ shared' = shared
    BY <1>3 DEF NextFile
  <2>2. d.pc = "done" /\ d.asked = job[j].asked /\ d.todo = {}
    BY DEF Idle
  <2> HIDE DEF d
  <2>3. Owes(d, installed, deletes, shared) /\ d.pc \notin Fetching /\ job[j].pc \notin Writing
    BY <1>0, <1>3, <2>1, <2>2 DEF Owes, Has, Fetching, Writing
  <2>. QED
    BY <1>a, <2>1, <2>3
<1>4. CASE NextFile(j) /\ job[j].todo # {}
  <2> DEFINE m == CHOOSE m \in job[j].todo : TRUE
             rivals == {i \in Jobs \ {j} : job[i].pc \in Fetching /\ job[i].model = m}
             d == [job[j] EXCEPT !.pc = "open", !.todo = @ \ {m}, !.model = m,
                                 !.have = Length(partial[m])]
  <2>1. m \in job[j].todo /\ m \in Models
    BY <1>0, <1>4 DEF Download
  <2>2. /\ job' = [job EXCEPT ![j] = d] /\ job[j].pc = "next"
        /\ shared' = IF rivals = {} THEN shared ELSE shared \cup {m}
    BY <1>4 DEF NextFile
  <2>3. /\ d.pc = "open" /\ d.model = m /\ d.have = Length(partial[m])
        /\ d.asked = job[j].asked /\ d.todo = job[j].todo \ {m}
    <3> HIDE DEF m
    <3>. QED
      BY <1>0 DEF Download
  <2> HIDE DEF m, d
  <2>4. shared \subseteq shared'
    BY <2>2
  <2>5. m \in Models \ shared' => Progress(d, partial[m], deletes)
    <3>1. m \in Models \ shared => Length(partial[m]) \in 0..Size
      BY JobFacts
    <3>. QED
      BY <2>3, <2>4, <3>1, ModelFilesAssumption DEF Progress, Opening, Reading, Complete
  <2>6. Owes(d, installed, deletes, shared')
    BY <1>0, <2>2, <2>3, <2>4 DEF Owes, Has, Fetching
  <2>7. job[j].pc \notin Writing /\ (d.pc \in Fetching => d.model = m)
    BY <2>2, <2>3 DEF Writing
  <2>. QED
    BY <1>1, <2>2, <2>4, <2>5, <2>6, <2>7, NoWrite
<1>5. CASE OpenFails(j)
  <2> DEFINE d == [Idle EXCEPT !.pc = "failed"]
  <2>1. job' = [job EXCEPT ![j] = d] /\ job[j].pc = "open" /\ shared' = shared /\ d.pc = "failed"
    BY <1>5, IdleType DEF OpenFails, Fails
  <2> HIDE DEF d
  <2>2. Owes(d, installed, deletes, shared) /\ d.pc \notin Fetching /\ job[j].pc \notin Writing
    BY <2>1 DEF Owes, Fetching, Writing
  <2>. QED
    BY <1>a, <2>1, <2>2
<1>. QED
  BY <1>2, <1>3, <1>4, <1>5

(* The file is opened, to be continued or begun. *)
LEMMA OpenedIsSound ==
    ASSUME FInv, IInv', NEW j \in Jobs, Resumes(j) \/ StartsOver(j)
    PROVE  FInv'
<1> DEFINE m == job[j].model
<1>0. /\ job[j] \in Download /\ UNCHANGED <<installed, deleting, shared, deletes, crashed>>
      /\ faults' \in 0..MaxFaults /\ job[j].pc = "open"
  BY JobFacts DEF Resumes, StartsOver, counters
<1>1. /\ m \in Models /\ Has(job[j], m) /\ Owes(job[j], installed, deletes, shared)
      /\ partial \in [Models -> Content]
      /\ m \notin shared =>
             /\ Kept(partial[m]) /\ Opening(job[j], partial[m], deletes)
             /\ deletes = 0 /\ partial[m] # NoFile => Aligned(partial[m])
  BY <1>0, JobFacts DEF Fetching, Progress
<1>2. <<>> # NoFile /\ Kept(<<>>) /\ Length(<<>>) = 0 /\ Len(<<>>) = 0 /\ Aligned(<<>>)
  <2>1. Aligned(<<>>)
    BY ModelFilesAssumption DEF Aligned
  <2>. QED
    BY <2>1, KeptFacts DEF NoFile
<1>a. ASSUME NEW d, d.pc = "read", d.model = m, d.asked = job[j].asked, d.todo = job[j].todo
      PROVE  Owes(d, installed, deletes, shared) /\ d.pc \in Writing
  BY <1>0, <1>1, <1>a DEF Owes, Has, Fetching, Writing
<1>3. CASE Resumes(j)
  <2> DEFINE file == IF partial[m] = NoFile THEN <<>> ELSE partial[m]
             from == job[j].have + 1
             d == [job[j] EXCEPT !.pc = "read", !.have = 0, !.next = from, !.done = from - 1,
                                 !.at = "partial", !.append = TRUE]
  <2>1. /\ partial' = [partial EXCEPT ![m] = file] /\ job' = [job EXCEPT ![j] = d]
        /\ job[j].have \in 1..Size - 1
    <3>1. /\ partial' = IF partial[m] = NoFile THEN [partial EXCEPT ![m] = <<>>] ELSE partial
          /\ Opened(j, from, TRUE) /\ job[j].have \in 1..Size - 1
      BY <1>3 DEF Resumes
    <3>2. job' = [job EXCEPT ![j] = d]
      <4> HIDE DEF from
      <4>. QED
        BY <3>1 DEF Opened
    <3>3. partial = [partial EXCEPT ![m] = partial[m]]
      BY <1>1
    <3>4. partial' = [partial EXCEPT ![m] = file]
      <4> HIDE DEF m, from
      <4>1. CASE partial[m] = NoFile
        BY <3>1, <4>1
      <4>2. CASE partial[m] # NoFile
        BY <3>1, <3>3, <4>2
      <4>. QED
        BY <4>1, <4>2
    <3>. QED
      BY <3>1, <3>2, <3>4
  <2>2. from - 1 = job[j].have /\ from = job[j].have + 1
    BY <2>1, ModelFilesAssumption
  <2> HIDE DEF from
  <2>3. /\ d.pc = "read" /\ d.model = m /\ d.at = "partial" /\ d.append = TRUE
        /\ d.next = job[j].have + 1 /\ d.done = job[j].have
        /\ d.asked = job[j].asked /\ d.todo = job[j].todo
    BY <1>0, <2>2 DEF Download
  <2> HIDE DEF d
  <2>4. m \notin shared =>
            /\ Kept(file)
            /\ deletes = 0 /\ file # NoFile => Aligned(file)
            /\ Progress(d, file, deletes)
    <3> SUFFICES ASSUME m \notin shared
                 PROVE  /\ Kept(file) /\ (deletes = 0 /\ file # NoFile => Aligned(file))
                        /\ Progress(d, file, deletes)
      OBVIOUS
    <3>1. Kept(file) /\ file # NoFile /\ Length(file) = Len(file) /\ Len(file) \in Nat
      <4>1. Kept(file) /\ file # NoFile
        BY <1>1, <1>2
      <4> HIDE DEF file
      <4>2. Length(file) \in 0..Size /\ Length(file) = Len(file)
        BY <4>1, KeptFacts
      <4>. QED
        BY <4>1, <4>2, ModelFilesAssumption
    <3>2. deletes = 0 => Aligned(file)
      BY <1>1, <1>2
    <3>3. Len(file) <= job[j].have /\ (deletes = 0 => Len(file) = job[j].have)
      <4>1. CASE partial[m] = NoFile
        <5>1. Length(partial[m]) = 0 /\ Len(file) = 0
          BY <1>2, <4>1, KeptFacts
        <5>2. deletes # 0
          BY <1>0, <1>1, <2>1, <5>1, ModelFilesAssumption DEF Opening
        <5>. QED
          BY <2>1, <5>1, <5>2, ModelFilesAssumption
      <4>2. CASE partial[m] # NoFile
        BY <1>0, <1>1, <3>1, <4>2 DEF Opening
      <4>. QED
        BY <4>1, <4>2
    <3> HIDE DEF file
    <3>4. Progress(d, file, deletes)
      BY <2>1, <2>3, <3>1, <3>3, ModelFilesAssumption DEF Progress, Opening, Reading, Complete
    <3>. QED
      BY <3>1, <3>2, <3>4
  <2>5. Owes(d, installed, deletes, shared) /\ d.pc \in Writing
    BY <1>a, <2>3
  <2> HIDE DEF file, m
  <2>. QED
    BY <1>0, <1>1, <2>1, <2>3, <2>4, <2>5, OneWrite
<1>4. CASE StartsOver(j)
  <2> DEFINE d == [job[j] EXCEPT !.pc = "read", !.have = 0, !.next = 1, !.done = 1 - 1,
                                 !.at = "partial", !.append = FALSE]
             file == <<>>
  <2>1. partial' = [partial EXCEPT ![m] = file] /\ job' = [job EXCEPT ![j] = d]
    BY <1>4 DEF StartsOver, Opened
  <2>2. /\ d.pc = "read" /\ d.model = m /\ d.at = "partial"
        /\ d.next = 1 /\ d.done = 0
        /\ d.asked = job[j].asked /\ d.todo = job[j].todo
    BY <1>0 DEF Download
  <2> HIDE DEF d
  <2>3. Progress(d, file, deletes) /\ Kept(file) /\ Aligned(file)
    BY <1>2, <2>2 DEF Progress, Opening, Reading, Complete
  <2>4. Owes(d, installed, deletes, shared) /\ d.pc \in Writing
    BY <1>a, <2>2
  <2> HIDE DEF file, m
  <2>. QED
    BY <1>0, <1>1, <2>1, <2>2, <2>3, <2>4, OneWrite
<1>. QED
  BY <1>3, <1>4

(* A chunk goes to the end of a partial file that nobody shares. *)
LEMMA ChunkIsSound ==
    ASSUME FInv, IInv', NEW j \in Jobs, ReadChunk(j)
    PROVE  FInv'
<1> DEFINE m == job[j].model
           d == [job[j] EXCEPT !.next = @ + 1, !.done = @ + 1]
<1>1. PICK chunk \in {job[j].next, Bad} :
          /\ job[j].pc = "read" /\ job[j].next <= Size
          /\ partial' = IF job[j].at = "partial"
                        THEN [partial EXCEPT ![m] = Written(@, j, chunk)] ELSE partial
          /\ installed' = IF job[j].at = "installed"
                          THEN [installed EXCEPT ![m] = Written(@, j, chunk)] ELSE installed
          /\ job' = [job EXCEPT ![j] = d]
          /\ UNCHANGED <<deleting, shared, deletes, crashed>>
          /\ faults' = faults \/ (faults < MaxFaults /\ faults' = faults + 1)
  BY DEF ReadChunk, Fault, counters
<1>2. /\ job[j] \in Download /\ m \in Models /\ Has(job[j], m) /\ partial \in [Models -> Content]
      /\ Fetched(job[j], partial, installed, shared) /\ Owes(job[j], installed, deletes, shared)
      /\ m \notin shared => Reading(job[j], partial[m], deletes)
      /\ installed \in [Models -> Content] /\ faults \in 0..MaxFaults
  <2>1. installed \in [Models -> Content] /\ job[j].pc \in Fetching
    BY <1>1 DEF FInv, IInv, Typed, Fetching
  <2>. QED
    BY <2>1, JobFacts DEF Progress
<1>3. /\ job[j].next \in 1..Size /\ chunk \in 1..Bad /\ faults' \in 0..MaxFaults
      /\ job[j].done \in Nat
  <2>1. job[j].next \in 1..Size + 1 /\ job[j].done \in Nat
    BY <1>2 DEF Download
  <2>. QED
    BY <1>1, <1>2, <2>1, ModelFilesAssumption DEF Bad
<1>4. /\ d.pc = "read" /\ d.model = m /\ d.at = job[j].at /\ d.append = job[j].append
      /\ d.next = job[j].next + 1 /\ d.done = job[j].done + 1
      /\ d.asked = job[j].asked /\ d.todo = job[j].todo
  BY <1>1, <1>2 DEF Download
<1> HIDE DEF d
<1>5. /\ Owes(d, installed, deletes, shared) /\ d.pc \in Writing
      /\ job[j].pc \in Writing => job[j].model = m
  BY <1>1, <1>2, <1>4 DEF Owes, Has, Fetching, Writing
<1>6. CASE job[j].at = "partial"
  <2> DEFINE file == Written(partial[m], j, chunk)
  <2>1. partial' = [partial EXCEPT ![m] = file] /\ installed' = installed
    BY <1>1, <1>6
  <2>2. m \notin shared =>
            /\ Kept(file)
            /\ deletes = 0 /\ file # NoFile => Aligned(file)
            /\ Progress(d, file, deletes)
    <3> SUFFICES ASSUME m \notin shared
                 PROVE  /\ Kept(file) /\ (deletes = 0 /\ file # NoFile => Aligned(file))
                        /\ Progress(d, file, deletes)
      OBVIOUS
    <3>1. /\ partial[m] # NoFile /\ partial[m] \in Seq(1..Bad)
          /\ Len(partial[m]) <= job[j].done /\ job[j].done = job[j].next - 1
          /\ deletes = 0 \/ ~job[j].append => Len(partial[m]) = job[j].done
          /\ deletes = 0 => Aligned(partial[m])
      <4>1. partial[m] # NoFile
        BY <1>2, <1>6 DEF Fetched
      <4>2. partial[m] \in Seq(1..Bad) /\ Length(partial[m]) = Len(partial[m])
            /\ (deletes = 0 => Aligned(partial[m]))
        BY <1>2, <4>1, JobFacts
      <4>. QED
        BY <1>1, <1>2, <1>6, <4>1, <4>2 DEF Reading
    <3> DEFINE long == Append(partial[m], chunk)
    <3>2. file = long
      BY <3>1 DEF Written
    <3>3. /\ long \in Seq(1..Bad) /\ Len(long) = Len(partial[m]) + 1 /\ Len(partial[m]) \in Nat
          /\ long[Len(partial[m]) + 1] = chunk
          /\ \A i \in 1..Len(partial[m]) : long[i] = partial[m][i]
      BY <1>3, <3>1
    <3>4. Len(long) <= job[j].done + 1 /\ Len(long) <= Size
      BY <1>3, <3>1, <3>3, ModelFilesAssumption
    <3>5. Kept(long) /\ long # NoFile /\ Length(long) = Len(long)
      <4>1. Kept(long)
        BY <3>3, <3>4 DEF Kept
      <4>2. long # NoFile
        BY <3>3, Files
      <4> HIDE DEF long
      <4>. QED
        BY <4>1, <4>2, KeptFacts
    <3>6. deletes = 0 => Aligned(long)
      <4> SUFFICES ASSUME deletes = 0, NEW i \in DOMAIN long PROVE long[i] \in {i, Bad}
        BY <3>4 DEF Aligned
      <4>1. i \in 1..Len(partial[m]) + 1 /\ Len(partial[m]) \in Nat
        BY <3>3
      <4>2. CASE i \in 1..Len(partial[m])
        <5>1. partial[m][i] \in {i, Bad} /\ long[i] = partial[m][i]
          BY <3>1, <3>3, <4>2 DEF Aligned
        <5>. QED
          BY <5>1
      <4>3. CASE i = Len(partial[m]) + 1
        BY <1>3, <3>1, <3>3, <4>3
      <4> HIDE DEF long, m
      <4>. QED
        BY <4>1, <4>2, <4>3
    <3> HIDE DEF long
    <3>7. Progress(d, long, deletes)
      <4>1. d.done = d.next - 1 /\ Length(long) <= d.done
        BY <1>3, <1>4, <3>1, <3>4, <3>5
      <4>2. deletes = 0 \/ ~d.append => Len(long) = d.done
        BY <1>4, <3>1, <3>3
      <4>. QED
        BY <1>4, <1>6, <4>1, <4>2 DEF Progress, Reading, Opening, Complete
    <3>. QED
      BY <3>2, <3>5, <3>6, <3>7
  <2> HIDE DEF file, m
  <2>. QED
    BY <1>1, <1>2, <1>3, <1>4, <1>5, <2>1, <2>2, OneWrite
<1>7. CASE job[j].at = "installed"
  <2> DEFINE file == partial[m]
             inst == Written(installed[m], j, chunk)
  <2>1. /\ partial' = partial /\ installed' = [installed EXCEPT ![m] = inst]
        /\ m \in shared
    BY <1>1, <1>2, <1>7 DEF Fetched
  <2> HIDE DEF inst
  <2>2. /\ m \in Models => partial'[m] = file /\ installed'[m] = inst
        /\ \A k \in Models : k # m => partial'[k] = partial[k] /\ installed'[k] = installed[k]
    BY <1>2, <2>1
  <2>3. job'[j] = d /\ \A i \in Jobs : i # j => job'[i] = job[i]
    BY <1>1 DEF FInv, IInv, Typed
  <2>4. Owes(job'[j], installed', deletes, shared')
    <3> SUFFICES ASSUME deletes = 0, NEW k \in d.asked \ shared
                 PROVE  k \in d.todo \/ Length(installed'[k]) >= Size \/ Has(d, k)
      BY <1>1, <1>4, <2>3 DEF Owes
    <3>1. k # m /\ k \in Models
      BY <1>2, <1>4, <2>1 DEF Download
    <3>. QED
      BY <1>4, <1>5, <2>2, <3>1 DEF Owes
  <2>5. /\ ~(m \in Models \ shared') /\ shared \subseteq shared'
        /\ UNCHANGED <<deleting, deletes, crashed>>
        /\ job'[j].pc \in Fetching => job'[j].model = m
    BY <1>1, <1>4, <2>1, <2>3
  <2> HIDE DEF file, m
  <2>. QED
    BY <1>2, <1>3, <1>5, <2>2, <2>3, <2>4, <2>5, JobIsSound
<1>8. CASE job[j].at = "gone"
  <2>1. UNCHANGED disk
    BY <1>1, <1>8 DEF disk
  <2>2. m \notin shared => Progress(d, partial[m], deletes)
    <3> SUFFICES ASSUME m \notin shared PROVE Progress(d, partial[m], deletes)
      OBVIOUS
    <3>1. partial[m] = NoFile /\ deletes # 0 /\ job[j].done = job[j].next - 1
      BY <1>1, <1>2, <1>8 DEF Reading
    <3>. QED
      BY <1>3, <1>4, <1>8, <3>1, KeptFacts DEF Progress, Opening, Reading, Complete
  <2> HIDE DEF m
  <2>. QED
    BY <1>1, <1>3, <1>4, <1>5, <2>1, <2>2, NoWrite
<1>. QED
  BY <1>2, <1>6, <1>7, <1>8 DEF Download

(* The connection breaks before the file is complete. *)
LEMMA BreakIsSound ==
    ASSUME FInv, IInv', NEW j \in Jobs, ReadBreaks(j)
    PROVE  FInv'
<1> DEFINE m == job[j].model
           d == [Idle EXCEPT !.pc = "failed"]
<1>1. /\ job[j].pc = "read" /\ job[j].next <= Size /\ job' = [job EXCEPT ![j] = d]
      /\ UNCHANGED <<disk, deleting, shared, deletes, crashed>>
      /\ faults < MaxFaults /\ faults' = faults + 1
  BY DEF ReadBreaks, Fault, Fails
<1>2. /\ m \in Models /\ job[j] \in Download /\ faults \in 0..MaxFaults
      /\ m \notin shared => /\ Reading(job[j], partial[m], deletes)
                            /\ Length(partial[m]) \in 0..Size
  BY <1>1, JobFacts DEF Fetching, Progress
<1>3. m \notin shared => Length(partial[m]) < Size
  <2>1. job[j].next \in 1..Size + 1
    BY <1>2 DEF Download
  <2>. QED
    BY <1>1, <1>2, <2>1, ModelFilesAssumption DEF Reading
<1>4. d.pc = "failed"
  BY IdleType
<1> HIDE DEF d
<1>5. /\ Progress(d, partial[m], deletes) /\ Owes(d, installed, deletes, shared)
      /\ d.pc \notin Fetching
  BY <1>4 DEF Progress, Opening, Reading, Complete, Owes, Fetching
<1>6. faults' \in 0..MaxFaults
  BY <1>1, <1>2, ModelFilesAssumption
<1>7. job[j].pc \in Writing => job[j].model = m
  OBVIOUS
<1> HIDE DEF m
<1>. QED
  BY <1>1, <1>2, <1>3, <1>5, <1>6, <1>7, NoWrite

(* From the last chunk to the rename the file stays complete. *)
LEMMA WaitIsSound ==
    ASSUME FInv, IInv', NEW j \in Jobs, NEW d, NEW m \in Models, Has(job[j], m),
           d.pc = "hash" \/ d.pc = "rename", d.model = m,
           d.asked = job[j].asked, d.todo = job[j].todo,
           job' = [job EXCEPT ![j] = d], UNCHANGED <<disk, deleting, shared, counters>>,
           deletes = 0 /\ m \notin shared => partial[m] # NoFile /\ Len(partial[m]) = Size
    PROVE  FInv'
<1>1. m \notin shared => Progress(d, partial[m], deletes)
  BY DEF Progress, Opening, Reading, Complete
<1>2. Owes(d, installed, deletes, shared) /\ d.pc \in Writing
  <2>1. Owes(job[j], installed, deletes, shared)
    BY JobFacts
  <2>. QED
    BY <2>1 DEF Owes, Has, Fetching, Writing
<1>3. job[j].pc \in Writing => job[j].model = m
  BY DEF Has
<1>4. faults' \in 0..MaxFaults /\ UNCHANGED <<deletes, crashed>>
  BY JobFacts DEF counters
<1>. QED
  BY <1>1, <1>2, <1>3, <1>4, NoWrite

(* The answer has ended; what is hashed is complete, deleted or shared. *)
LEMMA EndIsSound ==
    ASSUME FInv, IInv', NEW j \in Jobs, ReadEnds(j) \/ HashTaken(j) \/ Rename(j)
    PROVE  FInv'
<1> DEFINE m == job[j].model
<1>0. /\ UNCHANGED <<deleting, shared, counters>> /\ UNCHANGED <<deletes, crashed>>
      /\ faults' \in 0..MaxFaults /\ job[j].pc \in Writing
  <2>1. job[j].pc \in {"read", "hash", "rename"} /\ UNCHANGED <<deleting, shared, counters>>
    BY DEF ReadEnds, HashTaken, Rename
  <2>. QED
    BY <2>1, JobFacts DEF Writing, counters
<1>1. /\ job[j] \in Download /\ m \in Models /\ Has(job[j], m) /\ partial \in [Models -> Content]
      /\ Owes(job[j], installed, deletes, shared)
      /\ m \notin shared =>
             /\ Progress(job[j], partial[m], deletes)
             /\ partial[m] # NoFile => Length(partial[m]) = Len(partial[m])
             /\ Length(partial[m]) \in 0..Size
  BY <1>0, JobFacts DEF Fetching, Writing
<1>2. job[j].pc = "read" /\ job[j].next > Size /\ deletes = 0 /\ m \notin shared =>
          partial[m] # NoFile /\ Len(partial[m]) = Size
  <2> SUFFICES ASSUME job[j].pc = "read", job[j].next > Size, deletes = 0, m \notin shared
               PROVE  partial[m] # NoFile /\ Len(partial[m]) = Size
    OBVIOUS
  <2>1. job[j].next \in 1..Size + 1
    BY <1>1 DEF Download
  <2>2. job[j].at = "partial" /\ job[j].done = job[j].next - 1 /\ Len(partial[m]) = job[j].done
    BY <1>1 DEF Progress, Reading
  <2>3. partial[m] # NoFile
    BY <2>2, JobFacts DEF Fetched
  <2>. QED
    BY <2>1, <2>2, <2>3, ModelFilesAssumption
<1>3. CASE job[j].pc = "read" /\ job[j].next > Size /\ m \in Hashed /\ UNCHANGED disk
           /\ job' = [job EXCEPT ![j] = Finishes(j, "hash", job[j].model)]
  <2> DEFINE d == Finishes(j, "hash", job[j].model)
  <2>1. d.pc = "hash" /\ d.model = m /\ d.asked = job[j].asked /\ d.todo = job[j].todo
    BY <1>1, FinishesType DEF JobPc
  <2>2. job' = [job EXCEPT ![j] = d]
    BY <1>3
  <2>3. /\ UNCHANGED disk
        /\ deletes = 0 /\ m \notin shared => partial[m] # NoFile /\ Len(partial[m]) = Size
    BY <1>2, <1>3, <2>1
  <2> HIDE DEF d, m
  <2>. QED
    BY <1>0, <1>1, <2>1, <2>2, <2>3, WaitIsSound
<1>4. CASE job[j].pc = "hash" /\ UNCHANGED disk /\ job' = [job EXCEPT ![j].pc = "rename"]
  <2> DEFINE d == [job[j] EXCEPT !.pc = "rename"]
  <2>1. d.pc = "rename" /\ d.model = m /\ d.asked = job[j].asked /\ d.todo = job[j].todo
    BY <1>1 DEF Download
  <2>2. job' = [job EXCEPT ![j] = d]
    BY <1>4
  <2>3. /\ UNCHANGED disk
        /\ deletes = 0 /\ m \notin shared => partial[m] # NoFile /\ Len(partial[m]) = Size
    BY <1>1, <1>4, <2>1 DEF Progress, Complete
  <2> HIDE DEF d, m
  <2>. QED
    BY <1>0, <1>1, <2>1, <2>2, <2>3, WaitIsSound
<1>5. CASE job[j].pc = "hash" /\ partial' = [partial EXCEPT ![m] = NoFile]
           /\ job' = Fails(Moved(m, "partial", "gone"), j) /\ UNCHANGED installed
  <2> DEFINE d == [Idle EXCEPT !.pc = "failed"]
             moved == Moved(m, "partial", "gone")
             file == NoFile
             inst == installed[m]
  <2>1. moved \in [Jobs -> Download]
        /\ \A i \in Jobs : /\ moved[i].pc = job[i].pc /\ moved[i].model = job[i].model
                           /\ moved[i].asked = job[i].asked /\ moved[i].todo = job[i].todo
                           /\ job[i].model # m \/ job[i].at # "partial" => moved[i] = job[i]
    <3>1. Typed /\ "gone" \in {"partial", "installed", "gone"}
      BY DEF FInv, IInv
    <3> HIDE DEF m
    <3>. QED
      BY <3>1, MovedType
  <2>2. job' = [moved EXCEPT ![j] = d] /\ d.pc = "failed"
    BY <1>5, IdleType DEF Fails
  <2> HIDE DEF moved, d
  <2>3. job'[j] = d /\ \A i \in Jobs : i # j => job'[i] = moved[i]
    BY <2>1, <2>2
  <2>4. ASSUME NEW i \in Jobs, i # j
        PROVE  \/ job'[i] = job[i]
               \/ /\ Has(job[i], m) /\ m \in shared'
                  /\ job'[i].pc = job[i].pc /\ job'[i].model = job[i].model
                  /\ job'[i].asked = job[i].asked /\ job'[i].todo = job[i].todo
    <3>1. CASE job[i].model # m \/ job[i].at # "partial"
      BY <2>1, <2>3, <2>4, <3>1
    <3>2. CASE job[i].model = m /\ job[i].at = "partial"
      <4>1. Has(job[i], m)
        BY <3>2 DEF FInv, IInv, Verified, Fetched, Has, Fetching
      <4>2. m \in shared'
        BY <1>0, <1>1, <2>4, <4>1 DEF FInv, IInv, Exclusive
      <4>. QED
        BY <2>1, <2>3, <2>4, <4>1, <4>2
    <3>. QED
      BY <3>1, <3>2
  <2>5. /\ m \in Models => partial'[m] = file /\ installed'[m] = inst
        /\ \A k \in Models : k # m => partial'[k] = partial[k] /\ installed'[k] = installed[k]
    BY <1>1, <1>5
  <2>6. m \in Models \ shared' =>
            /\ Kept(file) /\ Kept(inst)
            /\ deletes = 0 /\ inst # NoFile => Aligned(inst)
            /\ Length(file) < Size
    BY <1>0, KeptFacts, ModelFilesAssumption DEF FInv, Bounds, ChunksInPlace
  <2>7. /\ Progress(job'[j], file, deletes) /\ Owes(job'[j], installed', deletes, shared')
        /\ job'[j].pc \notin Fetching
    BY <2>2, <2>3 DEF Progress, Opening, Reading, Complete, Owes, Fetching
  <2>8. file = NoFile /\ inst = installed[m] /\ job[j].model = m
    OBVIOUS
  <2> HIDE DEF m, file, inst
  <2>. QED
    BY <1>0, <1>1, <2>4, <2>5, <2>6, <2>7, <2>8, JobIsSound
<1>6. CASE Renamed(j) /\ (job[j].pc = "rename" \/ (job[j].pc = "read" /\ job[j].next > Size))
  <2>1. deletes = 0 /\ m \notin shared => Length(partial[m]) = Size
    BY <1>1, <1>2, <1>6 DEF Progress, Complete
  <2>. QED
    BY <1>0, <1>6, <2>1, RenamedIsSound
<1>. QED
  BY <1>3, <1>4, <1>5, <1>6 DEF ReadEnds, HashTaken, Rename, disk

(* A deletion, in its two steps, and a crash. *)
LEMMA OthersAreSound ==
    ASSUME FInv, IInv', (\E m \in Models : Delete(m)) \/ DeletePartial \/ Crash
    PROVE  FInv'
<1>0. /\ faults \in 0..MaxFaults /\ deletes \in 0..MaxDeletes /\ deletes \in Nat
      /\ installed \in [Models -> Content] /\ partial \in [Models -> Content]
      /\ Typed /\ \A j \in Jobs : job[j] \in Download
      /\ Bounds /\ ChunksInPlace /\ Progressing /\ Short
  BY ModelFilesAssumption DEF FInv, Bounds, IInv, Typed
<1>1. CASE \E m \in Models : Delete(m)
  <2>1. PICK m \in Models : Delete(m)
    BY <1>1
  <2>2. /\ deletes' = deletes + 1 /\ deletes < MaxDeletes /\ deletes' # 0
        /\ deletes' \in 0..MaxDeletes /\ UNCHANGED <<partial, shared, faults, crashed>>
        /\ installed' = [installed EXCEPT ![m] = NoFile]
        /\ job' = Moved(m, "installed", "gone")
    BY <1>0, <2>1, ModelFilesAssumption DEF Delete
  <2>3. \A j \in Jobs :
            /\ job'[j].pc = job[j].pc /\ job'[j].model = job[j].model
            /\ job'[j].todo = job[j].todo
            /\ job[j].model = m /\ job[j].at = "installed" => job'[j].at = "gone"
            /\ job[j].model # m \/ job[j].at # "installed" => job'[j] = job[j]
    BY <1>0, <2>2, MovedType
  <2>4. Bounds'
    <3>1. \A k \in Models \ shared : Kept(partial[k]) /\ Kept(installed'[k])
      BY <1>0, <2>2, KeptFacts DEF Bounds
    <3>. QED
      BY <1>0, <2>2, <3>1 DEF Bounds
  <2>5. ChunksInPlace'
    BY <2>2 DEF ChunksInPlace
  <2>6. Progressing'
    <3> SUFFICES ASSUME NEW j \in Jobs
                 PROVE  /\ job'[j].model \notin shared =>
                               Progress(job'[j], partial[job'[j].model], deletes')
                        /\ Owes(job'[j], installed', deletes', shared)
      BY <2>2 DEF Progressing
    <3>1. /\ job[j].model \notin shared => Progress(job[j], partial[job[j].model], deletes)
          /\ Owes(job[j], installed, deletes, shared)
      BY <1>0 DEF Progressing
    <3>2. Owes(job'[j], installed', deletes', shared)
      BY <2>2, <2>3, <3>1 DEF Owes
    <3>3. job'[j].model \notin shared => Progress(job'[j], partial[job'[j].model], deletes')
      <4> SUFFICES ASSUME job'[j].model \notin shared
                   PROVE  Progress(job'[j], partial[job'[j].model], deletes')
        OBVIOUS
      <4>1. job[j].at # "installed" /\ job'[j] = job[j]
        BY <2>3 DEF FInv, IInv, Verified, Fetched
      <4>. QED
        BY <2>2, <3>1, <4>1 DEF Progress, Opening, Reading, Complete
    <3>. QED
      BY <3>2, <3>3
  <2>7. Short'
    BY <1>0, <2>2, <2>3 DEF Short, Busy
  <2>. QED
    BY <2>4, <2>5, <2>6, <2>7 DEF FInv
<1>2. CASE DeletePartial
  <2>1. /\ deleting \in Models /\ deleting' = "none" /\ UNCHANGED <<installed, shared, counters>>
        /\ UNCHANGED <<faults, deletes, crashed>> /\ deletes # 0
        /\ partial' = [partial EXCEPT ![deleting] = NoFile]
        /\ job' = Moved(deleting, "partial", "gone")
    BY <1>0, <1>2 DEF DeletePartial, Typed, Bounds, counters
  <2>2. \A j \in Jobs :
            /\ job'[j].pc = job[j].pc /\ job'[j].model = job[j].model
            /\ job'[j].asked = job[j].asked /\ job'[j].todo = job[j].todo
            /\ job[j].model = deleting /\ job[j].at = "partial" => job'[j].at = "gone"
            /\ job[j].model # deleting \/ job[j].at # "partial" => job'[j] = job[j]
    BY <1>0, <2>1, MovedType
  <2>3. partial'[deleting] = NoFile /\ \A k \in Models : k # deleting => partial'[k] = partial[k]
    BY <1>0, <2>1
  <2>4. Bounds'
    <3>1. \A k \in Models \ shared : Kept(partial'[k])
      BY <1>0, <2>3, KeptFacts DEF Bounds
    <3>. QED
      BY <1>0, <2>1, <3>1 DEF Bounds
  <2>5. ChunksInPlace'
    BY <2>1 DEF ChunksInPlace
  <2>6. Progressing'
    <3> SUFFICES ASSUME NEW j \in Jobs
                 PROVE  /\ job'[j].model \notin shared =>
                               Progress(job'[j], partial'[job'[j].model], deletes)
                        /\ Owes(job'[j], installed, deletes, shared)
      BY <2>1 DEF Progressing
    <3>1. /\ job[j].model \notin shared => Progress(job[j], partial[job[j].model], deletes)
          /\ Owes(job[j], installed, deletes, shared)
      BY <1>0 DEF Progressing
    <3>2. Owes(job'[j], installed, deletes, shared)
      BY <2>1, <2>2, <3>1 DEF Owes
    <3>3. job'[j].model \notin shared => Progress(job'[j], partial'[job'[j].model], deletes)
      <4> SUFFICES ASSUME job[j].model \notin shared
                   PROVE  Progress(job'[j], partial'[job[j].model], deletes)
        BY <2>2
      <4>0. Complete(job'[j], partial'[job[j].model], deletes)
        BY <2>1 DEF Complete
      <4>1. job[j] \in Download /\ Fetched(job[j], partial, installed, shared)
        BY <1>0 DEF FInv, IInv, Verified
      <4>2. CASE job[j].model = deleting
        <5>1. Opening(job'[j], NoFile, deletes)
          <6>1. job[j].pc = "open" => job'[j] = job[j]
            BY <2>2, <4>1 DEF Fetched
          <6>2. job[j].have \in Nat
            BY <4>1 DEF Download
          <6>. QED
            BY <2>1, <2>2, <3>1, <6>1, <6>2, KeptFacts DEF Progress, Opening
        <5>2. Reading(job'[j], NoFile, deletes)
          <6>0. job'[j].done = job[j].done /\ job'[j].next = job[j].next
            BY <2>1 DEF Moved, FInv, IInv, Typed, Download
          <6>1. job[j].done \in Nat /\ job[j].at # "installed"
            BY <4>1 DEF Download, Fetched
          <6>2. job'[j].at # "partial"
            BY <2>2, <4>2
          <6>. QED
            BY <2>1, <2>2, <3>1, <6>0, <6>1, <6>2, KeptFacts DEF Progress, Reading
        <5>. QED
          BY <2>3, <4>0, <4>2, <5>1, <5>2 DEF Progress
      <4>3. CASE job[j].model # deleting
        <5>1. job'[j] = job[j]
          BY <2>2, <4>3
        <5>2. CASE job[j].pc \in Fetching
          <6>1. partial'[job[j].model] = partial[job[j].model]
            BY <2>3, <4>1, <4>3, <5>2 DEF Fetched
          <6>. QED
            BY <3>1, <5>1, <6>1
        <5>3. CASE job[j].pc \notin Fetching
          BY <5>1, <5>3 DEF Progress, Opening, Reading, Complete, Fetching
        <5>. QED
          BY <5>2, <5>3
      <4>. QED
        BY <4>2, <4>3
    <3>. QED
      BY <3>2, <3>3
  <2>7. Short'
    <3> SUFFICES ASSUME NEW k \in Models \ shared, ~crashed, \A j \in Jobs : ~Busy(job'[j], k)
                 PROVE  Length(partial'[k]) < Size
      BY <2>1 DEF Short
    <3>1. \A j \in Jobs : ~Busy(job[j], k)
      BY <2>2 DEF Busy
    <3>. QED
      BY <1>0, <2>3, <3>1, KeptFacts, ModelFilesAssumption DEF Short
  <2>. QED
    BY <2>4, <2>5, <2>6, <2>7 DEF FInv
<1>3. CASE Crash
  <2>1. /\ job' = [j \in Jobs |-> Idle] /\ deleting' = "none" /\ crashed' = TRUE
        /\ UNCHANGED <<installed, partial, shared, deletes>> /\ faults' \in 0..MaxFaults
    BY <1>0, <1>3, ModelFilesAssumption DEF Crash, disk
  <2>2. Bounds' /\ ChunksInPlace'
    BY <1>0, <2>1 DEF Bounds, ChunksInPlace, Aligned
  <2>3. Progressing'
    BY <2>1, IdleType DEF Progressing, Progress, Opening, Reading, Complete, Owes
  <2>4. Short'
    BY <2>1 DEF Short
  <2>. QED
    BY <2>2, <2>3, <2>4 DEF FInv
<1>. QED
  BY <1>1, <1>2, <1>3

LEMMA StrongStep ==
    ASSUME FInv, [Next]_vars
    PROVE  FInv'
<1>1. IInv'
  BY InvStep DEF FInv
<1>2. CASE UNCHANGED vars
  <2>1. UNCHANGED <<installed, partial, job, deleting, shared, faults, deletes, crashed>>
    BY <1>2 DEF vars, disk, counters
  <2>2. Bounds' /\ ChunksInPlace' /\ Progressing' /\ Short'
    BY <2>1 DEF FInv, Bounds, ChunksInPlace, Aligned, Progressing, Short
  <2>. QED
    BY <1>1, <2>2 DEF FInv
<1>3. ASSUME NEW j \in Jobs, Post(j) \/ JobStep(j) PROVE FInv'
  BY <1>1, <1>3, OutsideIsSound, OpenedIsSound, ChunkIsSound, BreakIsSound, EndIsSound DEF JobStep
<1>. QED
  BY <1>1, <1>2, <1>3, OthersAreSound DEF Next

(* The invariant says what the run checks. *)
LEMMA StrongIsSound == FInv => DownloadsAreSound
<1> SUFFICES ASSUME FInv PROVE DownloadsAreSound
  OBVIOUS
<1>1. TypeOK
  BY DEF FInv, Bounds, IInv, Typed, Download, TypeOK
<1>2. DoneIsInstalled
  <2> SUFFICES ASSUME NEW j \in Jobs, job[j].pc = "done", deletes = 0,
                      NEW m \in job[j].asked \ shared
               PROVE  Present(m)
    BY DEF DoneIsInstalled
  <2>1. Owes(job[j], installed, deletes, shared)
    BY DEF FInv, Progressing
  <2>. QED
    BY <2>1 DEF Owes, Has, Fetching, Present
<1>3. NextCanResume
  BY DEF FInv, Short, NextCanResume, Busy, Ended, Writing
<1>. QED
  BY <1>1, <1>2, <1>3 DEF DownloadsAreSound, FInv

(* However many download jobs run, and whatever is damaged, broken off,     *)
(* answered in full or killed: the bytes of every file are in their place,  *)
(* a job that reports success has installed what it was asked for, and a    *)
(* failed one leaves no file that the server would refuse to continue       *)
(* (core/models.py:128, api/models.py:451); of a file that two jobs had in  *)
(* hand at once nothing but its type is said.                               *)
THEOREM DownloadsStaySound == Spec => []DownloadsAreSound
<1>1. FInv /\ [Next]_vars => FInv'
  BY StrongStep
<1>. QED
  BY <1>1, StrongInit, StrongIsSound, PTL DEF Spec
=============================================================================
