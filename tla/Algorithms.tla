----------------------------- MODULE Algorithms -----------------------------
(***************************************************************************)
(* The pure functions of Sentences, Timeline, Choices and Migrations, asked   *)
(* one question each: what they answer is held against what the answer must be, stated    *)
(* without the loops that compute it.                                        *)
(***************************************************************************)
EXTENDS Sentences, Timeline, Choices, Migrations, Settings

CONSTANTS Audio, Segments, Texts, Lines, Replies, Interval, Catalogues, Machines,
          Sections, Runtimes, Sizes, Scores, Versions, Labellings, Files, MaxStatements,
          Meetings, Bundled, UserFiles, Updates, Envs, Keys, CheckCalls

VARIABLES question, answer
vars == <<question, answer>>

Ask(kind, input) == question = [kind |-> kind, input |-> input]
Init ==
    /\ answer = None
    /\ \/ \E loud \in Audio, rest \in 0..1 : Ask("cut", <<loud, rest>>)
       \/ \E s \in Segments : Ask("rows", s)
       \/ \E texts \in Texts : \E idx \in DOMAIN texts, n \in 1..2 :
             Ask("context", <<texts, idx, n>>)
       \/ \E lines \in Lines : Ask("snapshot", lines)
       \/ \E lines \in Lines : Ask("chunks", lines)
       \/ \E replies \in Replies : \E merge \in Range(replies) :
             Ask("minutes", <<replies, merge>>)
       \/ \E windows \in Interval.windows, chars \in Interval.chars, t1 \in Interval.ends :
             Ask("turns", <<windows, chars, t1>>)
       \/ \E labels \in Labellings : Ask("labels", labels)
       \/ \E specs \in Catalogues, hw \in Machines, pick \in {None, 1} :
             Ask("model", <<specs, hw, pick>>)
       \/ \E section \in Sections, specs \in Catalogues, default \in {None, 1} :
             Ask("slot", <<section, specs, default>>)
       \/ \E hw \in Machines, rt \in Runtimes : Ask("runtime", <<hw, rt>>)
       \/ \E size, used \in Sizes, active \in {"cpu", "cuda"}, hw \in Machines :
             Ask("gpu", <<size, used, active, hw>>)
       \/ \E scores \in Scores, main \in {"zh", None},
             secondary \in {<<>>, <<"en">>, <<"zh", "en">>} :
             Ask("language", <<scores, main, secondary>>)
       \/ \E v, w \in Versions : Ask("newer", <<v, w>>)
       \/ \E segments \in Meetings : Ask("voices", segments)
       \/ \E file \in UserFiles, updates \in Updates, env \in Envs :
             Ask("settings", <<file, updates, env>>)
       \/ \E calls \in CheckCalls : Ask("update", calls)
       \/ \E f \in Files, n \in 0..MaxStatements : Ask("upgrade", <<f, n>>)

Answered(kind) == answer # None /\ question.kind = kind
In == question.input

Answer ==
    /\ answer = None
    /\ answer' = CASE question.kind = "cut" -> CutPoint(In[1], In[2])
                   [] question.kind = "rows" -> Heard(In)
                   [] question.kind = "context" -> ContextBefore(In[1], In[2], In[3])
                   [] question.kind = "snapshot" -> Snapshot(In)
                   [] question.kind = "chunks" -> Chunks(In)
                   [] question.kind = "minutes" -> Minutes(In[1], In[2])
                   [] question.kind = "turns" ->
                          TurnRows(In[1], Interval.t0, In[3], In[2])
                   [] question.kind = "labels" -> Renumber(In)
                   [] question.kind = "model" -> <<Recommended(In[1], In[2], In[3])>>
                   [] question.kind = "slot" -> Resolved(In[1], In[2], In[3])
                   [] question.kind = "runtime" -> RuntimeRows(In[1], In[2])
                   [] question.kind = "gpu" -> OnGpu(In[1], In[2], In[3], In[4])
                   [] question.kind = "language" -> Language(In[1], In[2], In[3])
                   [] question.kind = "newer" -> IsNewer(In[1], In[2])
                   [] question.kind = "voices" -> Identified(In)
                   [] question.kind = "settings" ->
                          LET file == Written(In[1], In[2])
                          IN <<file, Loaded(Bundled, file, In[3])>>
                   [] question.kind = "update" -> Calls(In)
                   [] question.kind = "upgrade" -> Reopened(In[2], In[1])
    /\ UNCHANGED question

Spec == Init /\ [][Answer]_vars

-----------------------------------------------------------------------------
(* Live audio of two frames or more is cut between samples, inside a frame    *)
(* of the tail that is not the first of all, as quiet as any there and        *)
(* louder ones only before it (core/segmentation.py:42).                      *)
CutIsInTheGap ==
    Answered("cut") /\ Len(In[1]) >= 2 =>
        LET frame == answer \div FrameBytes
            tail == {q \in 1..Len(In[1]) - 1 : q >= Len(In[1]) - TailFrames}
        IN /\ answer % 2 = 0 /\ frame \in tail
           /\ \A q \in tail : In[1][frame + 1] <= In[1][q + 1]
           /\ \A q \in tail : q < frame => In[1][q + 1] > In[1][frame + 1]

(* Rows are what was heard, in order of time: each turn of a segment that     *)
(* takes time is in them once, and of one that takes none the first, the      *)
(* others being lost (core/batch.py:155); no row holds two turns or, of       *)
(* several parts, more than the caps, a row that went on had no end yet, and  *)
(* a short one ended only for a reason (core/batch.py:177).                   *)
RowsReadAsSentences ==
    Answered("rows") =>
        LET kept(s) == IF s.t0 < s.t1 THEN s.turns ELSE <<Head(s.turns)>>
            spoken == FlattenSeq([i \in DOMAIN In |->
                          [k \in DOMAIN kept(In[i]) |-> <<kept(In[i])[k], k > 1>>]])
            written == FlattenSeq(answer)
        IN
        /\ spoken = [i \in DOMAIN written |->
                         <<[chars |-> written[i].chars, ends |-> written[i].ends], written[i].turn>>]
        /\ \A i \in DOMAIN written : written[i].t0 <= written[i].t1
        /\ \A i \in 2..Len(written) : written[i - 1].t1 <= written[i].t0
        /\ \A i \in DOMAIN answer : LET row == answer[i] IN
            /\ \A k \in 2..Len(row) :
                  /\ ~row[k].turn
                  /\ row[k - 1].ends => Chars(SubSeq(row, 1, k - 1)) < MinRowChars
            /\ Len(row) > 1 => /\ Chars(row) <= MaxRowChars
                               /\ Last(row).t1 - row[1].t0 <= MaxRowS
            /\ i < Len(answer) /\ Chars(row) < MinRowChars =>
                  LET next == answer[i + 1][1] IN
                  \/ next.turn
                  \/ next.t1 - row[1].t0 > MaxRowS
                  \/ Chars(row) + 1 + next.chars > MaxRowChars

(* The context of a text is the nearest texts before it that say anything,    *)
(* as many as asked for if there are (core/translation.py:27).                *)
ContextIsNearest ==
    Answered("context") =>
        LET said == SelectSeq(SubSeq(In[1], 1, In[2] - 1), LAMBDA t : t # 0)
        IN /\ Len(answer) = IF Len(said) < In[3] THEN Len(said) ELSE In[3]
           /\ IsSuffix(answer, said)

(* A prompt never outgrows its room and keeps the newest lines without a gap, *)
(* and no line more is left out than one that would have filled the room to   *)
(* its last character: the newline counted for the last line has no use       *)
(* (core/transcript.py:56).                                                   *)
SnapshotIsLongestTail ==
    Answered("snapshot") =>
        /\ IsSuffix(answer, In) /\ Fits(answer)
        /\ Len(answer) < Len(In) =>
              Size(SubSeq(In, Len(In) - Len(answer), Len(In))) - 1 >= Budget

(* The pieces the minutes are written from are the transcript, and each is    *)
(* within the budget unless it is one line (core/minutes.py:124).             *)
ChunksAreTheTranscript ==
    Answered("chunks") =>
        /\ FlattenSeq(answer) = In
        /\ \A i \in DOMAIN answer : answer[i] # <<>> /\ (Len(answer[i]) > 1 => Fits(answer[i]))

(* A merge whose reply says nothing loses nothing of any part: each summary   *)
(* and each item is in the minutes.  A reply of mere words does say something, *)
(* and so does a document that leaves an item out: what it says is then all    *)
(* there is (core/minutes.py:331 speaks of any merge that failed to parse).    *)
MergeKeepsItems ==
    Answered("minutes") /\ Len(In[1]) > 1 =>
        LET said == \/ In[2].kind = "words"
                    \/ In[2].kind = "document" /\ (In[2].summary # <<>> \/ In[2].items # {})
            of(i) == Parsed(In[1][i])
        IN ~said => /\ answer.items = UNION {of(i).items : i \in DOMAIN In[1]}
                    /\ answer.summary = FlattenSeq([i \in DOMAIN In[1] |-> of(i).summary])

(* The turns of a row fill its interval in order without a gap, one for each  *)
(* turn of the text, and a speaker is named only where a window heard them    *)
(* (core/diarize.py:655).  An interval without speech has one row, the first  *)
(* turn: the others are lost (core/diarize.py:600).                           *)
TurnsFillTheInterval ==
    Answered("turns") =>
        /\ Len(answer) = IF Interval.t0 < In[3] THEN Len(In[2]) ELSE 1
        /\ answer[1].t0 = Interval.t0 /\ Last(answer).t1 = In[3]
        /\ \A i \in DOMAIN answer : answer[i].t0 <= answer[i].t1
        /\ \A i \in 1..Len(answer) - 1 : answer[i].t1 = answer[i + 1].t0
        /\ \A i \in DOMAIN answer : answer[i].label # unknown =>
              \E k \in DOMAIN In[1] : /\ In[1][k].label = answer[i].label
                                      /\ In[1][k].t0 < In[3]
                                      /\ In[1][k].t1 > Interval.t0

(* Speakers are numbered from one in the order they are first heard, and the  *)
(* numbers tell apart what the clusters told apart (core/diarize.py:279).     *)
SpeakersInOrder ==
    Answered("labels") =>
        /\ \A i, j \in DOMAIN In : In[i] = In[j] <=> answer[i] = answer[j]
        /\ \A i \in DOMAIN In : answer[i] \in 1..Cardinality({answer[k] : k \in 1..i})

(* Live speakers are numbered without a gap in the order they are first heard, *)
(* a segment nobody could be told from leaves the labels of the others as they *)
(* are, and the means are those of the segments that bear the label            *)
(* (core/pipeline.py:357).                                                    *)
VoicesAreKept ==
    Answered("voices") =>
        LET labels == answer.labels
            told == {i \in DOMAIN In : In[i].kind = "voice"}
            of(v) == {i \in told : labels[i] = v}
        IN /\ Len(labels) = Len(In)
           /\ \A i \in told : labels[i] \in 1..1 + Cardinality({labels[k] : k \in told \intersect 1..i - 1})
           /\ Identified(SelectSeq(In, LAMBDA s : s.kind = "voice")).labels
                 = SelectSeq(labels, LAMBDA l : l # unknown /\ l # 0)
           /\ \A v \in DOMAIN answer.voices :
                 /\ answer.voices[v].n = Cardinality(of(v))
                 /\ answer.voices[v].sum = FoldSet(LAMBDA i, n : n + In[i].at, 0, of(v))

(* There is one recommendation where there is a model, it fits the machine if *)
(* any does, is no larger than aimed at unless nothing smaller fits, and no   *)
(* fitting model is passed over for a smaller one (core/catalogue.py:262).    *)
RecommendationFits ==
    Answered("model") /\ In[1] # <<>> =>
        LET specs == Range(In[1]) hw == In[2]
            usable == {m \in specs : Fitting(m, hw)}
            modest == {m \in usable : m.tier <= Target(In[1], hw, In[3])}
            picked == {m \in specs : m.id = answer[1]}
        IN /\ Cardinality(picked) = 1
           /\ \A m \in picked :
                /\ usable # {} => m \in usable
                /\ modest # {} => m \in modest
                /\ ~Streams(m, hw, In[3]) =>
                      \A x \in modest : x.tier <= m.tier /\ ~Streams(x, hw, In[3])

(* What a slot runs, if it is of the catalogue, is of the backend that will   *)
(* run it; a slot that is off, remote or given a path downloads nothing; and  *)
(* a model somebody named is taken when it can be (core/catalogue.py:524).    *)
SlotRunsWhatItCan ==
    Answered("slot") =>
        LET section == In[1] IN
        /\ answer.model # None =>
              /\ section.enabled /\ ~section.path /\ section.backend \notin HTTPBackends
              /\ \E m \in Range(In[2]) : m.id = answer.model /\ m.backend = section.backend
        /\ answer.model # None /\ answer.model # section.model =>
              \A m \in Range(In[2]) : m.id = section.model => m.backend # section.backend

(* Each runtime is offered once, at most one is recommended, that one can be   *)
(* had here, and a lighter one that can be had is not passed over             *)
(* (core/runtimes.py:436).                                                    *)
LightestRuntimeRecommended ==
    Answered("runtime") =>
        LET picked == {i \in DOMAIN answer : answer[i].recommended}
            place(v) == CHOOSE i \in DOMAIN Accelerated : Accelerated[i] = v
        IN /\ \A i, j \in DOMAIN answer : i # j => answer[i].variant # answer[j].variant
           /\ Cardinality(picked) <= 1
           /\ \A i \in picked :
                /\ answer[i].usable /\ Available(answer[i].variant, In[2])
                /\ \A v \in Range(In[1].accelerators) \intersect Range(Accelerated) :
                      Available(v, In[2]) =>
                          /\ answer[i].variant \in Range(Accelerated)
                          /\ place(answer[i].variant) <= place(v)

(* Weights go to a card of known size only if they and what it holds already  *)
(* stay within nine tenths of it (core/runtimes.py:758).                      *)
GpuIsNotOvercommitted ==
    Answered("gpu") /\ answer /\ (\E g \in Discrete(In[4]) : g.vram > 0) =>
        \E g \in Discrete(In[4]) : 10 * (In[1] + In[2]) <= 9 * g.vram

(* A segment is in the main language or one the meeting allows, and a         *)
(* secondary one needs the confidence and the best score                      *)
(* (core/lang.py:60).                                                         *)
LanguageIsAllowed ==
    Answered("language") =>
        \/ answer = In[2]
        \/ /\ In[2] # None /\ answer \in Range(In[3]) /\ In[1][answer] >= Override
           /\ \A l \in Range(In[3]) \union {In[2]} : In[1][answer] >= In[1][l]
        \/ In[2] = None /\ \A l \in DOMAIN In[1] : In[1][answer] >= In[1][l]

(* No version is newer than itself, of two versions one is newer or they are  *)
(* the same, and a release is newer than what led up to it                    *)
(* (core/update.py:62).                                                       *)
NewerIsAnOrder ==
    Answered("newer") =>
        LET v == In[1] w == In[2]
            same == Core(v) = Core(w) /\ v.pre = w.pre
        IN /\ answer => ~IsNewer(w, v) /\ ~same
           /\ answer \/ IsNewer(w, v) \/ same
           /\ Core(v) = Core(w) /\ v.pre = <<>> /\ w.pre # <<>> => answer
           /\ \A x \in Versions : answer /\ IsNewer(w, x) => IsNewer(v, x)

(* Wherever the upgrade of a file with something in it stops, what is on disk *)
(* is whole, and the next open ends with the tables of a new file, every      *)
(* message under one conversation of its session, every row and each final    *)
(* row once in the index; a file of a newer release is left as it was         *)
(* (core/store.py:384).                                                       *)
UpgradeKeepsEverything ==
    Answered("upgrade") =>
        LET f == In[1] opened == answer.opened.disk IN
        /\ f.version > SchemaVersion => answer.opened.raised /\ opened = f
        /\ f.version <= SchemaVersion /\ f.tables # {} =>
              /\ ~answer.opened.raised /\ opened.version = SchemaVersion
              /\ Shape(opened) = Shape(Open(NewFile, NoCopies).disk)
              /\ \A db \in {answer.stopped.disk, opened} :
                    /\ db.segments = f.segments /\ Talk(db) = Talk(f)
                    /\ db.version = f.version => db = f
              /\ \A i \in DOMAIN f.segments : f.segments[i] = "final" =>
                    Cardinality({k \in DOMAIN opened.index : opened.index[k] = i}) = 1
              /\ f.chat = "session" => IsInjective(opened.conversations)

(* From the first change on the user has the file as it was: it is on disk, or *)
(* a complete copy is beside it (core/store.py:419).                          *)
CopyBeforeTouching ==
    Answered("upgrade") /\ In[1].tables # {} /\ In[1].version <= SchemaVersion =>
        \A db \in {answer.stopped, answer.opened} :
            db.disk = In[1] \/ db.baks[In[1].version] = <<In[1]>>

(* The leaves of a document, as sequences of keys, to three levels.            *)
At(doc, path) == FoldLeft(LAMBDA d, k : IF d.dict /\ k \in DOMAIN d.kids THEN d.kids[k]
                                        ELSE Dict(<<>>), doc, path)
Paths(doc) ==
    {<<k>> : k \in DOMAIN doc.kids}
    \union {<<k, l>> : k \in DOMAIN doc.kids, l \in Keys}
    \union {<<k, l, m>> : k \in DOMAIN doc.kids, l \in Keys, m \in Keys}
Leaves(doc) == {p \in Paths(doc) : ~At(doc, p).dict}

(* Every setting has, after the next start, what was last said of it: the      *)
(* environment, else the last request that named it, else what the user wrote  *)
(* by hand, else what came with the release; and the file keeps all that was   *)
(* said to it (core/config.py:369).                                           *)
SettingsAreKept ==
    Answered("settings") =>
        LET said == <<Bundled, In[1]>> \o In[2] \o <<In[3]>>
            names(p) == {i \in DOMAIN said : p \in Leaves(said[i])}
            latest(S) == CHOOSE i \in S : \A k \in S : k <= i
            toFile(p) == names(p) \ {1, Len(said)}
        IN \A p \in UNION {Leaves(said[i]) : i \in DOMAIN said} :
              /\ At(answer[2], p) = At(said[latest(names(p))], p)
              /\ toFile(p) # {} => At(answer[1], p) = At(said[latest(toFile(p))], p)

(* Nobody is asked without the user's word, no answer is older than its time,  *)
(* and only the user's own check asks again before the last answer is          *)
(* (core/update.py:185).                                                      *)
UpdateAnswersAreFresh ==
    Answered("update") =>
        LET time(i) == FoldLeft(LAMBDA n, c : n + c.after, 0, SubSeq(In, 1, i))
            off(i) == \E k \in 1..i : /\ In[k].do = "off"
                                      /\ \A j \in k..i : In[j].do # "on"
            forced(t) == \E i \in DOMAIN In : In[i].do = "check" /\ time(i) = t
            ttl(a) == IF a.ok THEN Ttl ELSE FailTtl
        IN /\ \A i \in DOMAIN In : In[i].do = "status" =>
                 /\ answer.answers[i].known <=> ~off(i)
                 /\ ~off(i) => time(i) - answer.answers[i].at < ttl(answer.answers[i])
           /\ \A k \in 2..Len(answer.asked) :
                 \/ forced(answer.asked[k].at)
                 \/ answer.asked[k].at - answer.asked[k - 1].at >= ttl(answer.asked[k - 1])
           /\ \A k \in DOMAIN answer.asked : \E i \in DOMAIN In :
                 /\ time(i) = answer.asked[k].at
                 /\ In[i].do = "check" \/ (In[i].do = "status" /\ ~off(i))

(* What is heard is cut where nobody speaks, written in rows that read as     *)
(* sentences, and translated in the light of the rows before it.              *)
SpeechIsWrittenInSentences ==
    /\ CutIsInTheGap
    /\ RowsReadAsSentences
    /\ ContextIsNearest

(* A model is shown the transcript, as much of it as fits, and what it says of *)
(* the parts is in the minutes.                                               *)
PromptsAreTheTranscript ==
    /\ SnapshotIsLongestTail
    /\ ChunksAreTheTranscript
    /\ MergeKeepsItems

(* Who is speaking is told without a gap, live or of the whole recording.     *)
SpeakersAreToldApart ==
    /\ TurnsFillTheInterval
    /\ SpeakersInOrder
    /\ VoicesAreKept

(* What the program chooses by itself can be had here, and nothing better was *)
(* passed over.                                                               *)
ChoicesFit ==
    /\ RecommendationFits
    /\ SlotRunsWhatItCan
    /\ LightestRuntimeRecommended
    /\ GpuIsNotOvercommitted
    /\ LanguageIsAllowed
    /\ NewerIsAnOrder

(* A new release of the program keeps the database of the old.                *)
UpgradeIsSafe ==
    /\ UpgradeKeepsEverything
    /\ CopyBeforeTouching

(* What the user last said of a setting holds, and of asking for updates.     *)
UserIsObeyed ==
    /\ SettingsAreKept
    /\ UpdateAnswersAreFresh
=============================================================================
