---------------------------- MODULE SessionEdits ----------------------------
(***************************************************************************)
(* Everything that rewrites the rows of one finished session: the translate *)
(* and the diarize job, the pass over the recording, split and merge, and   *)
(* the edits of one row, of a speaker or of a name.  All but the edits work *)
(* on rows they read earlier and write them back whole, or one translation  *)
(* at a time; none of them holds anything in between.                       *)
(*                                                                         *)
(* A text is a sequence of words, and the translation of a text is that     *)
(* sequence again, so that a translation can be told to fit its row.  An    *)
(* id says who made the row; diarization numbers the parts of a row in its  *)
(* id.  Times are left out: who is heard where, and which row is silent, is *)
(* chosen freely.  rows is in the order of ORDER BY ord.  A call of the     *)
(* store is one step here; what other calls do between its statements is in *)
(* SharedConnection.                                                        *)
(***************************************************************************)
EXTENDS Naturals, SequencesExt

CONSTANTS Actors,          \* jobs and handlers at work at the same time
          Words,           \* what was said and edited in
          Spoken,          \* the rows as recorded: a sequence of texts
          PassHears,       \* what the pass makes of the recording
          Turns,           \* words that begin a dialogue turn
          Edits,           \* words a user types in, each once
          Labels,          \* speakers the clustering finds
          Name,            \* what a user calls a speaker
          NoSpeaker, None,
          MaxRequests,     \* calls of the API, at most these of them:
          MaxDiarizations, MaxEdits

ASSUME EditsAssumption ==
    /\ Spoken \in Seq(Seq(Words) \ {<<>>}) /\ PassHears \in Seq(Seq(Words) \ {<<>>})
    /\ Turns \subseteq Words /\ Edits \subseteq Words
    /\ None \notin Actors
    /\ MaxRequests \in Nat /\ MaxDiarizations \in Nat /\ MaxEdits \in Nat
(* A user gives a speaker a name of his own, not that of a cluster.         *)
ASSUME NamesAssumption == Name \notin Labels /\ NoSpeaker \notin Labels

VARIABLES rows, actor, requests, diarizations, edits,
          \* what the properties speak of:
          texts,           \* every text somebody wrote
          typed,           \* the edits made and not replaced by another edit
          renamed,         \* the labels a user has named
          byHand,          \* the rows a user left unfit, and what they became
          mixed            \* what has been written over unseen

vars == <<rows, actor, requests, diarizations, edits, texts, typed, renamed, byHand, mixed>>
history == <<texts, typed, renamed, byHand, mixed>>

Jobs == {"translate", "retranslate", "diarize", "refine"}
Ops == Jobs \union {"split", "merge"}

Id == [of : {"recording", "split", "pass"}, n : Nat, part : Seq(Nat)]
RowId(i) == [of |-> "recording", n |-> i, part |-> <<>>]
NewId(n) == [of |-> "split", n |-> n, part |-> <<>>]        \* uuid4
PassId(i) == [of |-> "pass", n |-> i, part |-> <<>>]        \* numbered anew by each pass
Row == [id : Id, ord : Nat, words : Seq(Words), trans : Seq(Words),
        status : {"final", "skipped", "stale"}, speaker : Labels \union {Name, NoSpeaker}]
Idle == [op |-> "none", pc |-> "idle", n |-> 0, rows |-> <<>>, todo |-> <<>>, missed |-> {}]

-----------------------------------------------------------------------------
Renumbered(rs) == [i \in DOMAIN rs |-> [rs[i] EXCEPT !.ord = i - 1]]
TextOf(rs) == FlattenSeq([i \in DOMAIN rs |-> rs[i].words])

(* rs with new in the place of its rows i to j.                             *)
Spliced(rs, i, j, new) == SubSeq(rs, 1, i - 1) \o new \o SubSeq(rs, j + 1, Len(rs))

(* s cut before each position of starts.                                    *)
Pieces(s, starts) ==
    LET next(i) == Min({j \in starts \union {Len(s) + 1} : i < j})
    IN FlattenSeq([i \in DOMAIN s |->
                      IF i \in starts THEN <<SubSeq(s, i, next(i) - 1)>> ELSE <<>>])

Untranslated(r) == [r EXCEPT !.trans = <<>>, !.status = "skipped"]

(* split_segment: the text is cut where the user points, neither half empty, *)
(* the second half gets a new id and the translation goes.                   *)
SplitPoints(r) == 1..Len(r.words) - 1
(* Mutant: the first half keeps the translation of the whole. *)
HalvesKeepTranslation(r, k, new) ==
    <<[r EXCEPT !.words = SubSeq(r.words, 1, k)],
      [Untranslated(r) EXCEPT !.words = SubSeq(r.words, k + 1, Len(r.words)),
                              !.id = new]>>
Halves(r, k, new) ==
    <<[Untranslated(r) EXCEPT !.words = SubSeq(r.words, 1, k)],
      [Untranslated(r) EXCEPT !.words = SubSeq(r.words, k + 1, Len(r.words)),
                              !.id = new]>>
Splits(rs, new) ==
    UNION {{Renumbered(Spliced(rs, i, i, Halves(rs[i], k, new))) : k \in SplitPoints(rs[i])} :
              i \in DOMAIN rs}

(* merge_with_next: text and translation are joined, the first speaker wins. *)
Merged(a, b) ==
    [a EXCEPT !.words = @ \o b.words, !.trans = @ \o b.trans,
              !.status = IF a.trans \o b.trans = <<>> THEN "skipped"
                         ELSE IF a.status = "final" /\ b.status = "final" THEN "final"
                         ELSE "stale"]
Merges(rs) ==
    {Renumbered(Spliced(rs, i, i + 1, <<Merged(rs[i], rs[i + 1])>>)) : i \in 1..Len(rs) - 1}

(* _normalize_source_segments: neighbours that are parts of one row become   *)
(* that row again.                                                           *)
IsPart(r) == r.id.part # <<>>
Base(r) == IF IsPart(r) THEN [r.id EXCEPT !.part = Front(@)] ELSE r.id
SameRow(r, s) == IsPart(r) /\ IsPart(s) /\ Base(r) = Base(s)
Gathered(rs) ==
    LET groups == Pieces(rs, {i \in DOMAIN rs : i = 1 \/ ~SameRow(rs[i - 1], rs[i])})
    IN [g \in DOMAIN groups |-> [groups[g][1] EXCEPT !.id = Base(groups[g][1]),
                                                     !.words = TextOf(groups[g])]]

(* _resegment_transcript: a row with several dialogue turns becomes a row    *)
(* for each, a row without text is dropped, translations are reset.  Where    *)
(* such a row is silent in the recording, or has no length, only its first    *)
(* turn is kept (_time_chunks_for_text_parts).                                *)
TurnsOf(w) == Pieces(w, {i \in DOMAIN w : i = 1 \/ w[i] \in Turns})
Several(rs) ==
    LET g == Gathered(rs) IN {i \in DOMAIN g : Len(TurnsOf(g[i].words)) > 1}
Chunk(r, w, k) == [Untranslated(r) EXCEPT !.id.part = Append(@, k), !.words = w]
(* Mutant: the last turn is taken for the end of the row. *)
ChunksButLast(r, silent) ==
    LET turns == TurnsOf(r.words)
    IN IF turns = <<>> THEN <<>>
       ELSE IF Len(turns) = 1 \/ silent THEN <<[Untranslated(r) EXCEPT !.words = turns[1]]>>
       ELSE [k \in DOMAIN Front(turns) |-> Chunk(r, turns[k], k)]
Chunks(r, silent) ==
    LET turns == TurnsOf(r.words)
    IN IF turns = <<>> THEN <<>>
       ELSE IF Len(turns) = 1 \/ silent THEN <<[Untranslated(r) EXCEPT !.words = turns[1]]>>
       ELSE [k \in DOMAIN turns |-> Chunk(r, turns[k], k)]
Resegmented(rs, silent) ==
    LET g == Gathered(rs)
    IN Renumbered(FlattenSeq([i \in DOMAIN g |-> Chunks(g[i], i \in silent)]))
Diarized(rs, silent) ==
    LET new == Resegmented(rs, silent)
    IN {[i \in DOMAIN new |-> [new[i] EXCEPT !.speaker = f[i]]] :
           f \in [DOMAIN new -> Labels]}
(* What the silence of some rows of several turns leaves of the text.        *)
TextLeft(rs, silent) ==
    LET g == Gathered(rs)
    IN FlattenSeq([i \in DOMAIN g |->
                      IF i \in silent THEN TurnsOf(g[i].words)[1] ELSE g[i].words])

(* refine_session: new rows, each with the speaker of an old row             *)
(* (carry_speakers) and a translation if there is a translator.              *)
CarriedSpeakers(rs) == {rs[i].speaker : i \in DOMAIN rs} \union {NoSpeaker}
Refined(rs) ==
    {[i \in DOMAIN PassHears |->
        [id |-> PassId(i), ord |-> i - 1, words |-> PassHears[i],
         trans |-> IF translated THEN PassHears[i] ELSE <<>>,
         status |-> IF translated THEN "final" ELSE "skipped", speaker |-> who]] :
        who \in CarriedSpeakers(rs), translated \in BOOLEAN}

(* The rows whose recording may turn out to be silent.                       *)
Unheard(a) == IF actor[a].op = "diarize" THEN Several(actor[a].rows) ELSE {}
(* What an actor writes over the rows it has read: a diarization that leaves *)
(* no row writes nothing.                                                    *)
Results(a, silent) ==
    LET old == actor[a].rows
    IN CASE actor[a].op = "split" -> Splits(old, NewId(actor[a].n))
         [] actor[a].op = "merge" -> Merges(old)
         [] actor[a].op = "diarize" -> Diarized(old, silent) \ {<<>>}
         [] actor[a].op = "refine" -> Refined(old)
         [] OTHER -> {}

(* translation_candidates.                                                   *)
Missing(r) == r.trans = <<>> \/ r.status \in {"skipped", "stale"}
Candidates(rs, all) ==
    FlattenSeq([i \in DOMAIN rs |->
        IF rs[i].words # <<>> /\ (all \/ Missing(rs[i])) THEN <<rs[i]>> ELSE <<>>])
HasTranslations(rs) == \E i \in DOMAIN rs : rs[i].status = "final" /\ rs[i].trans # <<>>

(* The INSERTs of replace_segments stop at the first id that is there.       *)
Inserted(new) ==
    LET there == {j \in DOMAIN new : \E i \in 1..j - 1 : new[i].id = new[j].id}
    IN IF there = {} THEN new ELSE SubSeq(new, 1, Min(there) - 1)

-----------------------------------------------------------------------------
DistinctIds(rs) == \A i, j \in DOMAIN rs : i # j => rs[i].id # rs[j].id
TypeOK ==
    /\ rows \in Seq(Row)
    /\ DistinctIds(rows)
    /\ actor \in [Actors -> [op : Ops \union {"none"}, pc : {"idle", "work", "translate"},
                             n : 0..MaxRequests, rows : Seq(Row), todo : Seq(Row),
                             missed : SUBSET {"words", "speaker"}]]
    /\ requests \in 0..MaxRequests
    /\ diarizations \in 0..MaxDiarizations /\ edits \in 0..MaxEdits
    /\ texts \subseteq Seq(Words) /\ typed \subseteq Edits
    /\ renamed \subseteq Labels /\ byHand \subseteq Id /\ mixed \subseteq {"words", "speaker"}

Init ==
    /\ \E translated \in BOOLEAN, who \in Labels \union {NoSpeaker} :
        rows = [i \in DOMAIN Spoken |->
                  [id |-> RowId(i), ord |-> i - 1, words |-> Spoken[i],
                   trans |-> IF translated THEN Spoken[i] ELSE <<>>,
                   status |-> IF translated THEN "final" ELSE "skipped",
                   speaker |-> who]]
    /\ actor = [a \in Actors |-> Idle]
    /\ requests = 0 /\ diarizations = 0 /\ edits = 0
    /\ texts = {TextOf(rows)} /\ typed = {} /\ renamed = {} /\ byHand = {} /\ mixed = {}

(* Whoever has read and not written yet misses the change.                   *)
Reading(b) == actor[b].pc # "idle"
Miss(by, what) ==
    [b \in Actors |-> IF b = by \/ ~Reading(b) THEN actor[b]
                      ELSE [actor[b] EXCEPT !.missed = @ \union what]]

-----------------------------------------------------------------------------
(* Who has read all rows, and who goes through a list of rows to translate.  *)
Reader(op, n) ==
    [op |-> op, pc |-> "work", n |-> n, rows |-> rows, todo |-> <<>>, missed |-> {}]
Translator(op, rs, all) ==
    [op |-> op, pc |-> "translate", n |-> 0, rows |-> <<>>, todo |-> Candidates(rs, all),
     missed |-> {}]

MoreCalls == requests + edits < MaxRequests
(* A request comes in and reads the session.  A pass is refused while one    *)
(* runs; a diarization of nothing does nothing.                              *)
Read(a, op) ==
    /\ actor[a].pc = "idle" /\ MoreCalls /\ requests' = requests + 1
    /\ op = "diarize" => diarizations < MaxDiarizations /\ rows # <<>>
    /\ op = "refine" => \A b \in Actors : actor[b].op = "refine" => ~Reading(b)
    /\ actor' = [actor EXCEPT ![a] =
           IF op \in {"translate", "retranslate"}
           THEN Translator(op, rows, op = "retranslate")
           ELSE Reader(op, requests')]
    /\ diarizations' = diarizations + IF op = "diarize" THEN 1 ELSE 0
    /\ UNCHANGED <<rows, edits, history>>

(* A point or a row that is not there: 400.  A diarization without a row to  *)
(* write completes.                                                          *)
Refuse(a) ==
    /\ actor[a].pc = "work" /\ Results(a, {}) = {}
    /\ actor' = [actor EXCEPT ![a] = Idle]
    /\ UNCHANGED <<rows, requests, diarizations, edits, history>>

(* A job raises: no recording, no model, no translator.                      *)
JobFails(a) ==
    /\ Reading(a) /\ actor[a].op \in Jobs
    /\ actor' = [actor EXCEPT ![a] = Idle]
    /\ UNCHANGED <<rows, requests, diarizations, edits, history>>

(* A row merged into the one before it leaves it what a user did to it.      *)
Fits(r) == r.words # <<>> /\ (r.status = "final" => r.trans = r.words)
Inherited(old, new) ==
    {old[i].id : i \in {i \in 1..Len(old) - 1 :
        old[i + 1].id \in byHand /\ \A j \in DOMAIN new : new[j].id # old[i + 1].id}}

(* replace_segments, and what the diarize job does after it: where there     *)
(* were translations, it translates every new row.                           *)
Swap(a) ==
    /\ actor[a].pc = "work"
    /\ \E silent \in SUBSET Unheard(a) : \E new \in Results(a, silent) :
        LET old == actor[a].rows
            left == TextLeft(old, silent)
            again == actor[a].op = "diarize" /\ HasTranslations(old)
        IN /\ rows' = Inserted(new)
           /\ actor' = [Miss(a, {"words", "speaker"}) EXCEPT ![a] =
                  IF again /\ Inserted(new) = new
                  THEN Translator("diarize", new, TRUE) ELSE Idle]
           /\ mixed' = mixed \union actor[a].missed
           /\ texts' = texts \union (CASE actor[a].op = "refine" -> {TextOf(new)}
                                       [] silent # {} -> {left}
                                       [] OTHER -> {})
           /\ typed' = CASE actor[a].op = "refine" -> {}
                         [] silent # {} -> typed \ (Range(TextOf(old)) \ Range(left))
                         [] OTHER -> typed
           /\ renamed' = renamed \ IF actor[a].op = "diarize"
                                   THEN {new[i].speaker : i \in DOMAIN new} ELSE {}
           /\ byHand' = byHand \union IF actor[a].op = "merge" THEN Inherited(old, new) ELSE {}
    /\ UNCHANGED <<requests, diarizations, edits>>

(* upsert_segment_trans, after the translator has answered for the next row  *)
(* of the list: a row that is gone comes back without a text.                *)
Answered(r, translation) ==
    [r EXCEPT !.trans = translation,
              !.status = IF translation = <<>> THEN "skipped" ELSE "final"]
Upserted(r, translation) ==
    LET at == {i \in DOMAIN rows : rows[i].id = r.id}
        behind == Min({i \in DOMAIN rows : rows[i].ord > r.ord} \union {Len(rows) + 1})
    IN IF at # {}
       THEN [i \in DOMAIN rows |-> IF i \in at THEN Answered(rows[i], translation) ELSE rows[i]]
       ELSE Spliced(rows, behind, behind - 1,
               <<Answered([r EXCEPT !.words = <<>>, !.speaker = NoSpeaker], translation)>>)
TranslateNext(a) ==
    /\ actor[a].pc = "translate" /\ actor[a].todo # <<>>
    /\ \E translation \in {Head(actor[a].todo).words, <<>>} :
        rows' = Upserted(Head(actor[a].todo), translation)
    /\ actor' = [actor EXCEPT ![a].todo = Tail(@)]
    /\ mixed' = mixed \union (actor[a].missed \ {"speaker"})
    /\ UNCHANGED <<requests, diarizations, edits, texts, typed, renamed, byHand>>

Complete(a) ==
    /\ actor[a].pc = "translate" /\ actor[a].todo = <<>>
    /\ actor' = [actor EXCEPT ![a] = Idle]
    /\ UNCHANGED <<rows, requests, diarizations, edits, history>>

-----------------------------------------------------------------------------
(* update_segment_text on one row: a new text, a new translation, or both,    *)
(* either of which may be empty; a new text alone makes the translation       *)
(* stale, a new translation is final whatever the text.                       *)
Entered == {<<>>} \union {<<e>> : e \in Edits}
EditedText(r, w) ==
    [r EXCEPT !.words = w, !.status = IF r.trans = <<>> THEN @ ELSE "stale"]
(* Mutant: a new text that comes with a translation is not written. *)
EditedOnlyTranslation(r, w, t) == [r EXCEPT !.trans = t, !.status = "final"]
EditedTranslation(r, w, t) == [r EXCEPT !.words = w, !.trans = t, !.status = "final"]
LeavesUnfit(r) == byHand' = byHand \union IF Fits(r) THEN {} ELSE {r.id}

EditText(i, w) ==
    /\ MoreCalls /\ edits < MaxEdits /\ edits' = edits + 1
    /\ \A u \in texts : Range(w) \intersect Range(u) = {}
    /\ \E row \in {EditedText(rows[i], w)}
                    \union {EditedTranslation(rows[i], w, t) : t \in Entered \union {w}} :
        rows' = [rows EXCEPT ![i] = row] /\ LeavesUnfit(row)
    /\ texts' = texts \union {TextOf(rows')}
    /\ typed' = (typed \union Range(w)) \ Range(rows[i].words)
    /\ actor' = Miss(None, {"words"})
    /\ UNCHANGED <<requests, diarizations, renamed, mixed>>

EditTranslation(i, t) ==
    /\ MoreCalls /\ edits < MaxEdits /\ edits' = edits + 1
    /\ LET row == EditedTranslation(rows[i], rows[i].words, t)
       IN rows' = [rows EXCEPT ![i] = row] /\ LeavesUnfit(row)
    /\ UNCHANGED <<actor, requests, diarizations, texts, typed, renamed, mixed>>

(* rename_speaker: every row that has the label.                              *)
NamedRows(label) ==
    [i \in DOMAIN rows |->
        IF rows[i].speaker = label THEN [rows[i] EXCEPT !.speaker = Name] ELSE rows[i]]
RenameSpeaker(label) ==
    /\ MoreCalls /\ edits < MaxEdits /\ edits' = edits + 1
    /\ rows' = NamedRows(label) /\ renamed' = renamed \union {label}
    /\ actor' = Miss(None, {"speaker"})
    /\ UNCHANGED <<requests, diarizations, texts, typed, byHand, mixed>>

(* set_segment_speakers from the client: one row gets the name.               *)
AssignSpeaker(i) ==
    /\ MoreCalls /\ edits < MaxEdits /\ edits' = edits + 1
    /\ rows' = [rows EXCEPT ![i].speaker = Name]
    /\ actor' = Miss(None, {"speaker"})
    /\ UNCHANGED <<requests, diarizations, history>>

Next ==
    \/ \E a \in Actors :
        \/ \E op \in Ops : Read(a, op)
        \/ Refuse(a) \/ JobFails(a) \/ Swap(a) \/ TranslateNext(a) \/ Complete(a)
    \/ \E i \in DOMAIN rows :
        \/ \E w \in Entered : EditText(i, w)
        \/ \E t \in Entered \union {rows[i].words} : EditTranslation(i, t)
        \/ AssignSpeaker(i)
    \/ \E label \in Labels : RenameSpeaker(label)

Spec == Init /\ [][Next]_vars

-----------------------------------------------------------------------------
(* No split, merge, diarization or translation, however they interleave,     *)
(* loses, doubles or moves a word: the transcript is always one that was      *)
(* recorded, typed or heard by a pass, or one of these less the later turns   *)
(* of rows found silent (core/resegment.py, core/diarize.py:600).             *)
TextIsGenuine == TextOf(rows) \in texts

(* A translation that counts as final is one of the text beside it, as long   *)
(* as nobody has written over words it had not seen, but for the rows a user  *)
(* gave another, or that were merged with such (store.py:860).                *)
FinalFitsText ==
    "words" \notin mixed =>
        \A i \in DOMAIN rows : rows[i].status = "final" /\ rows[i].trans # <<>>
                                   => rows[i].trans = rows[i].words \/ rows[i].id \in byHand

(* A row without a text was left so by a user, or comes of a translation      *)
(* written back to a row that had been replaced meanwhile (store.py:1067).    *)
EmptyRowIsLate ==
    "words" \notin mixed =>
        \A i \in DOMAIN rows : rows[i].words # <<>> \/ rows[i].id \in byHand

(* What a user typed stays until the user types over it, a pass replaces it   *)
(* or its row is found silent, unless somebody wrote back rows read before    *)
(* (api/segments.py:57).                                                      *)
TypedStays == "words" \notin mixed => typed \subseteq Range(TextOf(rows))

(* A speaker a user named does not get the old label back, unless diarized    *)
(* anew or written over by rows read before (refine.py:279).                  *)
NamedStays ==
    "speaker" \notin mixed => \A i \in DOMAIN rows : rows[i].speaker \notin renamed

(* A translation belongs to the text beside it.                             *)
TranslationsFit ==
    /\ TypeOK
    /\ FinalFitsText
    /\ EmptyRowIsLate

(* What the user changed by hand stays changed.                             *)
EditsStay ==
    /\ TypedStays
    /\ NamedStays
=============================================================================
