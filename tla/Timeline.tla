------------------------------ MODULE Timeline ------------------------------
(***************************************************************************)
(* Who speaks when, once windows of the recording have been clustered: the  *)
(* label of an interval, the runs of one speaker within it, and where a text *)
(* of several turns is cut.  Times are in half frames, so that the middle of *)
(* a frame is a time.                                                        *)
(***************************************************************************)
EXTENDS Naturals, FiniteSets, SequencesExt, Folds

CONSTANTS MinRun,                 \* MIN_RESEGMENT_RUN_S
          MinCoverage, MinDominance, \* in percent
          VoiceThreshold,         \* speaker_threshold
          unknown

Count(x, s) == Cardinality({i \in DOMAIN s : s[i] = x})
(* max(counts.items()): the first that came among those that came most often.  *)
Commonest(s) ==
    s[CHOOSE i \in DOMAIN s :
        \A j \in DOMAIN s : Count(s[i], s) > Count(s[j], s)
                            \/ (Count(s[i], s) = Count(s[j], s) /\ i <= j)]

(* _renumber_by_first_occurrence, from 1.                                      *)
Renumber(labels) ==
    [i \in DOMAIN labels |->
        LET first == CHOOSE j \in DOMAIN labels :
                         labels[j] = labels[i] /\ \A k \in 1..j - 1 : labels[k] # labels[i]
        IN Cardinality({labels[k] : k \in 1..first})]

(* _label_for_interval: each frame votes for the label most of its windows     *)
(* have; too few frames with a window, or none dominant, and it is unknown.    *)
Frames(t0, t1) == (t1 - t0 + 1) \div 2
Active(windows, t) == SelectSeq(windows, LAMBDA w : w.t0 <= t /\ t < w.t1)
Votes(windows, t0, t1) ==
    LET active == [f \in 1..Frames(t0, t1) |-> Active(windows, t0 + 2 * f - 1)]
        heard == SelectSeq(active, LAMBDA ws : ws # <<>>)
    IN [i \in DOMAIN heard |-> Commonest([k \in DOMAIN heard[i] |-> heard[i][k].label])]
LabelFor(windows, t0, t1) ==
    LET votes == Votes(windows, t0, t1)
        best == Commonest(votes)
    IN IF \/ t1 <= t0 \/ votes = <<>>
          \/ Len(votes) * 100 < MinCoverage * Frames(t0, t1)
       THEN unknown
       ELSE IF Count(best, votes) * 100 < MinDominance * Len(votes) THEN unknown
       ELSE best

(* _merge_short_runs: a short run joins the one before it, a short last run     *)
(* too; the first stays, however short.                                         *)
Short(run) == run.t1 - run.t0 < MinRun
Absorb(runs, run) ==
    [runs EXCEPT ![Len(runs)].t1 = run.t1,
                 ![Len(runs)].label = IF @ = unknown THEN run.label ELSE @]
MergeShort(runs) ==
    LET merged == FoldLeft(LAMBDA out, run :
                      IF out # <<>> /\ Short(run) THEN Absorb(out, run) ELSE Append(out, run),
                      <<>>, runs)
    IN IF Len(runs) > 1 /\ Len(merged) > 1 /\ Short(Last(merged))
       THEN Absorb(Front(merged), Last(merged)) ELSE merged

(* _speaker_runs_for_interval: neighbouring frames of one label are a run; an   *)
(* interval without a label of its own is one run.                              *)
Runs(windows, t0, t1) ==
    LET whole == [t0 |-> t0, t1 |-> t1, label |-> LabelFor(windows, t0, t1)]
        end(f) == IF t0 + 2 * f < t1 THEN t0 + 2 * f ELSE t1
        frame(f) == [t0 |-> t0 + 2 * (f - 1), t1 |-> end(f),
                     label |-> LabelFor(windows, t0 + 2 * (f - 1), end(f))]
    IN IF whole.label = unknown THEN <<whole>>
       ELSE MergeShort(FoldLeft(LAMBDA out, f :
                IF out # <<>> /\ Last(out).label = frame(f).label
                THEN [out EXCEPT ![Len(out)].t1 = end(f)] ELSE Append(out, frame(f)),
                <<>>, [f \in 1..Frames(t0, t1) |-> f]))

(* _resegment_transcript: the rows a text becomes.  One turn is one row; several   *)
(* are cut by the runs if there are as many, else by the lengths of the turns; and *)
(* an interval without speech has room for the first of them only.                 *)
TextChunks(t0, t1, chars) ==
    IF t1 <= t0 THEN <<[t0 |-> t0, t1 |-> t1]>> ELSE
    LET total == FoldLeft(LAMBDA n, c : n + c, 0, chars)
        at(i) == IF i = Len(chars) THEN t1
                 ELSE t0 + ((t1 - t0) * FoldLeft(LAMBDA n, c : n + c, 0, SubSeq(chars, 1, i)))
                           \div total
    IN [i \in DOMAIN chars |-> [t0 |-> IF i = 1 THEN t0 ELSE at(i - 1), t1 |-> at(i)]]
TurnRows(windows, t0, t1, chars) ==
    LET runs == Runs(windows, t0, t1)
        labelled(c) == [t0 |-> c.t0, t1 |-> c.t1, label |-> LabelFor(windows, c.t0, c.t1)]
        chunks == TextChunks(t0, t1, chars)
    IN IF Len(chars) > 1 /\ Len(runs) = Len(chars) THEN runs
       ELSE [i \in DOMAIN chunks |-> labelled(chunks[i])]

-----------------------------------------------------------------------------
(* Live, _identify_speaker: a segment is given to the voice whose mean it is   *)
(* nearest to, if that is near enough, and moves the mean; else it is a new     *)
(* voice.  An embedding is a point on a line, a voice the sum and the number    *)
(* of its points.  A segment too short is unknown, one that cannot be embedded  *)
(* has no label (0): neither changes the voices.                                *)
Off(at, voice) == IF at * voice.n < voice.sum THEN voice.sum - at * voice.n
                  ELSE at * voice.n - voice.sum
NearestVoice(at, voices) ==
    CHOOSE i \in DOMAIN voices : \A k \in DOMAIN voices :
        LET here == Off(at, voices[i]) * voices[k].n
            there == Off(at, voices[k]) * voices[i].n
        IN here < there \/ (here = there /\ i <= k)
Knows(at, voices) ==
    voices # <<>> /\ LET best == voices[NearestVoice(at, voices)]
                     IN Off(at, best) < VoiceThreshold * best.n

(* Mutant: the number is taken after the voice was appended. *)
NumberOfNewLate(voices) == IF voices = <<>> THEN 1 ELSE Len(voices) + 2
NumberOfNew(voices) == Len(voices) + 1
Identify(heard, segment) ==
    CASE segment.kind = "short" -> [heard EXCEPT !.labels = Append(@, unknown)]
      [] segment.kind = "failed" -> [heard EXCEPT !.labels = Append(@, 0)]
      [] segment.kind = "voice" /\ Knows(segment.at, heard.voices) ->
            LET best == NearestVoice(segment.at, heard.voices)
            IN [labels |-> Append(heard.labels, best),
                voices |-> [heard.voices EXCEPT ![best] = [sum |-> @.sum + segment.at,
                                                           n |-> @.n + 1]]]
      [] OTHER ->
            [labels |-> Append(heard.labels, NumberOfNew(heard.voices)),
             voices |-> Append(heard.voices, [sum |-> segment.at, n |-> 1])]
Identified(segments) == FoldLeft(Identify, [labels |-> <<>>, voices |-> <<>>], segments)
=============================================================================
