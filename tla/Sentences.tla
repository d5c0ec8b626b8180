----------------------------- MODULE Sentences ------------------------------
(***************************************************************************)
(* How a text is cut and put together: where live audio is cut, how what a  *)
(* recording was heard as becomes rows, what a prompt still has room for,   *)
(* and how minutes are made of their parts.  Pure functions; a line, a row  *)
(* or a frame is what the decision needs to know of it.                     *)
(***************************************************************************)
EXTENDS Naturals, FiniteSets, SequencesExt, Folds

CONSTANTS FrameBytes, TailFrames,           \* find_cut_point
          MinRowChars, MaxRowChars, MaxRowS, \* _join_into_sentences
          Budget                            \* characters a prompt has room for

Total(s) == FoldLeft(LAMBDA n, x : n + x, 0, s)

-----------------------------------------------------------------------------
(* find_cut_point: a byte offset in audio of frames with these loudnesses,   *)
(* and a rest shorter than a frame.  Frames count from 0.                    *)
Quietest(loud, first) ==
    CHOOSE q \in first..Len(loud) - 1 :
        \A j \in first..Len(loud) - 1 :
            loud[q + 1] < loud[j + 1] \/ (loud[q + 1] = loud[j + 1] /\ q <= j)
CutPoint(loud, rest) ==
    IF Len(loud) < 2 THEN Len(loud) * FrameBytes + rest
    ELSE LET first == IF Len(loud) > TailFrames THEN Len(loud) - TailFrames ELSE 1
             middle == Quietest(loud, first) * FrameBytes + FrameBytes \div 2
         IN middle - (middle % 2)

-----------------------------------------------------------------------------
(* merge_whisper_segments: a segment of several dialogue turns becomes a part *)
(* for each, by their lengths; all but the first begin a turn.  Of a segment  *)
(* that takes no time the first is all that is kept.                          *)
TurnEnd(s, i) ==
    LET chars(n) == Total([k \in 1..n |-> s.turns[k].chars])
    IN IF i = Len(s.turns) \/ s.t1 <= s.t0 THEN s.t1
       ELSE s.t0 + ((s.t1 - s.t0) * chars(i)) \div chars(Len(s.turns))
PartsOf(s) ==
    [i \in IF s.t1 <= s.t0 THEN {1} ELSE DOMAIN s.turns |->
        [chars |-> s.turns[i].chars, ends |-> s.turns[i].ends, turn |-> i > 1,
         t0 |-> IF i = 1 THEN s.t0 ELSE TurnEnd(s, i - 1), t1 |-> TurnEnd(s, i)]]

(* _join_into_sentences: a row is the parts that were joined.                 *)
Chars(row) == Total([k \in DOMAIN row |-> row[k].chars]) + Len(row) - 1
Finished(row) == Last(row).ends /\ Chars(row) >= MinRowChars
(* Mutant: the part itself is not counted. *)
TooLongAlready(row, p) == p.t0 - row[1].t0 > MaxRowS \/ Chars(row) > MaxRowChars
TooLong(row, p) == p.t1 - row[1].t0 > MaxRowS \/ Chars(Append(row, p)) > MaxRowChars
Joined(parts) ==
    FoldLeft(LAMBDA rows, p :
        IF rows = <<>> \/ p.turn \/ Finished(Last(rows)) \/ TooLong(Last(rows), p)
        THEN Append(rows, <<p>>)
        ELSE [rows EXCEPT ![Len(rows)] = Append(@, p)],
        <<>>, parts)
Heard(segments) ==
    Joined(FlattenSeq([i \in DOMAIN segments |-> PartsOf(segments[i])]))

-----------------------------------------------------------------------------
(* context_before: the last n texts before idx that are not empty (0).        *)
ContextBefore(texts, idx, n) ==
    FoldLeft(LAMBDA out, i :
        IF Len(out) < n /\ texts[idx - i] # 0 THEN <<texts[idx - i]>> \o out ELSE out,
        <<>>, [i \in 1..idx - 1 |-> i])

(* build_transcript_snapshot: the lines, by length, that are kept when not     *)
(* all of them fit: the newest, until one does not fit.  A newline is counted  *)
(* for each line kept, the last one too, which has none.                       *)
Size(lines) == Total(lines) + Len(lines)
Fits(lines) == lines = <<>> \/ Size(lines) - 1 <= Budget
Snapshot(lines) ==
    IF Fits(lines) THEN lines
    ELSE FoldRight(LAMBDA line, acc :
            IF acc.full \/ Size(<<line>> \o acc.kept) > Budget
            THEN [acc EXCEPT !.full = TRUE]
            ELSE [acc EXCEPT !.kept = <<line>> \o @],
            lines, [kept |-> <<>>, full |-> FALSE]).kept

(* chunk_lines: pieces for the minutes, a line is never cut.                   *)
(* Mutant: the line that does not fit is lost. *)
ChunksLosing(lines) ==
    FoldLeft(LAMBDA chunks, line :
        IF chunks = <<>> \/ Size(Append(Last(chunks), line)) > Budget
        THEN Append(chunks, <<>>)
        ELSE [chunks EXCEPT ![Len(chunks)] = Append(@, line)],
        <<>>, lines)
Chunks(lines) ==
    FoldLeft(LAMBDA chunks, line :
        IF chunks = <<>> \/ Size(Append(Last(chunks), line)) > Budget
        THEN Append(chunks, <<line>>)
        ELSE [chunks EXCEPT ![Len(chunks)] = Append(@, line)],
        <<>>, lines)

(* parse_reply: of a reply that is no document only the words are kept, as     *)
(* the summary; a reply that is empty, or a document without anything, is      *)
(* empty minutes.                                                              *)
Empty == [summary |-> <<>>, items |-> {}]
Parsed(reply) ==
    CASE reply.kind = "document" -> [summary |-> reply.summary, items |-> reply.items]
      [] reply.kind = "words" -> [summary |-> <<"words">>, items |-> {}]
      [] OTHER -> Empty

(* write_minutes: one reply for each chunk, and for several one more that      *)
(* merges them; if nothing comes of that they are concatenated.                *)
Minutes(replies, merge) ==
    IF Len(replies) = 1 THEN Parsed(replies[1])
    ELSE IF Parsed(merge) # Empty THEN Parsed(merge)
    ELSE [summary |-> FlattenSeq([i \in DOMAIN replies |-> Parsed(replies[i]).summary]),
          items |-> UNION {Parsed(replies[i]).items : i \in DOMAIN replies}]
=============================================================================
