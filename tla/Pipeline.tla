----------------------------- MODULE Pipeline ------------------------------
(***************************************************************************)
(* The live pipeline (core/pipeline.py): the loops that turn audio frames  *)
(* into segments, finals and translations, and the four bounded queues     *)
(* between them.  LiveSession composes it with the WebSocket handler.      *)
(*                                                                         *)
(*   audio_in -> vad or stream loop -> stt_jobs -> stt loop                *)
(*            -> final_events -> translation loop, all -> client_events    *)
(*                                                                         *)
(* A step runs from one suspension to the next.  A put on a full queue is  *)
(* a step that is not enabled: which of several waiting putters goes first *)
(* is left open, since asyncio lets a newcomer take the slot a woken       *)
(* putter was told about.  Audio is the number of the frame, and text only *)
(* whether there is any.                                                   *)
(***************************************************************************)
EXTENDS Naturals, Sequences, SequencesExt, FiniteSets

CONSTANTS
    MaxChunks,        \* bound: frames fed in one behaviour
    MaxPartials,      \* bound: partial transcripts sent in one behaviour
    AudioCap, SttCap, FinalCap, ClientCap,   \* maxsize of the four queues
    MinSilence,       \* min_silence_ms, in frames
    ExtendedSilence,  \* the same times extended_silence_factor
    MaxSegment        \* max_segment_ms, in frames

ASSUME PipelineAssumption ==
    /\ MaxChunks \in Nat /\ MaxPartials \in Nat
    /\ {AudioCap, SttCap, FinalCap, ClientCap} \subseteq Nat \ {0}
    /\ MinSilence \in Nat \ {0} /\ ExtendedSilence \in Nat
    /\ MinSilence <= ExtendedSilence
    /\ MaxSegment \in Nat \ {0, 1}

VARIABLES
    streaming,       \* does the recogniser offer a stream (self._stream)?
    next_seq, audio_in, stt_jobs, final_events, client_events,
    stopping, force_close,     \* the two asyncio.Events
    vad,             \* the VAD loop or the stream loop
    utterance,       \* stream loop: what the recogniser has heard, what was sent
    partial,         \* does the open segment have a partial loop?
    partials,        \* how many partials there were, for the bound
    latest_partial,  \* how its last text ends: _latest_partial_text
    stt, trans, ptrans,        \* the other three loops
    partial_jobs, finalized,
    segs             \* every segment id given out: its audio and its fate

pipelineVars == <<streaming, next_seq, audio_in, stt_jobs, final_events,
    client_events, stopping, force_close, vad, utterance, partial, partials,
    latest_partial, stt, trans, ptrans, partial_jobs, finalized, segs>>

NoSeg == 0
Frames == 1..MaxChunks

EventType == {"speech_start", "speech_end", "partial", "final",
              "trans_partial", "trans", "error"}
Event == [type : EventType, seg : Nat]

(* open - being spoken; queued - closed and owed a final; dropped - the    *)
(* stream loop ended it with no text; failed - answered with an error;     *)
(* final - its final was emitted; done - and its translation or an error.  *)
Fate == {"open", "queued", "dropped", "failed", "final", "done"}

VadPc == {"off", "wait", "start", "rest", "put", "end", "publish", "error", "exited"}

PipelineTypeOK ==
    /\ streaming \in BOOLEAN
    /\ next_seq \in 0..MaxChunks
    /\ audio_in \in Seq([seq : Frames, speech : BOOLEAN])
    /\ Len(audio_in) <= AudioCap
    /\ stt_jobs \in Seq(Nat) /\ Len(stt_jobs) <= SttCap
    /\ final_events \in Seq(Nat) /\ Len(final_events) <= FinalCap
    /\ client_events \in Seq(Event) /\ Len(client_events) <= ClientCap
    /\ stopping \in BOOLEAN /\ force_close \in BOOLEAN
    /\ vad \in [pc : VadPc, seg : Nat, quiet : Nat, tail : Seq(Frames),
                then : {"wait", "exit"}]
    /\ utterance \in [text : Nat, sent : Nat, next : {"go", "end", "partial"}]
    /\ partial \in BOOLEAN
    /\ partials \in 0..MaxPartials
    /\ latest_partial \in {"none", "mid", "sentence"}
    /\ stt \in [pc : {"off", "get", "busy", "queue"}, seg : Nat]
    /\ trans \in [pc : {"off", "get", "busy"}, seg : Nat]
    /\ ptrans \in [pc : {"off", "wait", "busy", "blocked"}, todo : SUBSET Nat, seg : Nat]
    /\ segs \in Seq([audio : Seq(Frames), fate : Fate])
    /\ partial_jobs \subseteq DOMAIN segs /\ finalized \subseteq DOMAIN segs

IdleVad == [pc |-> "off", seg |-> NoSeg, quiet |-> 0, tail |-> <<>>, then |-> "wait"]
Silent == [text |-> 0, sent |-> 0, next |-> "go"]

PipelineInit ==
    /\ streaming \in BOOLEAN
    /\ next_seq = 0
    /\ audio_in = <<>> /\ stt_jobs = <<>> /\ final_events = <<>>
    /\ client_events = <<>>
    /\ stopping = FALSE /\ force_close = FALSE
    /\ vad = IdleVad /\ utterance = Silent
    /\ partial = FALSE /\ partials = 0 /\ latest_partial = "none"
    /\ stt = [pc |-> "off", seg |-> NoSeg]
    /\ trans = [pc |-> "off", seg |-> NoSeg]
    /\ ptrans = [pc |-> "off", todo |-> {}, seg |-> NoSeg]
    /\ partial_jobs = {} /\ finalized = {}
    /\ segs = <<>>

(***************************************************************************)
(* What the rest of the engine calls: start, feed_audio, close_open_       *)
(* segment, flush (its first line and its condition) and stop.             *)
(***************************************************************************)
StartLoops ==
    /\ vad' = [vad EXCEPT !.pc = "wait"]
    /\ stt' = [stt EXCEPT !.pc = "get"]
    /\ trans' = [trans EXCEPT !.pc = "get"]
    /\ ptrans' = [ptrans EXCEPT !.pc = "wait"]
    /\ UNCHANGED <<streaming, next_seq, audio_in, stt_jobs, final_events,
          client_events, stopping, force_close, utterance, partial, partials,
          latest_partial, partial_jobs, finalized, segs>>

(* _put_drop_oldest: a full queue loses its oldest frame, never the newest. *)
FeedAudio(speech) ==
    LET chunk == [seq |-> next_seq + 1, speech |-> speech]
        room  == IF Len(audio_in) < AudioCap THEN audio_in ELSE Tail(audio_in)
    IN  /\ next_seq < MaxChunks
        /\ next_seq' = next_seq + 1
        /\ audio_in' = Append(room, chunk)
        /\ UNCHANGED <<streaming, stt_jobs, final_events, client_events, stopping,
              force_close, vad, utterance, partial, partials, latest_partial, stt, trans,
              ptrans, partial_jobs, finalized, segs>>

Signal(stop, close) ==
    /\ stopping' = (stopping \/ stop)
    /\ force_close' = (force_close \/ close)
    /\ UNCHANGED <<streaming, next_seq, audio_in, stt_jobs, final_events,
          client_events, vad, utterance, partial, partials, latest_partial, stt, trans,
          ptrans, partial_jobs, finalized, segs>>

VadDone == vad.pc = "exited"

(* Mutant: a final being translated is not waited for. *)
DrainedButTranslating ==
    stt_jobs = <<>> /\ final_events = <<>> /\ stt.pc = "get" /\ ptrans.pc = "wait"
(* The condition flush() polls once the VAD loop has exited. *)
Drained ==
    /\ stt_jobs = <<>> /\ final_events = <<>>
    /\ stt.pc = "get" /\ trans.pc = "get"
    /\ ptrans.pc = "wait"

(* stop(): every task is cancelled; what the queues and the loops still     *)
(* hold goes with the object, which no one uses again.                       *)
StopLoops ==
    /\ stopping' = TRUE /\ force_close' = FALSE
    /\ audio_in' = <<>> /\ stt_jobs' = <<>> /\ final_events' = <<>>
    /\ client_events' = <<>>
    /\ vad' = IdleVad /\ utterance' = Silent
    /\ partial' = FALSE /\ latest_partial' = "none"
    /\ stt' = [pc |-> "off", seg |-> NoSeg]
    /\ trans' = [pc |-> "off", seg |-> NoSeg]
    /\ ptrans' = [pc |-> "off", todo |-> {}, seg |-> NoSeg]
    /\ partial_jobs' = {}
    /\ UNCHANGED <<streaming, next_seq, partials, finalized, segs>>

-----------------------------------------------------------------------------
(* _emit_client: a partial transcript is dropped on a full queue, anything  *)
(* else waits for room.                                                     *)
ClientRoom == Len(client_events) < ClientCap
Emit(type, s) ==
    /\ ClientRoom
    /\ client_events' = Append(client_events, [type |-> type, seg |-> s])
EmitPartial(s) ==
    /\ partials < MaxPartials /\ partials' = partials + 1
    /\ client_events' = IF ClientRoom
                        THEN Append(client_events, [type |-> "partial", seg |-> s])
                        ELSE client_events

(* A transcript that needs a translation while its segment is still open.  *)
QueuePartial(s, other) ==
    partial_jobs' = IF other /\ s \notin finalized
                    THEN partial_jobs \cup {s} ELSE partial_jobs

NewSegment(audio) == Append(segs, [audio |-> audio, fate |-> "open"])

(* _wait_audio_or_stop takes a frame before it looks at the two signals,   *)
(* except that a frame arriving as the pause wakes the loop stays queued.  *)
FrameWaits == vad.pc = "wait" /\ audio_in # <<>>
PauseWaits == vad.pc = "wait" /\ force_close /\ ~(stopping /\ audio_in = <<>>)
TakesFrame == FrameWaits /\ audio_in' = Tail(audio_in)
TakesPause == PauseWaits /\ force_close' = FALSE
TakesStop  == vad.pc = "wait" /\ stopping /\ audio_in = <<>>

(* What else a loop may wait for; the steps below begin with these.         *)
VadSpeaks(at) == vad.pc = at /\ ClientRoom
JobFits == vad.pc = "put" /\ Len(stt_jobs) < SttCap
PartialIsDue == vad.pc = "rest" /\ utterance.next = "partial" /\ partials < MaxPartials
EndpointIsDue == vad.pc = "rest" /\ utterance.next = "end"
PublishedAll == vad.pc = "publish" /\ stt.pc = "get"
JobWaits == stt.pc = "get" /\ stt_jobs # <<>>
FinalSpeaks == stt.pc = "busy" /\ ClientRoom
FinalFits == stt.pc = "queue" /\ Len(final_events) < FinalCap
FinalWaits == trans.pc = "get" /\ final_events # <<>>
TransSpeaks == trans.pc = "busy" /\ ClientRoom
PartialTransSpeaks == ptrans.pc = "blocked" /\ ClientRoom

(***************************************************************************)
(* _vad_loop                                                               *)
(***************************************************************************)
SilenceThreshold ==
    IF latest_partial = "mid" THEN ExtendedSilence ELSE MinSilence

(* Mutant: the partial loop runs on. *)
CloseNotCancelling(head, tail, then) ==
    /\ UNCHANGED <<partial, latest_partial>>
    /\ segs' = [segs EXCEPT ![vad.seg].audio = head]
    /\ vad' = [vad EXCEPT !.pc = "put", !.tail = tail, !.then = then, !.quiet = 0]
(* The shared part of every close: the partial loop is cancelled and       *)
(* awaited before the segment is queued.  head is what it keeps.           *)
CloseSegment(head, tail, then) ==
    /\ partial' = FALSE
    /\ latest_partial' = "none"
    /\ segs' = [segs EXCEPT ![vad.seg].audio = head]
    /\ vad' = [vad EXCEPT !.pc = "put", !.tail = tail, !.then = then, !.quiet = 0]

vadFrame == <<streaming, next_seq, stt_jobs, final_events, client_events, stopping,
              utterance, partials, stt, trans, ptrans, partial_jobs, finalized>>

VadError ==
    /\ ~streaming /\ TakesFrame
    /\ UNCHANGED <<vadFrame, force_close, vad, partial, latest_partial, segs>>

VadSpeech ==
    /\ ~streaming /\ TakesFrame /\ Head(audio_in).speech
    /\ LET frame == Head(audio_in).seq
           grown == Append(segs[vad.seg].audio, frame)
       IN IF vad.seg = NoSeg
          THEN /\ segs' = NewSegment(<<frame>>)
               /\ vad' = [vad EXCEPT !.pc = "start", !.seg = Len(segs'), !.quiet = 0]
               /\ UNCHANGED <<partial, latest_partial>>
          ELSE \/ /\ Len(grown) < MaxSegment
                  /\ segs' = [segs EXCEPT ![vad.seg].audio = grown]
                  /\ vad' = [vad EXCEPT !.quiet = 0]
                  /\ UNCHANGED <<partial, latest_partial>>
               \/ /\ Len(grown) >= MaxSegment
                  /\ \E cut \in 1..Len(grown) :      \* find_cut_point
                        CloseSegment(SubSeq(grown, 1, cut),
                                     SubSeq(grown, cut + 1, Len(grown)), "wait")
    /\ UNCHANGED <<vadFrame, force_close>>

(* The first quiet frame only starts the clock. *)
VadSilence ==
    /\ ~streaming /\ TakesFrame /\ ~Head(audio_in).speech
    /\ LET grown == Append(segs[vad.seg].audio, Head(audio_in).seq)
       IN IF vad.seg = NoSeg
          THEN UNCHANGED <<vad, partial, latest_partial, segs>>
          ELSE IF vad.quiet > 0 /\ vad.quiet >= SilenceThreshold
          THEN CloseSegment(grown, <<>>, "wait")
          ELSE /\ segs' = [segs EXCEPT ![vad.seg].audio = grown]
               /\ vad' = [vad EXCEPT !.quiet = @ + 1]
               /\ UNCHANGED <<partial, latest_partial>>
    /\ UNCHANGED <<vadFrame, force_close>>

(* _flush_open_segment, on a pause and on the way out. *)
VadPause ==
    /\ ~streaming /\ TakesPause
    /\ IF vad.seg = NoSeg
       THEN UNCHANGED <<vad, partial, latest_partial, segs>>
       ELSE CloseSegment(segs[vad.seg].audio, <<>>, "wait")
    /\ UNCHANGED <<vadFrame, audio_in>>

VadStop ==
    /\ ~streaming /\ TakesStop
    /\ IF vad.seg = NoSeg
       THEN vad' = [vad EXCEPT !.pc = "exited"] /\ UNCHANGED <<partial, latest_partial, segs>>
       ELSE CloseSegment(segs[vad.seg].audio, <<>>, "exit")
    /\ UNCHANGED <<vadFrame, audio_in, force_close>>

(* speech_start, then the partial loop of the new segment. *)
SpeechStart ==
    /\ ~streaming /\ VadSpeaks("start")
    /\ Emit("speech_start", vad.seg)
    /\ vad' = [vad EXCEPT !.pc = "wait"]
    /\ partial' = TRUE
    /\ UNCHANGED <<streaming, next_seq, audio_in, stt_jobs, final_events, stopping,
          force_close, utterance, partials, latest_partial, stt, trans, ptrans,
          partial_jobs, finalized, segs>>

(* Mutant: segments are dropped as frames are. *)
PutJobDropOldest ==
    /\ vad.pc = "put"
    /\ stt_jobs' = Append(IF Len(stt_jobs) < SttCap THEN stt_jobs ELSE Tail(stt_jobs), vad.seg)
    /\ segs' = [segs EXCEPT ![vad.seg].fate = "queued"]
    /\ vad' = [vad EXCEPT !.pc = "end"]
    /\ UNCHANGED <<streaming, next_seq, audio_in, final_events, client_events,
          stopping, force_close, utterance, partial, partials, latest_partial, stt, trans,
          ptrans, partial_jobs, finalized>>
PutJob ==
    /\ JobFits
    /\ stt_jobs' = Append(stt_jobs, vad.seg)
    /\ segs' = [segs EXCEPT ![vad.seg].fate = "queued"]
    /\ vad' = [vad EXCEPT !.pc = "end"]
    /\ UNCHANGED <<streaming, next_seq, audio_in, final_events, client_events,
          stopping, force_close, utterance, partial, partials, latest_partial, stt, trans,
          ptrans, partial_jobs, finalized>>

(* speech_end; what the length cap cut off opens the next segment at once. *)
SpeechEnd ==
    /\ ~streaming /\ VadSpeaks("end")
    /\ Emit("speech_end", vad.seg)
    /\ IF vad.tail # <<>>
       THEN /\ segs' = NewSegment(vad.tail)
            /\ vad' = [vad EXCEPT !.pc = "start", !.seg = Len(segs'), !.tail = <<>>]
       ELSE /\ vad' = [vad EXCEPT !.pc = IF vad.then = "exit" THEN "exited" ELSE "wait",
                                  !.seg = NoSeg]
            /\ UNCHANGED segs
    /\ UNCHANGED <<streaming, next_seq, audio_in, stt_jobs, final_events, stopping,
          force_close, utterance, partial, partials, latest_partial, stt, trans, ptrans,
          partial_jobs, finalized>>

(***************************************************************************)
(* _stream_loop.  utterance.text counts the words heard since the last     *)
(* reset, utterance.sent the words of last_text, the last partial sent.    *)
(* vad.tail is seg_audio.                                                  *)
(***************************************************************************)
streamFrame == <<streaming, next_seq, stt_jobs, final_events, stopping, partial,
                 latest_partial, trans, ptrans, finalized>>

(* finalize(): words w make a segment of what is open; no words, no final. *)
Finalize(w, then) ==
    /\ utterance' = [utterance EXCEPT !.sent = 0, !.text = 0, !.next = "go"]
    /\ IF vad.seg # NoSeg /\ w > 0
       THEN /\ segs' = [segs EXCEPT ![vad.seg] = [audio |-> vad.tail, fate |-> "queued"]]
            /\ vad' = [vad EXCEPT !.pc = "end", !.then = then, !.tail = <<>>]
       ELSE /\ segs' = IF vad.seg = NoSeg THEN segs
                       ELSE [segs EXCEPT ![vad.seg].fate = "dropped"]
            /\ vad' = [vad EXCEPT !.pc = IF then = "exit" THEN "exited" ELSE "wait",
                                  !.seg = NoSeg, !.tail = <<>>]

StreamFeed ==
    /\ streaming /\ TakesFrame
    /\ \E heard \in {utterance.text, utterance.text + 1}, next \in {"go", "end", "partial"} :
          LET new == heard > 0 /\ vad.seg = NoSeg
          IN /\ next = "partial" => heard > 0 /\ heard # utterance.sent
                                   /\ partials < MaxPartials
             /\ utterance' = [utterance EXCEPT !.text = heard, !.next = next]
             /\ segs' = IF new THEN NewSegment(<<>>) ELSE segs
             /\ vad' = [vad EXCEPT !.pc = IF new THEN "start" ELSE IF next = "go" THEN "wait" ELSE "rest",
                                   !.seg = IF new THEN Len(segs') ELSE @,
                                   !.tail = Append(@, Head(audio_in).seq)]
    /\ UNCHANGED <<streamFrame, partials, client_events, force_close, stt, partial_jobs>>

StreamStart ==
    /\ streaming /\ VadSpeaks("start")
    /\ Emit("speech_start", vad.seg)
    /\ vad' = [vad EXCEPT !.pc = IF utterance.next = "go" THEN "wait" ELSE "rest"]
    /\ UNCHANGED <<streamFrame, partials, audio_in, force_close, utterance, stt, partial_jobs, segs>>

(* An endpoint, or a partial that is due. *)
StreamRest ==
    /\ streaming
    /\ \/ /\ EndpointIsDue
          /\ Finalize(utterance.text, "wait")
          /\ UNCHANGED <<client_events, partials, partial_jobs>>
       \/ /\ PartialIsDue
          /\ EmitPartial(vad.seg)
          /\ \E other \in BOOLEAN : QueuePartial(vad.seg, other)
          /\ utterance' = [utterance EXCEPT !.sent = utterance.text, !.next = "go"]
          /\ vad' = [vad EXCEPT !.pc = "wait"]
          /\ UNCHANGED segs
    /\ UNCHANGED <<streamFrame, audio_in, force_close, stt>>

StreamFeedFails ==
    /\ streaming /\ TakesFrame
    /\ vad' = [vad EXCEPT !.pc = "error", !.tail = Append(@, Head(audio_in).seq)]
    /\ UNCHANGED <<streamFrame, partials, client_events, force_close, utterance, stt,
          partial_jobs, segs>>

StreamError ==
    /\ streaming /\ VadSpeaks("error")
    /\ Emit("error", NoSeg)
    /\ vad' = [vad EXCEPT !.pc = "wait"]
    /\ UNCHANGED <<streamFrame, partials, audio_in, force_close, utterance, stt, partial_jobs, segs>>

StreamPause ==
    /\ streaming /\ TakesPause
    /\ Finalize(utterance.sent, "wait")
    /\ UNCHANGED <<streamFrame, partials, audio_in, client_events, stt, partial_jobs>>

(* The tail is decoded; a flush that raises leaves the utterance open. *)
StreamStop ==
    /\ streaming /\ TakesStop
    /\ \/ \E heard \in {utterance.text, utterance.text + 1} : Finalize(heard, "exit")
       \/ vad' = [vad EXCEPT !.pc = "exited"] /\ UNCHANGED <<utterance, segs>>
    /\ UNCHANGED <<streamFrame, partials, audio_in, client_events, force_close, stt, partial_jobs>>

(* The stream loop publishes its finals itself; the STT loop sits idle, so  *)
(* its record stands for that publication.                                  *)
StreamEnd ==
    /\ streaming /\ VadSpeaks("end")
    /\ Emit("speech_end", vad.seg)
    /\ vad' = [vad EXCEPT !.pc = "publish"]
    /\ stt' = [pc |-> "busy", seg |-> vad.seg]
    /\ UNCHANGED <<streamFrame, partials, audio_in, force_close, utterance, partial_jobs, segs>>

StreamPublished ==
    /\ PublishedAll
    /\ vad' = [vad EXCEPT !.pc = IF vad.then = "exit" THEN "exited" ELSE "wait",
                          !.seg = NoSeg, !.tail = <<>>]
    /\ UNCHANGED <<streamFrame, partials, audio_in, client_events, force_close, utterance, stt,
          partial_jobs, segs>>

(***************************************************************************)
(* _partial_loop of the open segment                                       *)
(***************************************************************************)
taskFrame == <<streaming, next_seq, audio_in, stopping, force_close, vad, utterance>>

(* Each interval, from the snapshot to the events: nothing new or an error, *)
(* or a partial that is sent and, when its language is not the target,      *)
(* queued for translation.                                                  *)
PartialText ==
    /\ partial /\ vad.seg # NoSeg
    /\ latest_partial' \in {"mid", "sentence"}
    /\ EmitPartial(vad.seg)
    /\ \E other \in BOOLEAN : QueuePartial(vad.seg, other)
    /\ UNCHANGED <<taskFrame, partial, stt_jobs, final_events, stt, trans, ptrans,
          finalized, segs>>

(***************************************************************************)
(* _stt_loop and _publish_final                                            *)
(***************************************************************************)
sttFrame == <<taskFrame, partial, partials, latest_partial, trans, ptrans>>

SttTake ==
    /\ ~streaming /\ JobWaits
    /\ stt' = [pc |-> "busy", seg |-> Head(stt_jobs)]
    /\ stt_jobs' = Tail(stt_jobs)
    /\ UNCHANGED <<sttFrame, final_events, client_events, partial_jobs, finalized, segs>>

SttError ==
    /\ ~streaming /\ stt.pc = "busy"
    /\ Emit("error", stt.seg)
    /\ segs' = [segs EXCEPT ![stt.seg].fate = "failed"]
    /\ stt' = [pc |-> "get", seg |-> NoSeg]
    /\ UNCHANGED <<sttFrame, stt_jobs, final_events, partial_jobs, finalized>>

(* The recogniser and the speaker model have answered; from the put to the  *)
(* next suspension the final goes out and the segment is closed to partial  *)
(* translations.                                                            *)
EmitFinal ==
    /\ FinalSpeaks
    /\ Emit("final", stt.seg)
    /\ finalized' = finalized \cup {stt.seg}
    /\ partial_jobs' = partial_jobs \ {stt.seg}
    /\ segs' = [segs EXCEPT ![stt.seg].fate = "final"]
    /\ stt' = [stt EXCEPT !.pc = "queue"]
    /\ UNCHANGED <<sttFrame, stt_jobs, final_events>>

QueueFinal ==
    /\ FinalFits
    /\ final_events' = Append(final_events, stt.seg)
    /\ stt' = [pc |-> "get", seg |-> NoSeg]
    /\ UNCHANGED <<sttFrame, stt_jobs, client_events, partial_jobs, finalized, segs>>

(***************************************************************************)
(* _translation_loop: a translation, a final with nothing to translate     *)
(* (skipped, answered without the translator) or an error.                 *)
(***************************************************************************)
transFrame == <<taskFrame, partial, partials, latest_partial, stt, stt_jobs, ptrans,
                partial_jobs, finalized>>

TransTake ==
    /\ FinalWaits
    /\ final_events' = Tail(final_events)
    /\ trans' = [pc |-> "busy", seg |-> Head(final_events)]
    /\ UNCHANGED <<transFrame, client_events, segs>>

EmitTrans ==
    /\ TransSpeaks
    /\ \E type \in {"trans", "error"} : Emit(type, trans.seg)
    /\ segs' = [segs EXCEPT ![trans.seg].fate = "done"]
    /\ trans' = [pc |-> "get", seg |-> NoSeg]
    /\ UNCHANGED <<transFrame, final_events>>

(***************************************************************************)
(* _partial_translation_loop: a snapshot of the queued partials, one by    *)
(* one, skipping the segments finalized meanwhile.                         *)
(***************************************************************************)
ptransFrame == <<taskFrame, partial, partials, latest_partial, stt, stt_jobs, trans,
                 final_events, finalized, segs>>

PartialTransWake ==
    /\ ptrans.pc = "wait" /\ ptrans.todo = {} /\ partial_jobs # {}
    /\ ptrans' = [ptrans EXCEPT !.todo = partial_jobs]
    /\ partial_jobs' = {}
    /\ UNCHANGED <<ptransFrame, client_events>>

PartialTransTake ==
    /\ ptrans.pc = "wait"
    /\ \E s \in ptrans.todo :
          ptrans' = [pc   |-> IF s \in finalized THEN "wait" ELSE "busy",
                     todo |-> ptrans.todo \ {s},
                     seg  |-> IF s \in finalized THEN NoSeg ELSE s]
    /\ UNCHANGED <<ptransFrame, client_events, partial_jobs>>

(* Skipped when it failed or the final came first; with no room in the      *)
(* queue it waits, and is not looked at again.                              *)
PartialTransResult ==
    /\ ptrans.pc = "busy"
    /\ \/ /\ ptrans' = [ptrans EXCEPT !.pc = "wait", !.seg = NoSeg]
          /\ UNCHANGED client_events
       \/ /\ ptrans.seg \notin finalized
          /\ IF ClientRoom
             THEN /\ Emit("trans_partial", ptrans.seg)
                  /\ ptrans' = [ptrans EXCEPT !.pc = "wait", !.seg = NoSeg]
             ELSE /\ ptrans' = [ptrans EXCEPT !.pc = "blocked"]
                  /\ UNCHANGED client_events
    /\ UNCHANGED <<ptransFrame, partial_jobs>>

PartialTransPut ==
    /\ PartialTransSpeaks
    /\ Emit("trans_partial", ptrans.seg)
    /\ ptrans' = [ptrans EXCEPT !.pc = "wait", !.seg = NoSeg]
    /\ UNCHANGED <<ptransFrame, partial_jobs>>

-----------------------------------------------------------------------------
VadLoop == VadError \/ VadSpeech \/ VadSilence \/ VadPause \/ VadStop
           \/ SpeechStart \/ PutJob \/ SpeechEnd
StreamLoop == StreamFeed \/ StreamStart \/ StreamRest \/ StreamFeedFails
              \/ StreamError \/ StreamPause \/ StreamStop \/ StreamEnd \/ StreamPublished
SttLoop == SttTake \/ SttError \/ EmitFinal \/ QueueFinal
TranslationLoop == TransTake \/ EmitTrans
PartialTranslationLoop == PartialTransWake \/ PartialTransTake \/ PartialTransResult
                          \/ PartialTransPut

PipelineNext == VadLoop \/ StreamLoop \/ PartialText \/ SttLoop \/ TranslationLoop
                \/ PartialTranslationLoop

Increasing(q) == \A i, k \in DOMAIN q : i < k => q[i] < q[k]
Before(p, q) == \A i \in DOMAIN p, k \in DOMAIN q : p[i] < q[k]

(* Nothing is decoded twice and nothing is put back: read in the order of   *)
(* their ids, the segments' audio is in the order it was spoken, the cut at *)
(* the length cap included (what it cut off waits in vad.tail).             *)
NothingDecodedTwice ==
    /\ \A s, t \in DOMAIN segs : s < t => Before(segs[s].audio, segs[t].audio)
    /\ \A s \in DOMAIN segs : Increasing(segs[s].audio) /\ Before(segs[s].audio, vad.tail)
    /\ Increasing(vad.tail)
=============================================================================
