---------------------------- MODULE LiveSession ----------------------------
(***************************************************************************)
(* One recording over the WebSocket (ws.py): the handler from the `start'  *)
(* message to the last line of its `finally', the pump that persists and   *)
(* sends the pipeline's events, and the session row and segment rows they  *)
(* write (core/store.py), composed with the live pipeline.                 *)
(***************************************************************************)
EXTENDS Pipeline

CONSTANT MaxFaults   \* bound: store calls that raise; each takes the place of a frame

ASSUME SessionAssumption == MaxFaults \in Nat

VARIABLES
    handler,     \* where websocket_endpoint is
    pump, sending,   \* event_pump and the event it holds
    seen,        \* the segments whose final the client was sent
    rows, ord,   \* the segment rows, and segment_ord
    unstored,    \* segments with a write that raised
    faults,
    ended_at,    \* is max_ended_at above zero?
    status,      \* the session row
    refine       \* was the whole-recording pass launched?

sessionVars == <<handler, pump, sending, seen, rows, ord,
                 unstored, faults, ended_at, status, refine>>
vars == <<pipelineVars, sessionVars>>

Segs == 1..MaxChunks
NoEvent == [type |-> "error", seg |-> NoSeg]
(* orig_status of a segment's row; ghost is the row a translation inserted, *)
(* final with no text, before any transcript of the segment was stored.     *)
Orig == {"none", "ghost", "partial", "final"}

HandlerPc == {"connecting", "built", "recorder", "running", "flushing", "drained",
              "stopped", "stamped", "ended"}

TypeOK ==
    /\ PipelineTypeOK
    /\ handler \in HandlerPc
    /\ pump \in {"off", "get", "send", "store", "dead"}
    /\ sending \in Event
    /\ seen \subseteq Segs
    /\ rows \in [Segs -> Orig]
    /\ ord \in Seq(Segs)
    /\ \A i, j \in DOMAIN ord : ord[i] = ord[j] => i = j
    /\ unstored \subseteq Segs /\ faults \in 0..MaxFaults
    /\ ended_at \in BOOLEAN
    /\ status \in {"none", "recording", "ready"}
    /\ refine \in BOOLEAN

Init ==
    /\ PipelineInit
    /\ handler = "connecting"
    /\ pump = "off" /\ sending = NoEvent
    /\ seen = {} /\ rows = [s \in Segs |-> "none"]
    /\ ord = <<>> /\ unstored = {} /\ faults = 0
    /\ ended_at = FALSE /\ status = "none"
    /\ refine = FALSE

InBounds == next_seq + faults < MaxChunks
StoreRaises == faults < MaxFaults /\ InBounds /\ faults' = faults + 1
StoreWrites == UNCHANGED faults

transcript == <<seen, rows, ord, unstored>>

(***************************************************************************)
(* The handler up to `ready'                                               *)
(***************************************************************************)
(* Origin, token, first message, configuration or a backend: refused.      *)
Refuse ==
    /\ handler = "connecting" /\ handler' = "ended"
    /\ UNCHANGED <<pipelineVars, pump, sending, transcript, faults,
          ended_at, status, refine>>

handlerFrame == <<sending, transcript, faults, ended_at, status, refine>>

StartPipeline ==
    /\ handler = "connecting"
    /\ \/ StartLoops /\ handler' = "built"
       \/ StopLoops /\ handler' = "stopped"     \* a model will not load
    /\ UNCHANGED <<pump, handlerFrame>>

(* A recording that cannot be opened is only logged; a session whose only   *)
(* source is the system's audio ends when that will not start.              *)
OpenRecording ==
    /\ handler = "built"
    /\ \/ handler' = "recorder" /\ UNCHANGED pipelineVars
       \/ handler' = "stopped" /\ StopLoops
    /\ UNCHANGED <<pump, handlerFrame>>

CreateRow ==
    /\ handler = "recorder" /\ handler' = "running"
    /\ \/ StoreWrites /\ status' = "recording"
       \/ StoreRaises /\ status' = status
    /\ pump' = "get"
    /\ UNCHANGED <<pipelineVars, sending, transcript, ended_at,
          refine>>

(***************************************************************************)
(* Audio and control messages                                              *)
(***************************************************************************)
(* _consume_audio: the pipeline and the recording get the same frame.  A    *)
(* microphone's frames come through the receive loop, while it receives;    *)
(* SystemAudioPump has its own clock from its start to its stop.  A first   *)
(* frame of silence would change nothing.                                   *)
Audio ==
    /\ handler \in {"recorder", "running", "flushing", "drained"}
    /\ vad.pc # "off" /\ InBounds
    /\ \E speech \in BOOLEAN : (next_seq = 0 => speech) /\ FeedAudio(speech)
    /\ UNCHANGED <<handler, pump, sending, transcript, faults, ended_at, status, refine>>

(* Not feeding a paused session is left to the client and to the pump of    *)
(* the system's audio, and `resume' undoes only that.                       *)
Pause ==
    /\ handler = "running" /\ ~force_close
    /\ Signal(FALSE, TRUE)
    /\ UNCHANGED sessionVars

Stop ==
    /\ handler = "running" /\ handler' = "flushing"
    /\ Signal(TRUE, FALSE)
    /\ UNCHANGED <<pump, sending, transcript, faults, ended_at,
          status, refine>>

(***************************************************************************)
(* The end.  StopTasks is the finally block up to pipeline.stop(): the     *)
(* system source is stopped, the pump is cancelled wherever it is, with    *)
(* the event it holds, and so are the loops.                               *)
(***************************************************************************)
StopTasks ==
    /\ handler' = "stopped"
    /\ StopLoops
    /\ pump' = "off" /\ sending' = NoEvent
    /\ UNCHANGED <<transcript, faults, ended_at, status, refine>>

(* The client goes away, or the handler raises. *)
Disconnect == handler = "running" /\ StopTasks

(* flush() returns when all is idle, or gives up after fifteen seconds;     *)
(* then the pump has half a second to ship what is queued.                  *)
Flushed ==
    /\ handler = "flushing" /\ VadDone /\ Drained
    /\ handler' = "drained"
    /\ UNCHANGED <<pipelineVars, pump, handlerFrame>>

FlushTimeout == handler = "flushing" /\ StopTasks
Linger == handler = "drained" /\ StopTasks

(***************************************************************************)
(* event_pump: a partial is sent and then stored, the rest is stored and   *)
(* then sent.  A write that raises is logged; a send that raises ends the  *)
(* pump.                                                                   *)
(***************************************************************************)
(* Mutant: finals take the short way too. *)
IsTranscript(e) == e.type \in {"partial", "trans_partial", "final"}
IsPartial(e) == e.type \in {"partial", "trans_partial"}

pumpFrame == <<streaming, next_seq, audio_in, stt_jobs, final_events, stopping,
    force_close, vad, utterance, partial, partials, latest_partial, stt, trans, ptrans,
    partial_jobs, finalized, segs, handler, status, refine>>

(* upsert_segment_orig and upsert_segment_trans.                            *)
Row(row, e) ==
    IF e.type \in {"partial", "final"} THEN e.type
    ELSE IF row = "none" THEN "ghost" ELSE row

IsRow(e) == e.type \in {"partial", "final", "trans_partial", "trans"}

(* _persist_event; the ordinal is given at first sight and never moves.     *)
Persist(e) ==
    /\ ended_at' = (ended_at \/ e.type \in {"partial", "final", "speech_end"})
    /\ ord' = IF IsRow(e) /\ e.seg \notin ToSet(ord) THEN Append(ord, e.seg) ELSE ord
    /\ IF ~IsRow(e)
       THEN UNCHANGED <<rows, unstored, faults>>
       ELSE \/ /\ StoreWrites
               /\ rows' = [rows EXCEPT ![e.seg] = Row(@, e)]
               /\ UNCHANGED unstored
            \/ /\ StoreRaises
               /\ unstored' = unstored \cup {e.seg}
               /\ UNCHANGED rows

Shows(e) == seen' = IF e.type = "final" THEN seen \cup {e.seg} ELSE seen

EventWaits == pump = "get" /\ client_events # <<>>

(* Taking an event off the queue, up to the end of the first of the two.    *)
PumpStoreFirst ==
    /\ EventWaits /\ ~IsPartial(Head(client_events))
    /\ client_events' = Tail(client_events)
    /\ Persist(Head(client_events))
    /\ IF IsRow(Head(client_events))
       THEN pump' = "send" /\ sending' = Head(client_events)
       ELSE UNCHANGED <<pump, sending>>
    /\ UNCHANGED <<pumpFrame, seen>>

PumpSendFirst ==
    /\ EventWaits /\ IsPartial(Head(client_events))
    /\ client_events' = Tail(client_events)
    /\ sending' = Head(client_events)
    /\ Shows(Head(client_events))
    /\ pump' = "store"
    /\ UNCHANGED <<pumpFrame, rows, ord, unstored, faults, ended_at>>

PumpSend ==
    /\ pump = "send"
    /\ Shows(sending)
    /\ pump' = "get" /\ sending' = NoEvent
    /\ UNCHANGED <<pumpFrame, client_events, rows, ord, unstored, faults, ended_at>>

PumpStore ==
    /\ pump = "store"
    /\ Persist(sending)
    /\ pump' = "get" /\ sending' = NoEvent
    /\ UNCHANGED <<pumpFrame, client_events, seen>>

SendRaises ==
    /\ \/ pump = "send" /\ UNCHANGED client_events
       \/ /\ EventWaits
          /\ IsPartial(Head(client_events)) \/ ~IsRow(Head(client_events))
          /\ client_events' = Tail(client_events)
    /\ pump' = "dead" /\ sending' = NoEvent
    /\ UNCHANGED <<pumpFrame, transcript, faults, ended_at>>

(***************************************************************************)
(* The rest of the finally block                                           *)
(***************************************************************************)
(* update_session_duration; a raise is logged. *)
StampDuration ==
    /\ handler = "stopped" /\ handler' = "stamped"
    /\ StoreWrites \/ (ended_at /\ StoreRaises)
    /\ UNCHANGED <<pipelineVars, pump, sending, transcript,
          ended_at, status, refine>>

(* _finish_session: ready, then the pass over the recording if there is one *)
(* to read and something was said.                                          *)
FinishSession ==
    /\ handler = "stamped" /\ handler' = "ended"
    /\ \/ status = "none" /\ StoreWrites /\ UNCHANGED <<status, refine>>
       \/ status = "recording" /\ StoreRaises /\ UNCHANGED <<status, refine>>
       \/ /\ status = "recording" /\ StoreWrites
          /\ status' = "ready"
          /\ refine' \in IF next_seq > 0 /\ ended_at THEN BOOLEAN ELSE {FALSE}
    /\ UNCHANGED <<pipelineVars, pump, sending, transcript, ended_at>>

-----------------------------------------------------------------------------
Pump == PumpStoreFirst \/ PumpSendFirst \/ PumpSend \/ PumpStore
Cleanup == Flushed \/ FlushTimeout \/ Linger \/ StampDuration \/ FinishSession

Ended == handler = "ended" /\ UNCHANGED vars

Next ==
    \/ PipelineNext /\ UNCHANGED sessionVars
    \/ Refuse \/ StartPipeline \/ OpenRecording \/ CreateRow
    \/ Audio \/ Pause \/ Stop \/ Disconnect
    \/ Pump \/ SendRaises \/ Cleanup \/ Ended

Spec == Init /\ [][Next]_vars

(* What lets a loop or the pump go on without a word from the client: each  *)
(* is what a step begins with, and leaves that step something to do.        *)
PumpReady == EventWaits \/ pump \in {"send", "store"}
AnswerReady ==
    \/ ~streaming /\ JobWaits
    \/ VadSpeaks("end") \/ FinalSpeaks \/ FinalFits
    \/ FinalWaits \/ TransSpeaks
    \/ ptrans.pc = "busy" \/ PartialTransSpeaks
VadReady ==
    \/ FrameWaits \/ PauseWaits \/ TakesStop
    \/ VadSpeaks("start") \/ (streaming /\ VadSpeaks("error"))
    \/ ~streaming /\ JobFits
    \/ (streaming /\ (PartialIsDue \/ EndpointIsDue))
    \/ PublishedAll

-----------------------------------------------------------------------------
(* A final is the last word on a segment: the partial loop is cancelled and *)
(* awaited before its segment is queued (pipeline.py:588), so no partial is *)
(* queued for the client after the final, nor written over it in the store. *)
FinalStays ==
    [][/\ \A s \in finalized, e \in Range(client_events') :
            e.seg = s /\ e.type = "partial" => e \in Range(client_events)
       /\ \A s \in Segs : rows[s] = "final" => rows'[s] = "final"]_vars

(* A client that has seen a final finds it when it fetches the session      *)
(* (ws.py:433), unless the write raised, which the pump only logs.          *)
SentFinalIsStored ==
    \A s \in seen \ unstored : rows[s] = "final"

(* Finals reach the client in the order the segments were spoken, so `the   *)
(* previous one' of the recogniser's and the translator's context is well   *)
(* defined (pipeline.py:189); only one that failed is missing.              *)
FinalsInOrder ==
    \A t \in seen : \A s \in 1..t - 1 :
        s \in seen \/ segs[s].fate \in {"failed", "dropped"}

(* Nothing falls between the loops: when the VAD loop has exited and the    *)
(* condition flush() polls holds, no segment is open or queued and every    *)
(* final has had its translation or its error (pipeline.py:271).  A stream  *)
(* whose own flush raised keeps its utterance open.                         *)
DrainedMeansAnswered ==
    VadDone /\ Drained =>
        \A s \in DOMAIN segs : segs[s].fate \in {"done", "failed", "dropped"}
                               \/ (streaming /\ segs[s].fate = "open")

(* When the whole-recording pass takes over, nothing of the live session    *)
(* writes to the transcript any more (ws.py:575).                           *)
NoLiveWriteAfterHandOver ==
    [][refine => UNCHANGED <<rows, ord, client_events, segs>>]_vars

Queued == {s \in DOMAIN segs : segs[s].fate = "queued"}

(* Everyone waits on everyone through four bounded queues, and yet, while   *)
(* the client reads, a queued segment never finds everyone who is to answer *)
(* it blocked, nor does flush() wait for loops of which none can go on      *)
(* (pipeline.py:247).                                                       *)
NeverStuck ==
    pump # "dead" =>
        /\ handler = "running" /\ Queued # {} => AnswerReady \/ PumpReady
        /\ handler = "flushing" /\ ~(VadDone /\ Drained) =>
              VadReady \/ AnswerReady \/ PumpReady

(* What was said reaches the client once and in the order it was said,      *)
(* whatever the length cap, the gaps and the queues do to it.               *)
EveryWordOnceInOrder ==
    /\ TypeOK
    /\ NothingDecodedTwice
    /\ FinalsInOrder

(* What was written to the transcript stays: no partial comes over a final, *)
(* and nothing at all once the recording is handed to the whole pass.       *)
WrittenStays ==
    /\ FinalStays
    /\ NoLiveWriteAfterHandOver

(* flush() can neither return early, with an utterance still between the    *)
(* loops, nor wait for loops that wait for one another (pipeline.py:257).   *)
FlushIsSound ==
    /\ DrainedMeansAnswered
    /\ NeverStuck
=============================================================================
