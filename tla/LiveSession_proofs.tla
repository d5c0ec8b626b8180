-------------------------- MODULE LiveSession_proofs --------------------------
(***************************************************************************)
(* The live transcript, for any lengths, queues and faults: a final that   *)
(* the client has seen is stored and stays, what was said comes once and in *)
(* its order, nothing is written once the recording is handed over, and    *)
(* flush() does not return with an utterance between the loops.            *)
(*                                                                         *)
(* PInv is about the pipeline: where a segment of each fate is on its way  *)
(* from the VAD loop to the client.  IInv follows it from the queue of     *)
(* events through the pump to the rows.  Words is about the audio: every   *)
(* frame is before all that comes behind it, from the segments through what *)
(* the VAD loop holds to the queue of frames.                              *)
(*                                                                         *)
(* Due is about waiting: whoever is blocked at a full queue waits for one   *)
(* who can go on.                                                           *)
(***************************************************************************)
EXTENDS LiveSession, SequenceTheorems, TLAPS

Ids == 1..Len(segs)
Said == {s \in Ids : segs[s].fate \in {"final", "done"}}
On == vad.pc # "off"
Holding == {"wait", "start", "rest", "put", "error", "exited"}
SegRec == [audio : Seq(Frames), fate : Fate]
Chunk == [seq : Frames, speech : BOOLEAN]
VadRec == [pc : VadPc, seg : Nat, quiet : Nat, tail : Seq(Frames), then : {"wait", "exit"}]
Heard == [text : Nat, sent : Nat, next : {"go", "end", "partial"}]

(* The loops are started and stopped together, and what a place of the VAD *)
(* or the stream loop implies.                                             *)
Together ==
    /\ stt.pc = "off" <=> ~On
    /\ trans.pc = "off" <=> ~On
    /\ ptrans.pc = "off" <=> ~On
    /\ partial => vad.pc = "wait" /\ vad.seg # NoSeg /\ ~streaming
    /\ vad.pc \in {"rest", "error", "publish"} => streaming
    /\ vad.pc = "put" => ~streaming
    /\ ~On => vad.seg = NoSeg /\ vad.tail = <<>> /\ stt_jobs = <<>> /\ final_events = <<>>
    /\ On /\ vad.seg = NoSeg => vad.pc \in {"wait", "rest", "error", "exited"}
    /\ vad.pc = "exited" /\ ~streaming => vad.seg = NoSeg
    /\ vad.pc = "rest" /\ utterance.next = "partial" => vad.seg # NoSeg

(* The open segment is the last one, and the one the VAD loop holds.       *)
OpenOne ==
    /\ vad.seg # NoSeg => vad.seg = Len(segs)
    /\ vad.seg # NoSeg /\ vad.pc \in Holding => segs[vad.seg].fate = "open"
    /\ vad.pc \in {"end", "publish"} => segs[vad.seg].fate # "open"
    /\ On => \A s \in Ids : segs[s].fate = "open" => s = vad.seg /\ vad.pc \in Holding

(* Closed segments wait for the recogniser in the order they were spoken.  *)
SttFlow ==
    /\ \A i \in 1..Len(stt_jobs) : stt_jobs[i] \in Ids /\ segs[stt_jobs[i]].fate = "queued"
    /\ \A i, k \in 1..Len(stt_jobs) : i < k => stt_jobs[i] < stt_jobs[k]
    /\ stt.pc = "busy" => /\ stt.seg \in Ids /\ segs[stt.seg].fate = "queued"
                          /\ \A i \in 1..Len(stt_jobs) : stt.seg < stt_jobs[i]
    /\ On => \A s \in Ids : segs[s].fate = "queued" =>
                \/ \E i \in 1..Len(stt_jobs) : stt_jobs[i] = s
                \/ stt.pc = "busy" /\ stt.seg = s
                \/ streaming /\ vad.pc = "end" /\ s = vad.seg
    /\ streaming => /\ stt_jobs = <<>>
                    /\ stt.pc \in {"busy", "queue"} => vad.pc = "publish"
                    /\ vad.pc = "end" => segs[vad.seg].fate = "queued"

(* What has a final is on its way to the translator or was answered, and    *)
(* whatever was spoken before it has been dealt with.                       *)
TransFlow ==
    /\ \A i \in 1..Len(final_events) : final_events[i] \in Said
    /\ stt.pc = "queue" => stt.seg \in Said
    /\ trans.pc = "busy" => trans.seg \in Said
    /\ finalized = Said
    /\ On => \A s \in Ids : segs[s].fate = "final" =>
                \/ \E i \in 1..Len(final_events) : final_events[i] = s
                \/ stt.pc = "queue" /\ stt.seg = s
                \/ trans.pc = "busy" /\ trans.seg = s
    /\ \A t \in Said : \A s \in 1..t - 1 : segs[s].fate \in {"final", "done", "failed", "dropped"}
    /\ ptrans.todo \subseteq Ids /\ (ptrans.pc \in {"busy", "blocked"} => ptrans.seg \in Ids)
    /\ partial_jobs \subseteq Ids

(* Finals are queued for the client in order, no partial behind its final. *)
Events ==
    /\ \A i \in 1..Len(client_events) :
          /\ client_events[i].type # "error" => client_events[i].seg \in Ids
          /\ client_events[i].type = "final" => client_events[i].seg \in Said
    /\ \A i, k \in 1..Len(client_events) : i < k /\ client_events[i].type = "final" =>
          /\ client_events[k].type = "final" => client_events[i].seg < client_events[k].seg
          /\ client_events[k].type = "partial" => client_events[i].seg # client_events[k].seg

(* Every segment has cost a frame of its own.                              *)
Count ==
    /\ streaming \/ vad.seg = NoSeg => Len(segs) + Len(audio_in) <= next_seq
    /\ ~streaming /\ vad.seg = NoSeg => vad.tail = <<>>
    /\ ~streaming /\ vad.seg # NoSeg =>
          /\ Len(segs[vad.seg].audio) > 0
          /\ Len(segs) + Len(audio_in) + Len(segs[vad.seg].audio) + Len(vad.tail) <= next_seq + 1

PInv == PipelineTypeOK /\ Together /\ OpenOne /\ SttFlow /\ TransFlow /\ Events /\ Count

(***************************************************************************)
(* The session.  First: what the pump holds.                               *)
(***************************************************************************)
Pumped ==
    /\ pump \in {"get", "off", "dead"} => sending = NoEvent
    /\ pump = "send" => IsRow(sending) /\ ~IsPartial(sending)
    /\ pump = "store" => IsPartial(sending)
    /\ sending.type # "error" => sending.seg \in Ids
    /\ sending.type = "final" =>
          /\ sending.seg \in Said
          /\ sending.seg \in unstored \/ rows[sending.seg] = "final"
          /\ \A i \in 1..Len(client_events) :
                client_events[i].type = "final" => sending.seg < client_events[i].seg

(* A final was sent, is in the pump or waits for it, in the order spoken.  *)
Sent ==
    /\ seen \subseteq Said
    /\ \A s \in seen :
          /\ \A i \in 1..Len(client_events) :
                client_events[i].type = "final" => s < client_events[i].seg
          /\ sending.type = "final" => s < sending.seg
    /\ On /\ pump # "dead" => \A s \in Said :
          \/ s \in seen
          \/ sending.type = "final" /\ sending.seg = s
          \/ \E i \in 1..Len(client_events) :
                client_events[i].type = "final" /\ client_events[i].seg = s

(* Behind the row of a final there is no partial that could go over it.    *)
Stored ==
    \A s \in Segs : rows[s] = "final" =>
        /\ s \in Said
        /\ \A i \in 1..Len(client_events) :
              client_events[i].type = "partial" => client_events[i].seg # s
        /\ sending.type = "partial" => sending.seg # s

(* The loops run and the pump runs as far as the handler has come.         *)
Closed ==
    /\ handler \in {"connecting", "stopped", "stamped", "ended"} <=> ~On
    /\ ~On => client_events = <<>> /\ ~partial
    /\ handler = "connecting" => segs = <<>>
    /\ pump = "off" <=> handler \in {"connecting", "built", "recorder", "stopped", "stamped", "ended"}
    /\ refine => handler = "ended"

IInv == PInv /\ TypeOK /\ Pumped /\ Sent /\ Stored /\ Closed /\ SentFinalIsStored /\ FinalsInOrder

-----------------------------------------------------------------------------
(* Queues and segments. *)
LEMMA AppendFacts ==
    ASSUME NEW S, NEW q \in Seq(S), NEW e \in S
    PROVE  /\ Append(q, e) \in Seq(S) /\ Len(Append(q, e)) = Len(q) + 1 /\ Len(q) \in Nat
           /\ Append(q, e)[Len(q) + 1] = e
           /\ \A i \in 1..Len(q) : Append(q, e)[i] = q[i]
OBVIOUS

LEMMA TailFacts ==
    ASSUME NEW S, NEW q \in Seq(S), q # <<>>
    PROVE  /\ Head(q) \in S /\ Head(q) = q[1] /\ Tail(q) \in Seq(S)
           /\ Len(q) \in Nat \ {0} /\ Len(Tail(q)) = Len(q) - 1
           /\ \A i \in 1..Len(Tail(q)) : Tail(q)[i] = q[i + 1]
BY HeadTailProperties, EmptySeq

LEMMA FateChange ==
    ASSUME NEW sq \in Seq(SegRec), NEW s \in 1..Len(sq), NEW f \in Fate
    PROVE  /\ [sq EXCEPT ![s].fate = f] \in Seq(SegRec)
           /\ Len([sq EXCEPT ![s].fate = f]) = Len(sq)
           /\ \A t \in 1..Len(sq) :
                /\ [sq EXCEPT ![s].fate = f][t].fate = IF t = s THEN f ELSE sq[t].fate
                /\ [sq EXCEPT ![s].fate = f][t].audio = sq[t].audio
<1> DEFINE r == [sq[s] EXCEPT !.fate = f]
<1>1. sq[s] \in SegRec
  OBVIOUS
<1>2. r \in SegRec /\ r.fate = f /\ r.audio = sq[s].audio
  BY <1>1 DEF SegRec
<1>3. [sq EXCEPT ![s].fate = f] = [sq EXCEPT ![s] = r]
  OBVIOUS
<1> HIDE DEF r
<1>. QED
  BY <1>2, <1>3, ExceptSeq

LEMMA AudioChange ==
    ASSUME NEW sq \in Seq(SegRec), NEW s \in 1..Len(sq), NEW a \in Seq(Frames)
    PROVE  /\ [sq EXCEPT ![s].audio = a] \in Seq(SegRec)
           /\ Len([sq EXCEPT ![s].audio = a]) = Len(sq)
           /\ \A t \in 1..Len(sq) :
                /\ [sq EXCEPT ![s].audio = a][t].audio = IF t = s THEN a ELSE sq[t].audio
                /\ [sq EXCEPT ![s].audio = a][t].fate = sq[t].fate
<1> DEFINE r == [sq[s] EXCEPT !.audio = a]
<1>1. sq[s] \in SegRec
  OBVIOUS
<1>2. r \in SegRec /\ r.audio = a /\ r.fate = sq[s].fate
  BY <1>1 DEF SegRec
<1> DEFINE new == [sq EXCEPT ![s].audio = a]
<1>3. new = [sq EXCEPT ![s] = r]
  OBVIOUS
<1> HIDE DEF r, new
<1>4. /\ new \in Seq(SegRec) /\ Len(new) = Len(sq)
      /\ \A t \in 1..Len(sq) : new[t] = IF t = s THEN r ELSE sq[t]
  BY <1>2, <1>3, ExceptSeq
<1>5. \A t \in 1..Len(sq) : new[t].audio = (IF t = s THEN a ELSE sq[t].audio)
                          /\ new[t].fate = sq[t].fate
  BY <1>2, <1>4
<1>. QED
  BY <1>4, <1>5 DEF new

LEMMA NewSegmentFacts ==
    ASSUME segs \in Seq(SegRec), NEW a \in Seq(Frames)
    PROVE  /\ NewSegment(a) \in Seq(SegRec) /\ Len(NewSegment(a)) = Len(segs) + 1
           /\ Len(segs) \in Nat
           /\ NewSegment(a)[Len(segs) + 1].fate = "open"
           /\ NewSegment(a)[Len(segs) + 1].audio = a
           /\ \A s \in Ids : NewSegment(a)[s] = segs[s]
<1> DEFINE r == [audio |-> a, fate |-> "open"]
<1>1. r \in SegRec /\ r.fate = "open" /\ r.audio = a
  BY DEF SegRec, Fate
<1>2. NewSegment(a) = Append(segs, r)
  BY DEF NewSegment
<1> HIDE DEF r
<1>. QED
  BY <1>1, <1>2, AppendFacts DEF Ids

-----------------------------------------------------------------------------
(* What a step of the pipeline shows the rest of the engine.               *)
Silently == client_events' = client_events /\ Said' = Said
Telling(e) ==
    /\ client_events' = Append(client_events, e) /\ Len(client_events) < ClientCap
    /\ e.type # "error" => e.seg \in Ids'
    /\ e.type = "partial" => e.seg \notin Said
    /\ e.type = "final" => Said' = Said \cup {e.seg} /\ \A t \in Said : t < e.seg
    /\ e.type # "final" => Said' = Said
Effect ==
    /\ On /\ On' /\ Ids \subseteq Ids' /\ segs' \in Seq(SegRec)
    /\ \A s \in Ids : segs[s].fate \in {"failed", "dropped"} => segs'[s].fate = segs[s].fate
    /\ Silently \/ \E e \in Event : Telling(e)

LEMMA EffectOnEvents ==
    ASSUME PInv, Effect
    PROVE  /\ Events' /\ client_events' \in Seq(Event) /\ Len(client_events') <= ClientCap
           /\ Said \subseteq Said'
<1>1. /\ client_events \in Seq(Event) /\ Len(client_events) <= ClientCap
      /\ Said \subseteq Ids /\ Ids \subseteq Nat
  BY DEF PInv, PipelineTypeOK, Said, Ids
<1>2. CASE Silently
  <2>1. /\ client_events' = client_events /\ Said' = Said /\ Ids \subseteq Ids'
    BY <1>2 DEF Silently, Effect
  <2>2. Events'
    <3>1. Events
      BY DEF PInv
    <3>. QED
      BY <2>1, <3>1 DEF Events
  <2>. QED
    BY <1>1, <2>1, <2>2
<1>3. ASSUME NEW e \in Event, Telling(e)
      PROVE  /\ Events' /\ client_events' \in Seq(Event) /\ Len(client_events') <= ClientCap
             /\ Said \subseteq Said'
  <2>1. /\ client_events' \in Seq(Event) /\ Len(client_events') = Len(client_events) + 1
        /\ client_events'[Len(client_events) + 1] = e /\ Len(client_events) \in Nat
        /\ \A i \in 1..Len(client_events) : client_events'[i] = client_events[i]
    BY <1>1, <1>3, AppendFacts DEF Telling
  <2>2. Said \subseteq Said' /\ e.type = "final" => e.seg \in Said'
    BY <1>3 DEF Telling
  <2>3. Said \subseteq Said'
    BY <1>3 DEF Telling
  <2>4. Len(client_events') <= ClientCap
    BY <1>3, <2>1, PipelineAssumption DEF Telling
  <2>5. ASSUME NEW i \in 1..Len(client_events')
        PROVE  /\ client_events'[i].type # "error" => client_events'[i].seg \in Ids'
               /\ client_events'[i].type = "final" => client_events'[i].seg \in Said'
    <3>1. CASE i = Len(client_events) + 1
      BY <1>3, <2>1, <2>2, <2>3, <3>1 DEF Telling
    <3>2. CASE i # Len(client_events) + 1
      <4>1. i \in 1..Len(client_events)
        BY <2>1, <3>2
      <4>. QED
        BY <2>1, <2>3, <4>1 DEF PInv, Events, Effect
    <3>. QED
      BY <3>1, <3>2
  <2>6. ASSUME NEW i \in 1..Len(client_events'), NEW k \in 1..Len(client_events'),
               i < k, client_events'[i].type = "final"
        PROVE  /\ client_events'[k].type = "final" => client_events'[i].seg < client_events'[k].seg
               /\ client_events'[k].type = "partial" => client_events'[i].seg # client_events'[k].seg
    <3>1. i \in 1..Len(client_events) /\ client_events'[i] = client_events[i]
      BY <2>1, <2>6
    <3>2. client_events[i].seg \in Said
      BY <2>6, <3>1 DEF PInv, Events
    <3>3. CASE k = Len(client_events) + 1
      BY <1>3, <2>1, <3>1, <3>2, <3>3 DEF Telling
    <3>4. CASE k # Len(client_events) + 1
      <4>1. k \in 1..Len(client_events) /\ client_events'[k] = client_events[k]
        BY <2>1, <3>4
      <4>. QED
        BY <2>6, <3>1, <4>1 DEF PInv, Events
    <3>. QED
      BY <3>3, <3>4
  <2>. QED
    BY <2>1, <2>3, <2>4, <2>5, <2>6 DEF Events
<1>. QED
  BY <1>2, <1>3 DEF Effect

-----------------------------------------------------------------------------
(* A step at the front of the pipeline: it may open a segment, and drop or  *)
(* queue the open one.                                                     *)
LEMMA BackKeeps ==
    ASSUME PInv, On, On', segs' \in Seq(SegRec), Len(segs) <= Len(segs'),
           \A s \in Ids : \/ segs'[s].fate = segs[s].fate
                          \/ segs[s].fate = "open" /\ segs'[s].fate \in {"dropped", "queued"},
           \A s \in Ids' : s \notin Ids => segs'[s].fate = "open",
           UNCHANGED <<trans, ptrans, final_events, finalized>>,
           UNCHANGED stt \/ (stt.pc # "queue" /\ stt'.pc # "queue"),
           partial_jobs' \subseteq Ids'
    PROVE  /\ TransFlow' /\ Said' = Said /\ Ids \subseteq Ids'
           /\ \A s \in Ids : segs[s].fate \in {"failed", "dropped"} => segs'[s].fate = segs[s].fate
<1>1. segs \in Seq(SegRec) /\ Len(segs) \in Nat /\ Len(segs') \in Nat
  BY DEF PInv, PipelineTypeOK, SegRec
<1>2. Ids \subseteq Ids' /\ Ids \subseteq Nat
  BY <1>1 DEF Ids
<1>3. Said' = Said
  BY <1>2 DEF Said
<1>5. TransFlow'
  <2>1. \A t \in Said : \A s \in 1..t - 1 : s \in Ids
    BY <1>1 DEF Said, Ids
  <2>2. \A t \in Said : \A s \in 1..t - 1 :
            segs'[s].fate \in {"final", "done", "failed", "dropped"}
    BY <2>1 DEF PInv, TransFlow
  <2>3. \A s \in Ids' : segs'[s].fate = "final" => s \in Ids /\ segs[s].fate = "final"
    OBVIOUS
  <2>4. stt'.pc = "queue" <=> stt.pc = "queue"
    OBVIOUS
  <2>5. stt.pc = "queue" => stt'.seg = stt.seg
    OBVIOUS
  <2>. QED
    BY <1>2, <1>3, <2>2, <2>3, <2>4, <2>5 DEF PInv, TransFlow
<1>. QED
  BY <1>2, <1>3, <1>5

(* If it opens or drops one, the recogniser has the same segments ahead.   *)
LEMMA SttKeeps ==
    ASSUME PInv, On, On', segs' \in Seq(SegRec), Len(segs) <= Len(segs'),
           \A s \in Ids : \/ segs'[s].fate = segs[s].fate
                          \/ segs[s].fate = "open" /\ segs'[s].fate = "dropped",
           \A s \in Ids' : s \notin Ids => segs'[s].fate = "open",
           UNCHANGED <<streaming, stt_jobs, stt>>,
           ~streaming \/ (vad.pc \notin {"end", "publish"} /\ vad'.pc \notin {"end", "publish"})
    PROVE  SttFlow'
<1>1. segs \in Seq(SegRec) /\ Len(segs) \in Nat /\ Len(segs') \in Nat
  BY DEF PInv, PipelineTypeOK, SegRec
<1>2. Ids \subseteq Ids' /\ Ids \subseteq Nat
  BY <1>1 DEF Ids
<1>3. streaming' = streaming /\ stt_jobs' = stt_jobs /\ stt' = stt
  OBVIOUS
<1>4. \A s \in Ids : segs[s].fate = "queued" => s \in Ids' /\ segs'[s].fate = "queued"
  BY <1>2
<1>5. \A s \in Ids' : segs'[s].fate = "queued" => s \in Ids /\ segs[s].fate = "queued"
  OBVIOUS
<1>6. \A i \in 1..Len(stt_jobs) : stt_jobs[i] \in Ids' /\ segs'[stt_jobs[i]].fate = "queued"
  BY <1>4 DEF PInv, SttFlow
<1>7. stt.pc = "busy" => stt.seg \in Ids' /\ segs'[stt.seg].fate = "queued"
  BY <1>4 DEF PInv, SttFlow
<1>8. streaming => /\ stt_jobs = <<>> /\ stt.pc \notin {"busy", "queue"}
                   /\ vad.pc # "end" /\ vad'.pc # "end"
  BY DEF PInv, SttFlow
<1>9. \A s \in Ids' : segs'[s].fate = "queued" =>
            (\E i \in 1..Len(stt_jobs) : stt_jobs[i] = s) \/ (stt.pc = "busy" /\ stt.seg = s)
  BY <1>5, <1>8 DEF PInv, SttFlow
<1>. QED
  BY <1>3, <1>6, <1>7, <1>8, <1>9 DEF PInv, SttFlow

(* What is left to show of such a step. *)
FrontFrame ==
    /\ UNCHANGED <<streaming, next_seq, trans, ptrans, final_events, finalized, stopping>>
    /\ partials' \in 0..MaxPartials /\ partial' \in BOOLEAN /\ force_close' \in BOOLEAN
    /\ latest_partial' \in {"none", "mid", "sentence"}
    /\ utterance' \in Heard
    /\ vad' \in VadRec /\ vad'.pc # "off"
    /\ audio_in' \in Seq(Chunk) /\ Len(audio_in') <= AudioCap
    /\ segs' \in Seq(SegRec)

LEMMA QueueStep ==
    ASSUME PInv, On, FrontFrame, Len(segs) <= Len(segs'),
           \A s \in Ids : \/ segs'[s].fate = segs[s].fate
                          \/ segs[s].fate = "open" /\ segs'[s].fate \in {"dropped", "queued"},
           \A s \in Ids' : s \notin Ids => segs'[s].fate = "open",
           UNCHANGED stt \/ (stt.pc # "queue" /\ stt'.pc # "queue"),
           stt' \in [pc : {"off", "get", "busy", "queue"}, seg : Nat],
           stt_jobs' \in Seq(Nat), Len(stt_jobs') <= SttCap,
           partial_jobs' \subseteq Ids',
           Together', OpenOne', SttFlow', Count',
           \/ UNCHANGED client_events
           \/ \E e \in Event : /\ client_events' = Append(client_events, e)
                               /\ Len(client_events) < ClientCap /\ e.type # "final"
                               /\ e.type # "error" => e.seg \in Ids'
                               /\ e.type = "partial" => e.seg \notin Said
    PROVE  PInv' /\ Effect
<1>1. UNCHANGED <<streaming, next_seq, trans, ptrans, final_events, finalized, stopping>>
  BY DEF FrontFrame
<1>2. On' /\ segs' \in Seq(SegRec) /\ streaming' = streaming
  BY <1>1 DEF FrontFrame, On
<1>3. /\ TransFlow' /\ Said' = Said /\ Ids \subseteq Ids'
      /\ \A s \in Ids : segs[s].fate \in {"failed", "dropped"} => segs'[s].fate = segs[s].fate
  BY <1>1, <1>2, BackKeeps
<1>4. Silently \/ \E e \in Event : Telling(e)
  BY <1>3 DEF Silently, Telling
<1>5. Effect
  BY <1>2, <1>3, <1>4 DEF Effect
<1>6. Events' /\ client_events' \in Seq(Event) /\ Len(client_events') <= ClientCap
  BY <1>5, EffectOnEvents
<1>7. finalized' \subseteq DOMAIN segs' /\ partial_jobs' \subseteq DOMAIN segs'
  <2>1. finalized' \subseteq Ids' /\ DOMAIN segs' = Ids'
    BY <1>2, <1>3 DEF TransFlow, Said, Ids
  <2>. QED
    BY <2>1
<1>8. PipelineTypeOK'
  BY <1>1, <1>6, <1>7 DEF PInv, PipelineTypeOK, FrontFrame, VadRec, Heard, Chunk, SegRec
<1>. QED
  BY <1>3, <1>5, <1>6, <1>8 DEF PInv

LEMMA FrontStep ==
    ASSUME PInv, On, FrontFrame, Len(segs) <= Len(segs'),
           \A s \in Ids : \/ segs'[s].fate = segs[s].fate
                          \/ segs[s].fate = "open" /\ segs'[s].fate = "dropped",
           \A s \in Ids' : s \notin Ids => segs'[s].fate = "open",
           UNCHANGED <<stt, stt_jobs>>, partial_jobs' \subseteq Ids',
           ~streaming \/ (vad.pc \notin {"end", "publish"} /\ vad'.pc \notin {"end", "publish"}),
           Together', OpenOne', Count',
           \/ UNCHANGED client_events
           \/ \E e \in Event : /\ client_events' = Append(client_events, e)
                               /\ Len(client_events) < ClientCap /\ e.type # "final"
                               /\ e.type # "error" => e.seg \in Ids'
                               /\ e.type = "partial" => e.seg \notin Said
    PROVE  PInv' /\ Effect
<1>1. On' /\ segs' \in Seq(SegRec) /\ streaming' = streaming
  BY DEF FrontFrame, On
<1>2. SttFlow'
  BY <1>1, SttKeeps
<1>3. /\ stt' \in [pc : {"off", "get", "busy", "queue"}, seg : Nat]
      /\ stt_jobs' \in Seq(Nat) /\ Len(stt_jobs') <= SttCap
  BY DEF PInv, PipelineTypeOK
<1>4. \A s \in Ids : \/ segs'[s].fate = segs[s].fate
                     \/ segs[s].fate = "open" /\ segs'[s].fate \in {"dropped", "queued"}
  OBVIOUS
<1>. QED
  BY <1>1, <1>2, <1>3, <1>4, QueueStep

LEMMA Types ==
    ASSUME PInv
    PROVE  /\ segs \in Seq(SegRec) /\ Len(segs) \in Nat /\ DOMAIN segs = Ids
           /\ vad \in VadRec /\ utterance \in Heard
           /\ vad.tail \in Seq(Frames) /\ vad.seg \in Nat /\ vad.quiet \in Nat
           /\ audio_in \in Seq(Chunk) /\ Len(audio_in) <= AudioCap /\ Len(audio_in) \in Nat
           /\ partials \in 0..MaxPartials /\ partial \in BOOLEAN /\ streaming \in BOOLEAN
           /\ stopping \in BOOLEAN /\ force_close \in BOOLEAN
           /\ latest_partial \in {"none", "mid", "sentence"}
           /\ next_seq \in Nat /\ AudioCap \in Nat
           /\ client_events \in Seq(Event) /\ stt_jobs \in Seq(Nat) /\ final_events \in Seq(Nat)
           /\ \A s \in Ids : segs[s] \in SegRec /\ segs[s].audio \in Seq(Frames)
                             /\ segs[s].fate \in Fate
           /\ vad.seg # NoSeg => vad.seg \in Ids
<1>1. segs \in Seq(SegRec) /\ vad \in VadRec /\ utterance \in Heard /\ audio_in \in Seq(Chunk)
  BY DEF PInv, PipelineTypeOK, SegRec, VadRec, Heard, Chunk
<1>2. /\ Len(audio_in) <= AudioCap /\ partials \in 0..MaxPartials /\ partial \in BOOLEAN
      /\ streaming \in BOOLEAN /\ stopping \in BOOLEAN /\ force_close \in BOOLEAN
      /\ latest_partial \in {"none", "mid", "sentence"} /\ next_seq \in Nat
      /\ client_events \in Seq(Event) /\ stt_jobs \in Seq(Nat) /\ final_events \in Seq(Nat)
  BY DEF PInv, PipelineTypeOK
<1>3. AudioCap \in Nat
  BY PipelineAssumption
<1>4. \A s \in Ids : segs[s] \in SegRec
  BY <1>1 DEF Ids
<1>5. vad.seg \in Nat /\ vad.tail \in Seq(Frames) /\ vad.quiet \in Nat
  BY <1>1 DEF VadRec
<1>6. vad.seg # NoSeg => vad.seg \in Ids
  BY <1>1, <1>5 DEF PInv, OpenOne, Ids, NoSeg
<1>. QED
  BY <1>1, <1>2, <1>3, <1>4, <1>5, <1>6 DEF SegRec, Ids

(* A frame is taken. *)
LEMMA FrameTaken ==
    ASSUME PInv, TakesFrame
    PROVE  /\ vad.pc = "wait" /\ On /\ Head(audio_in) \in Chunk /\ Head(audio_in).seq \in Frames
           /\ audio_in' \in Seq(Chunk) /\ Len(audio_in') + 1 = Len(audio_in)
           /\ Len(audio_in') \in Nat /\ Len(audio_in') <= AudioCap
<1>1. vad.pc = "wait" /\ audio_in # <<>> /\ audio_in' = Tail(audio_in)
  BY DEF TakesFrame, FrameWaits
<1>2. audio_in \in Seq(Chunk) /\ Len(audio_in) <= AudioCap /\ AudioCap \in Nat
  BY Types
<1>3. /\ Head(audio_in) \in Chunk /\ audio_in' \in Seq(Chunk)
      /\ Len(audio_in) \in Nat \ {0} /\ Len(audio_in') = Len(audio_in) - 1
  BY <1>1, <1>2, TailFacts
<1>. QED
  BY <1>1, <1>2, <1>3 DEF Chunk, On

(* The VAD loop opens the next segment. *)
LEMMA OpensNext ==
    ASSUME PInv, NEW a \in Seq(Frames), segs' = NewSegment(a)
    PROVE  /\ segs' \in Seq(SegRec) /\ Len(segs') = Len(segs) + 1 /\ Len(segs) \in Nat
           /\ Len(segs') \in Nat /\ Len(segs) <= Len(segs')
           /\ segs'[Len(segs')].fate = "open" /\ segs'[Len(segs')].audio = a
           /\ Ids \subseteq Ids' /\ Len(segs') \in Ids' /\ Len(segs') # NoSeg
           /\ \A s \in Ids : segs'[s] = segs[s]
           /\ \A s \in Ids' : s \notin Ids => s = Len(segs')
<1>1. segs \in Seq(SegRec)
  BY Types
<1>. QED
  BY <1>1, NewSegmentFacts DEF Ids, NoSeg

(* CloseSegment: the open segment keeps head, and waits to be queued.      *)
LEMMA Closes ==
    ASSUME PInv, ~streaming, vad.pc = "wait", vad.seg # NoSeg,
           NEW head \in Seq(Frames), NEW tail \in Seq(Frames), NEW then \in {"wait", "exit"},
           CloseSegment(head, tail, then), Len(head) > 0, UNCHANGED vadFrame,
           audio_in' \in Seq(Chunk), Len(audio_in') <= AudioCap, force_close' \in BOOLEAN,
           Len(audio_in') + Len(head) + Len(tail) <= Len(audio_in) + Len(segs[vad.seg].audio)
    PROVE  PInv' /\ Effect
<1>0. UNCHANGED <<streaming, next_seq, stt_jobs, final_events, client_events, stopping,
                  utterance, partials, stt, trans, ptrans, partial_jobs, finalized>>
  BY DEF vadFrame
<1>1. /\ partial' = FALSE /\ latest_partial' = "none"
      /\ segs' = [segs EXCEPT ![vad.seg].audio = head]
      /\ vad' = [vad EXCEPT !.pc = "put", !.tail = tail, !.then = then, !.quiet = 0]
  BY DEF CloseSegment
<1>2. /\ segs \in Seq(SegRec) /\ vad.seg \in 1..Len(segs) /\ Len(segs) \in Nat
      /\ vad \in VadRec /\ vad.seg \in Ids /\ Len(audio_in) \in Nat /\ next_seq \in Nat
      /\ segs[vad.seg].audio \in Seq(Frames) /\ On
  BY Types DEF Ids, On
<1>3. /\ segs' \in Seq(SegRec) /\ Len(segs') = Len(segs)
      /\ \A s \in Ids : /\ segs'[s].audio = IF s = vad.seg THEN head ELSE segs[s].audio
                        /\ segs'[s].fate = segs[s].fate
  BY <1>1, <1>2, AudioChange DEF Ids
<1>4. /\ vad' \in VadRec /\ vad'.pc = "put" /\ vad'.tail = tail /\ vad'.seg = vad.seg
  <2>1. "put" \in VadPc /\ 0 \in Nat
    BY DEF VadPc
  <2>. QED
    BY <1>1, <1>2, <2>1 DEF VadRec
<1>5. Ids' = Ids
  BY <1>3 DEF Ids
<1>6. FrontFrame
  BY <1>0, <1>1, <1>3, <1>4, Types DEF FrontFrame
<1>7. Together'
  BY <1>0, <1>1, <1>2, <1>4 DEF PInv, Together, On
<1>8. OpenOne'
  BY <1>2, <1>3, <1>4, <1>5 DEF PInv, OpenOne, On, Holding
<1>9. Count'
  <2>1. Len(segs) + Len(audio_in) + Len(segs[vad.seg].audio) + Len(vad.tail) <= next_seq + 1
    BY <1>2 DEF PInv, Count
  <2>2. Len(vad.tail) \in Nat /\ Len(tail) \in Nat /\ Len(head) \in Nat /\ Len(audio_in') \in Nat
        /\ Len(segs[vad.seg].audio) \in Nat
    <3>1. vad.tail \in Seq(Frames) /\ segs[vad.seg].audio \in Seq(Frames)
      BY <1>2, Types
    <3>. QED
      BY <3>1, LenProperties
  <2>3. segs'[vad.seg].audio = head
    BY <1>2, <1>3
  <2>4. Len(segs') + Len(audio_in') + Len(head) + Len(tail) <= next_seq + 1
    <3>1. Len(segs') = Len(segs) /\ Len(segs) \in Nat /\ Len(audio_in) \in Nat /\ next_seq \in Nat
      BY <1>2, <1>3
    <3>2. Len(audio_in') + Len(head) + Len(tail) <= Len(audio_in) + Len(segs[vad.seg].audio)
      OBVIOUS
    <3> DEFINE a == Len(audio_in)
               b == Len(audio_in')
               h == Len(head)
               t == Len(tail)
               x == Len(segs[vad.seg].audio)
               y == Len(vad.tail)
               n == Len(segs)
    <3>3. a \in Nat /\ b \in Nat /\ h \in Nat /\ t \in Nat /\ x \in Nat /\ y \in Nat /\ n \in Nat
      BY <2>2, <3>1
    <3>4. n + a + x + y <= next_seq + 1 /\ b + h + t <= a + x
      BY <2>1, <3>2
    <3>5. Len(segs') = n
      BY <3>1
    <3> HIDE DEF a, b, h, t, x, y, n
    <3>6. n + b + h + t <= next_seq + 1
      BY <3>1, <3>3, <3>4
    <3>. QED
      BY <3>5, <3>6 DEF b, h, t
  <2>. QED
    BY <1>0, <1>4, <2>3, <2>4 DEF Count
<1>10. partial_jobs' \subseteq Ids'
  BY <1>0, <1>5 DEF PInv, TransFlow
<1>. QED
  BY <1>0, <1>2, <1>3, <1>5, <1>6, <1>7, <1>8, <1>9, <1>10, FrontStep

(* The frame joins the open segment. *)
LEMMA Grows ==
    ASSUME PInv, ~streaming, TakesFrame, vad.seg # NoSeg, NEW quiet \in Nat,
           NEW grown \in Seq(Frames), Len(grown) = Len(segs[vad.seg].audio) + 1,
           segs' = [segs EXCEPT ![vad.seg].audio = grown],
           vad' = [vad EXCEPT !.quiet = quiet],
           UNCHANGED <<vadFrame, force_close, partial, latest_partial>>
    PROVE  PInv' /\ Effect
<1> DEFINE audio == segs[vad.seg].audio
<1>0. UNCHANGED <<streaming, next_seq, stt_jobs, final_events, client_events, stopping,
                  utterance, partials, stt, trans, ptrans, partial_jobs, finalized>>
  BY DEF vadFrame
<1>1. /\ vad.pc = "wait" /\ On /\ Head(audio_in).seq \in Frames
      /\ audio_in' \in Seq(Chunk) /\ Len(audio_in') + 1 = Len(audio_in)
      /\ Len(audio_in') \in Nat /\ Len(audio_in') <= AudioCap
  BY FrameTaken
<1>2. /\ segs \in Seq(SegRec) /\ vad.seg \in 1..Len(segs) /\ Len(segs) \in Nat
      /\ vad \in VadRec /\ vad.seg \in Ids /\ next_seq \in Nat
      /\ segs[vad.seg].audio \in Seq(Frames) /\ vad.tail \in Seq(Frames)
  BY Types DEF Ids
<1>3. grown \in Seq(Frames) /\ Len(grown) = Len(audio) + 1 /\ Len(audio) \in Nat
  BY <1>2
<1>4. /\ segs' \in Seq(SegRec) /\ Len(segs') = Len(segs) /\ Ids' = Ids
      /\ \A s \in Ids : /\ segs'[s].audio = IF s = vad.seg THEN grown ELSE segs[s].audio
                        /\ segs'[s].fate = segs[s].fate
  BY <1>2, AudioChange DEF Ids
<1>5. vad' \in VadRec /\ vad'.pc = "wait" /\ vad'.tail = vad.tail /\ vad'.seg = vad.seg
  BY <1>1, <1>2 DEF VadRec
<1>6. FrontFrame
  BY <1>0, <1>1, <1>4, <1>5, Types DEF FrontFrame
<1>7. Together'
  BY <1>0, <1>1, <1>5 DEF PInv, Together, On
<1>8. OpenOne'
  BY <1>1, <1>2, <1>4, <1>5 DEF PInv, OpenOne, On
<1>9. Count'
  <2> DEFINE x == Len(audio)
             y == Len(vad.tail)
  <2>1. Len(segs) + Len(audio_in) + x + y <= next_seq + 1
    <3>1. ~streaming /\ vad.seg # NoSeg /\ Count
      BY DEF PInv
    <3>. QED
      BY <3>1 DEF Count
  <2>2. segs'[vad.seg].audio = grown
    BY <1>2, <1>4
  <2>3. y \in Nat
    BY <1>2
  <2> HIDE DEF x, y, audio
  <2>4. x = Len(audio)
    BY DEF x
  <2>5. Len(segs') + Len(audio_in') + (x + 1) + y <= next_seq + 1
    BY <1>1, <1>2, <1>3, <1>4, <2>1, <2>3, <2>4
  <2>6. Len(grown) = x + 1 /\ Len(grown) > 0
    BY <1>3, <2>4
  <2>7. Len(vad'.tail) = y
    BY <1>5 DEF y
  <2>. QED
    BY <1>0, <1>5, <2>2, <2>5, <2>6, <2>7 DEF Count
<1>10. partial_jobs' \subseteq Ids'
  BY <1>0, <1>4 DEF PInv, TransFlow
<1>. QED
  BY <1>0, <1>1, <1>2, <1>4, <1>5, <1>6, <1>7, <1>8, <1>9, <1>10, FrontStep

(* Nothing but frames and signals are taken, and the loop may exit. *)
LEMMA Passes ==
    ASSUME PInv, ~streaming, vad.pc = "wait",
           UNCHANGED <<vadFrame, partial, latest_partial, segs>>,
           \/ UNCHANGED vad
           \/ vad.seg = NoSeg /\ vad' = [vad EXCEPT !.pc = "exited"] /\ ~partial,
           audio_in' \in Seq(Chunk), Len(audio_in') <= Len(audio_in), force_close' \in BOOLEAN
    PROVE  PInv' /\ Effect
<1>0. UNCHANGED <<streaming, next_seq, stt_jobs, final_events, client_events, stopping,
                  utterance, partials, stt, trans, ptrans, partial_jobs, finalized>>
  BY DEF vadFrame
<1>1. /\ segs \in Seq(SegRec) /\ Len(segs) \in Nat /\ vad \in VadRec /\ next_seq \in Nat
      /\ Len(audio_in) \in Nat /\ Len(audio_in') \in Nat /\ Ids' = Ids /\ On
      /\ AudioCap \in Nat /\ Len(audio_in) <= AudioCap
  BY Types DEF Ids, On
<1>2. vad' \in VadRec /\ vad'.tail = vad.tail /\ vad'.seg = vad.seg
      /\ vad'.pc \in {"wait", "exited"} /\ (vad'.pc = "exited" => vad.seg = NoSeg /\ ~partial)
  <2>1. "exited" \in VadPc
    BY DEF VadPc
  <2>. QED
    BY <1>1, <2>1 DEF VadRec
<1>6. FrontFrame
  BY <1>0, <1>1, <1>2, Types DEF FrontFrame
<1>7. Together'
  BY <1>0, <1>1, <1>2 DEF PInv, Together, On
<1>8. OpenOne'
  BY <1>1, <1>2 DEF PInv, OpenOne, On, Holding
<1>9. Count'
  <2>1. CASE vad.seg = NoSeg
    BY <1>0, <1>1, <1>2, <2>1 DEF PInv, Count
  <2>2. CASE vad.seg # NoSeg
    <3> DEFINE x == Len(segs[vad.seg].audio)
               y == Len(vad.tail)
    <3>1. Len(segs) + Len(audio_in) + x + y <= next_seq + 1 /\ x > 0
      BY <1>1, <2>2 DEF PInv, Count
    <3>2. x \in Nat /\ y \in Nat
      BY <2>2, Types
    <3>3. x' = x /\ y' = y
      BY <1>2
    <3> HIDE DEF x, y
    <3>4. Len(segs) + Len(audio_in') + x + y <= next_seq + 1
      BY <1>1, <3>1, <3>2
    <3>. QED
      BY <1>0, <1>1, <1>2, <2>2, <3>1, <3>3, <3>4 DEF Count, x, y
  <2>. QED
    BY <2>1, <2>2
<1>10. partial_jobs' \subseteq Ids'
  BY <1>0, <1>1 DEF PInv, TransFlow
<1>. QED
  BY <1>0, <1>1, <1>2, <1>6, <1>7, <1>8, <1>9, <1>10, FrontStep

(* The open segment and the frame, as CloseSegment and Grows want them. *)
LEMMA GrownFacts ==
    ASSUME PInv, ~streaming, TakesFrame, vad.seg # NoSeg
    PROVE  LET grown == Append(segs[vad.seg].audio, Head(audio_in).seq)
           IN /\ grown \in Seq(Frames) /\ Len(grown) = Len(segs[vad.seg].audio) + 1
              /\ Len(grown) \in Nat \ {0} /\ Len(segs[vad.seg].audio) \in Nat \ {0}
              /\ segs[vad.seg].audio \in Seq(Frames)
<1>1. segs[vad.seg].audio \in Seq(Frames) /\ Head(audio_in).seq \in Frames
  BY Types, FrameTaken
<1>2. Len(segs[vad.seg].audio) > 0
  BY DEF PInv, Count
<1>. QED
  BY <1>1, <1>2, AppendFacts

(* The VAD loop opens a segment when none is open, with audio of its own.   *)
LEMMA OpensSegment ==
    ASSUME PInv, ~streaming, On, NEW a \in Seq(Frames), Len(a) > 0, segs' = NewSegment(a),
           vad' \in VadRec, vad'.pc = "start", vad'.seg = Len(segs'), vad'.tail = <<>>,
           vad.seg = NoSeg \/ vad.pc = "end", ~partial,
           UNCHANGED <<streaming, next_seq, stt_jobs, final_events, stopping, force_close,
                       utterance, partials, partial, latest_partial, stt, trans, ptrans,
                       partial_jobs, finalized>>,
           audio_in' \in Seq(Chunk), Len(audio_in') <= AudioCap,
           Len(segs) + Len(audio_in') + Len(a) <= next_seq,
           \/ UNCHANGED client_events
           \/ \E e \in Event : /\ client_events' = Append(client_events, e)
                               /\ Len(client_events) < ClientCap
                               /\ e.type = "speech_end" /\ e.seg \in Ids
    PROVE  PInv' /\ Effect
<1>1. /\ segs' \in Seq(SegRec) /\ Len(segs') = Len(segs) + 1 /\ Len(segs) \in Nat
      /\ Len(segs') \in Nat /\ Len(segs) <= Len(segs')
      /\ segs'[Len(segs')].fate = "open" /\ segs'[Len(segs')].audio = a
      /\ Ids \subseteq Ids' /\ Len(segs') \in Ids' /\ Len(segs') # NoSeg
      /\ \A s \in Ids : segs'[s] = segs[s]
      /\ \A s \in Ids' : s \notin Ids => s = Len(segs')
  BY OpensNext
<1>2. FrontFrame
  BY <1>1, Types DEF FrontFrame
<1>3. Together'
  BY <1>1 DEF PInv, Together, On
<1>4. OpenOne'
  <2>1. \A s \in Ids : segs[s].fate # "open"
    BY DEF PInv, OpenOne, Holding, Ids, NoSeg
  <2>2. \A s \in Ids' : segs'[s].fate = "open" => s = vad'.seg
    BY <1>1, <2>1
  <2>. QED
    BY <1>1, <2>2 DEF OpenOne, Holding
<1>5. Count'
  <2>1. Len(a) \in Nat /\ Len(audio_in') \in Nat /\ next_seq \in Nat
    BY Types
  <2>2. Len(segs') + Len(audio_in') + Len(a) + 0 <= next_seq + 1
    BY <1>1, <2>1
  <2>3. Len(vad'.tail) = 0 /\ segs'[vad'.seg].audio = a /\ vad'.seg # NoSeg
    BY <1>1
  <2>. QED
    BY <2>2, <2>3 DEF Count
<1>6. partial_jobs' \subseteq Ids'
  BY <1>1 DEF PInv, TransFlow
<1>7. \/ UNCHANGED client_events
      \/ \E e \in Event : /\ client_events' = Append(client_events, e)
                          /\ Len(client_events) < ClientCap /\ e.type # "final"
                          /\ e.type # "error" => e.seg \in Ids'
                          /\ e.type = "partial" => e.seg \notin Said
  BY <1>1
<1>. QED
  BY <1>1, <1>2, <1>3, <1>4, <1>5, <1>6, <1>7, FrontStep

LEMMA VadFrameKeeps ==
    ASSUME PInv, VadError \/ VadSpeech \/ VadSilence
    PROVE  PInv' /\ Effect
<1>0. ~streaming /\ TakesFrame /\ UNCHANGED vadFrame /\ force_close' = force_close
  BY DEF VadError, VadSpeech, VadSilence
<1>1. /\ vad.pc = "wait" /\ On /\ Head(audio_in).seq \in Frames
      /\ audio_in' \in Seq(Chunk) /\ Len(audio_in') + 1 = Len(audio_in)
      /\ Len(audio_in') \in Nat /\ Len(audio_in') <= AudioCap
      /\ force_close' \in BOOLEAN /\ Len(audio_in') <= Len(audio_in)
  BY <1>0, FrameTaken, Types
<1>2. CASE UNCHANGED <<vad, partial, latest_partial, segs>>
  BY <1>0, <1>1, <1>2, Passes
<1>3. CASE VadSpeech /\ vad.seg = NoSeg
  <2> DEFINE frame == <<Head(audio_in).seq>>
  <2>1. /\ segs' = NewSegment(frame) /\ UNCHANGED <<partial, latest_partial>>
        /\ vad' = [vad EXCEPT !.pc = "start", !.seg = Len(segs'), !.quiet = 0]
    BY <1>3 DEF VadSpeech
  <2>2. frame \in Seq(Frames) /\ Len(frame) = 1
    BY <1>1
  <2> HIDE DEF frame
  <2>3. /\ segs' \in Seq(SegRec) /\ Len(segs') = Len(segs) + 1 /\ Len(segs) \in Nat
        /\ Len(segs') \in Nat /\ Len(segs) <= Len(segs')
        /\ segs'[Len(segs')].fate = "open" /\ segs'[Len(segs')].audio = frame
        /\ Ids \subseteq Ids' /\ Len(segs') \in Ids' /\ Len(segs') # NoSeg
        /\ \A s \in Ids : segs'[s] = segs[s]
        /\ \A s \in Ids' : s \notin Ids => s = Len(segs')
    BY <2>1, <2>2, OpensNext
  <2>4. /\ vad' \in VadRec /\ vad'.pc = "start" /\ vad'.seg = Len(segs') /\ vad'.tail = vad.tail
    <3>1. "start" \in VadPc /\ 0 \in Nat /\ vad \in VadRec
      BY Types DEF VadPc
    <3> DEFINE n == Len(segs')
    <3>2. n \in Nat /\ vad' = [vad EXCEPT !.pc = "start", !.seg = n, !.quiet = 0]
      BY <2>1, <2>3
    <3> HIDE DEF n
    <3>3. vad' \in VadRec /\ vad'.pc = "start" /\ vad'.seg = n /\ vad'.tail = vad.tail
      BY <3>1, <3>2 DEF VadRec
    <3>. QED
      BY <3>3 DEF n
  <2>5. ~partial /\ vad.tail = <<>> /\ Len(segs) + Len(audio_in) <= next_seq
    BY <1>0, <1>3 DEF PInv, Together, Count
  <2>6. Len(segs) + Len(audio_in') + Len(frame) <= next_seq
    BY <1>1, <2>2, <2>3, <2>5, Types
  <2>7. /\ UNCHANGED <<streaming, next_seq, stt_jobs, final_events, stopping, force_close,
                       utterance, partials, partial, latest_partial, stt, trans, ptrans,
                       partial_jobs, finalized>>
        /\ UNCHANGED client_events
    BY <1>0, <2>1 DEF vadFrame
  <2>8. Len(frame) > 0 /\ vad'.tail = <<>>
    BY <2>2, <2>4, <2>5
  <2>. QED
    BY <1>0, <1>1, <1>3, <2>1, <2>2, <2>4, <2>5, <2>6, <2>7, <2>8, OpensSegment
<1> DEFINE grown == Append(segs[vad.seg].audio, Head(audio_in).seq)
<1>4. vad.seg # NoSeg => /\ grown \in Seq(Frames) /\ Len(grown) = Len(segs[vad.seg].audio) + 1
                         /\ Len(grown) \in Nat \ {0} /\ segs[vad.seg].audio \in Seq(Frames)
  BY <1>0, GrownFacts
<1> HIDE DEF grown
<1>5. ASSUME vad.seg # NoSeg, NEW quiet \in Nat, segs' = [segs EXCEPT ![vad.seg].audio = grown],
             vad' = [vad EXCEPT !.quiet = quiet], UNCHANGED <<partial, latest_partial>>
      PROVE  PInv' /\ Effect
  BY <1>0, <1>4, <1>5, Grows
<1>6. ASSUME vad.seg # NoSeg, NEW head \in Seq(Frames), NEW tail \in Seq(Frames),
             CloseSegment(head, tail, "wait"), Len(head) > 0, Len(head) + Len(tail) = Len(grown)
      PROVE  PInv' /\ Effect
  <2>1. Len(audio_in') + Len(head) + Len(tail) <= Len(audio_in) + Len(segs[vad.seg].audio)
    <3>1. Len(head) \in Nat /\ Len(tail) \in Nat /\ Len(segs[vad.seg].audio) \in Nat
      BY <1>4, <1>6
    <3>. QED
      BY <1>1, <1>4, <1>6, <3>1
  <2>. QED
    BY <1>0, <1>1, <1>6, <2>1, Closes
<1>7. CASE VadSpeech /\ vad.seg # NoSeg
  <2>1. CASE segs' = [segs EXCEPT ![vad.seg].audio = grown] /\ vad' = [vad EXCEPT !.quiet = 0]
             /\ UNCHANGED <<partial, latest_partial>>
    BY <1>5, <1>7, <2>1
  <2>2. ASSUME NEW cut \in 1..Len(grown),
               CloseSegment(SubSeq(grown, 1, cut), SubSeq(grown, cut + 1, Len(grown)), "wait")
        PROVE  PInv' /\ Effect
    <3> DEFINE head == SubSeq(grown, 1, cut)
               tail == SubSeq(grown, cut + 1, Len(grown))
    <3>1. grown \in Seq(Frames) /\ Len(grown) \in Nat
      BY <1>4, <1>7
    <3>2. head \in Seq(Frames) /\ Len(head) = cut
      BY <2>2, <3>1
    <3>3. tail \in Seq(Frames) /\ Len(tail) = Len(grown) - cut
      BY <2>2, <3>1
    <3>4. CloseSegment(head, tail, "wait")
      BY <2>2
    <3> HIDE DEF head, tail
    <3>5. Len(head) > 0 /\ Len(head) + Len(tail) = Len(grown)
      BY <3>1, <3>2, <3>3
    <3>. QED
      BY <1>6, <1>7, <3>2, <3>3, <3>4, <3>5
  <2>. QED
    BY <1>7, <2>1, <2>2 DEF VadSpeech, grown
<1>8. CASE VadSilence /\ vad.seg # NoSeg
  <2>1. CASE CloseSegment(grown, <<>>, "wait")
    <3>1. <<>> \in Seq(Frames) /\ Len(<<>>) = 0 /\ Len(grown) + Len(<<>>) = Len(grown) /\ Len(grown) > 0
      BY <1>4, <1>8
    <3>. QED
      BY <1>4, <1>6, <1>8, <2>1, <3>1
  <2>2. CASE segs' = [segs EXCEPT ![vad.seg].audio = grown] /\ vad' = [vad EXCEPT !.quiet = @ + 1]
             /\ UNCHANGED <<partial, latest_partial>>
    <3>1. vad.quiet + 1 \in Nat
      BY Types
    <3>. QED
      BY <1>5, <1>8, <2>2, <3>1
  <2>. QED
    BY <1>8, <2>1, <2>2 DEF VadSilence, grown
<1>. QED
  BY <1>0, <1>2, <1>3, <1>7, <1>8 DEF VadError, VadSilence

(* A pause, or the way out: the open segment is closed as it is. *)
LEMMA VadFlushKeeps ==
    ASSUME PInv, VadPause \/ VadStop
    PROVE  PInv' /\ Effect
<1>1. /\ ~streaming /\ UNCHANGED <<vadFrame, audio_in>> /\ vad.pc = "wait"
      /\ force_close' \in BOOLEAN
  BY Types DEF VadPause, VadStop, TakesPause, TakesStop, PauseWaits
<1>2. audio_in' \in Seq(Chunk) /\ Len(audio_in') <= AudioCap /\ Len(audio_in') <= Len(audio_in)
  BY <1>1, Types
<1>3. CASE vad.seg = NoSeg
  <2>1. UNCHANGED <<vad, partial, latest_partial, segs>>
        \/ (vad' = [vad EXCEPT !.pc = "exited"] /\ UNCHANGED <<partial, latest_partial, segs>>)
    BY <1>3 DEF VadPause, VadStop
  <2>2. ~partial
    BY <1>3 DEF PInv, Together
  <2>. QED
    BY <1>1, <1>2, <1>3, <2>1, <2>2, Passes
<1>4. CASE vad.seg # NoSeg
  <2> DEFINE head == segs[vad.seg].audio
  <2>1. head \in Seq(Frames) /\ Len(head) > 0 /\ <<>> \in Seq(Frames) /\ Len(<<>>) = 0
    <3>1. head \in Seq(Frames)
      BY <1>4, Types
    <3>2. Len(head) > 0
      BY <1>1, <1>4 DEF PInv, Count
    <3>. QED
      BY <3>1, <3>2
  <2>2. CloseSegment(head, <<>>, "wait") \/ CloseSegment(head, <<>>, "exit")
    BY <1>4 DEF VadPause, VadStop
  <2>3. Len(audio_in') + Len(head) + Len(<<>>) <= Len(audio_in) + Len(segs[vad.seg].audio)
    BY <1>1, <2>1, Types
  <2> HIDE DEF head
  <2>. QED
    BY <1>1, <1>2, <1>4, <2>1, <2>2, <2>3, Closes
<1>. QED
  BY <1>3, <1>4

(* speech_start, and speech_end. *)
LEMMA EmitFacts ==
    ASSUME PInv, NEW type \in EventType, NEW s \in Nat, Emit(type, s)
    PROVE  LET e == [type |-> type, seg |-> s]
           IN e \in Event /\ client_events' = Append(client_events, e)
              /\ Len(client_events) < ClientCap
BY DEF Emit, ClientRoom, Event

LEMMA SpeechStartKeeps ==
    ASSUME PInv, SpeechStart
    PROVE  PInv' /\ Effect
<1>1. /\ ~streaming /\ vad.pc = "start" /\ Emit("speech_start", vad.seg)
      /\ vad' = [vad EXCEPT !.pc = "wait"] /\ partial' = TRUE /\ On
      /\ UNCHANGED <<streaming, next_seq, audio_in, stt_jobs, final_events, stopping,
          force_close, utterance, partials, latest_partial, stt, trans, ptrans,
          partial_jobs, finalized, segs>>
  BY DEF SpeechStart, On, VadSpeaks
<1>2. /\ vad' \in VadRec /\ vad'.pc = "wait" /\ vad'.seg = vad.seg /\ vad'.tail = vad.tail
  <2>1. "wait" \in VadPc /\ vad \in VadRec
    BY Types DEF VadPc
  <2>. QED
    BY <1>1, <2>1 DEF VadRec
<1>3. vad.seg # NoSeg /\ vad.seg \in Ids /\ segs[vad.seg].fate = "open"
  <2>1. vad.seg # NoSeg
    BY <1>1 DEF PInv, Together
  <2>. QED
    BY <1>1, <2>1, Types DEF PInv, OpenOne, Holding
<1>4. Ids' = Ids /\ segs' = segs
  BY <1>1 DEF Ids
<1>5. FrontFrame
  BY <1>1, <1>2, Types DEF FrontFrame
<1>6. Together'
  BY <1>1, <1>2, <1>3 DEF PInv, Together, On
<1>7. OpenOne'
  BY <1>1, <1>2, <1>3, <1>4 DEF PInv, OpenOne, On, Holding
<1>8. Count'
  BY <1>1, <1>2 DEF PInv, Count
<1>9. \E e \in Event : /\ client_events' = Append(client_events, e)
                       /\ Len(client_events) < ClientCap /\ e.type = "speech_start" /\ e.seg \in Ids
  <2>1. "speech_start" \in EventType
    BY DEF EventType
  <2>. QED
    BY <1>1, <1>3, <2>1, EmitFacts, Types
<1>10. partial_jobs' \subseteq Ids'
  BY <1>1, <1>4 DEF PInv, TransFlow
<1>. QED
  BY <1>1, <1>2, <1>4, <1>5, <1>6, <1>7, <1>8, <1>9, <1>10, FrontStep, Types

LEMMA SpeechEndKeeps ==
    ASSUME PInv, SpeechEnd
    PROVE  PInv' /\ Effect
<1>1. /\ ~streaming /\ vad.pc = "end" /\ Emit("speech_end", vad.seg) /\ On
      /\ UNCHANGED <<streaming, next_seq, audio_in, stt_jobs, final_events, stopping,
          force_close, utterance, partial, partials, latest_partial, stt, trans, ptrans,
          partial_jobs, finalized>>
  BY DEF SpeechEnd, On, VadSpeaks
<1>2. vad.seg # NoSeg /\ vad.seg \in Ids /\ vad \in VadRec /\ ~partial
  BY <1>1, Types DEF PInv, Together, On
<1>3. \E e \in Event : /\ client_events' = Append(client_events, e)
                       /\ Len(client_events) < ClientCap /\ e.type = "speech_end" /\ e.seg \in Ids
  <2>1. "speech_end" \in EventType
    BY DEF EventType
  <2>. QED
    BY <1>1, <1>2, <2>1, EmitFacts, Types
<1> DEFINE x == Len(segs[vad.seg].audio)
           y == Len(vad.tail)
<1>4. /\ x \in Nat /\ y \in Nat /\ x > 0 /\ Len(segs) + Len(audio_in) + x + y <= next_seq + 1
      /\ Len(segs) \in Nat /\ Len(audio_in) \in Nat /\ next_seq \in Nat
  <2>1. segs[vad.seg].audio \in Seq(Frames) /\ vad.tail \in Seq(Frames)
    BY <1>2, Types
  <2>2. x \in Nat /\ y \in Nat
    BY <2>1
  <2>3. x > 0 /\ Len(segs) + Len(audio_in) + x + y <= next_seq + 1
    BY <1>1, <1>2 DEF PInv, Count
  <2>. QED
    BY <2>2, <2>3, Types
<1>5. CASE vad.tail # <<>>
  <2> DEFINE a == vad.tail
  <2>1. segs' = NewSegment(a) /\ vad' = [vad EXCEPT !.pc = "start", !.seg = Len(segs'), !.tail = <<>>]
    BY <1>5 DEF SpeechEnd, VadSpeaks
  <2>2. a \in Seq(Frames) /\ Len(a) > 0 /\ Len(a) = y
    BY <1>5, Types, EmptySeq
  <2>3. Len(segs') \in Nat
    BY <2>1, <2>2, OpensNext
  <2>4. vad' \in VadRec /\ vad'.pc = "start" /\ vad'.seg = Len(segs') /\ vad'.tail = <<>>
    <3>1. "start" \in VadPc /\ <<>> \in Seq(Frames)
      BY DEF VadPc
    <3> DEFINE n == Len(segs')
    <3>2. n \in Nat /\ vad' = [vad EXCEPT !.pc = "start", !.seg = n, !.tail = <<>>]
      BY <2>1, <2>3
    <3> HIDE DEF n
    <3>3. vad' \in VadRec /\ vad'.pc = "start" /\ vad'.seg = n /\ vad'.tail = <<>>
      BY <1>2, <3>1, <3>2 DEF VadRec
    <3>. QED
      BY <3>3 DEF n
  <2> HIDE DEF x, y
  <2>5. Len(segs) + Len(audio_in') + y <= next_seq
    BY <1>1, <1>4
  <2>6. Len(segs) + Len(audio_in') + Len(a) <= next_seq
    BY <2>2, <2>5
  <2> HIDE DEF a
  <2>. QED
    BY <1>1, <1>2, <1>3, <2>1, <2>2, <2>4, <2>6, OpensSegment, Types
<1>6. CASE vad.tail = <<>>
  <2>1. /\ vad' = [vad EXCEPT !.pc = IF vad.then = "exit" THEN "exited" ELSE "wait", !.seg = NoSeg]
        /\ segs' = segs
    BY <1>6 DEF SpeechEnd, VadSpeaks
  <2>2. /\ vad' \in VadRec /\ vad'.pc \in {"wait", "exited"} /\ vad'.seg = NoSeg /\ vad'.tail = <<>>
    <3>1. {"wait", "exited"} \subseteq VadPc /\ NoSeg \in Nat
      BY DEF VadPc, NoSeg
    <3> DEFINE pc == IF vad.then = "exit" THEN "exited" ELSE "wait"
    <3>2. pc \in {"wait", "exited"}
      OBVIOUS
    <3>3. vad' = [vad EXCEPT !.pc = pc, !.seg = NoSeg]
      BY <2>1
    <3> HIDE DEF pc
    <3>. QED
      BY <1>2, <1>6, <3>1, <3>2, <3>3 DEF VadRec
  <2>3. Ids' = Ids
    BY <2>1 DEF Ids
  <2>4. FrontFrame
    BY <1>1, <2>1, <2>2, Types DEF FrontFrame
  <2>5. Together'
    BY <1>1, <1>2, <2>2 DEF PInv, Together, On
  <2>6. OpenOne'
    BY <1>1, <2>1, <2>2, <2>3 DEF PInv, OpenOne, On, Holding
  <2>7. Count'
    <3> HIDE DEF x, y
    <3>1. Len(segs) + Len(audio_in) <= next_seq
      BY <1>4
    <3>. QED
      BY <1>1, <2>1, <2>2, <3>1 DEF Count
  <2>8. partial_jobs' \subseteq Ids'
    BY <1>1, <2>3 DEF PInv, TransFlow
  <2>. QED
    BY <1>1, <1>3, <2>1, <2>2, <2>3, <2>4, <2>5, <2>6, <2>7, <2>8, FrontStep, Types
<1>. QED
  BY <1>5, <1>6

LEMMA SetsFate ==
    ASSUME PInv, NEW s \in Ids, NEW f \in Fate, segs' = [segs EXCEPT ![s].fate = f]
    PROVE  /\ segs' \in Seq(SegRec) /\ Len(segs') = Len(segs) /\ Ids' = Ids /\ Len(segs) \in Nat
           /\ \A t \in Ids : /\ segs'[t].fate = IF t = s THEN f ELSE segs[t].fate
                             /\ segs'[t].audio = segs[t].audio
<1>1. segs \in Seq(SegRec) /\ Len(segs) \in Nat /\ s \in 1..Len(segs)
  BY Types DEF Ids
<1>2. /\ [segs EXCEPT ![s].fate = f] \in Seq(SegRec)
      /\ Len([segs EXCEPT ![s].fate = f]) = Len(segs)
      /\ \A t \in 1..Len(segs) :
            /\ [segs EXCEPT ![s].fate = f][t].fate = IF t = s THEN f ELSE segs[t].fate
            /\ [segs EXCEPT ![s].fate = f][t].audio = segs[t].audio
  BY <1>1, FateChange
<1> DEFINE new == [segs EXCEPT ![s].fate = f]
<1> HIDE DEF new
<1>3. segs' = new
  BY DEF new
<1>4. new \in Seq(SegRec) /\ Len(new) = Len(segs)
  BY <1>2 DEF new
<1>5. \A t \in Ids : /\ new[t].fate = IF t = s THEN f ELSE segs[t].fate
                     /\ new[t].audio = segs[t].audio
  BY <1>2 DEF new, Ids
<1>. QED
  BY <1>1, <1>3, <1>4, <1>5 DEF Ids

(* The closed segment is queued behind all that were spoken before.        *)
LEMMA PutJobKeeps ==
    ASSUME PInv, PutJob
    PROVE  PInv' /\ Effect
<1>1. /\ vad.pc = "put" /\ Len(stt_jobs) < SttCap /\ stt_jobs' = Append(stt_jobs, vad.seg)
      /\ segs' = [segs EXCEPT ![vad.seg].fate = "queued"] /\ vad' = [vad EXCEPT !.pc = "end"]
      /\ UNCHANGED <<streaming, next_seq, audio_in, final_events, client_events,
          stopping, force_close, utterance, partial, partials, latest_partial, stt, trans,
          ptrans, partial_jobs, finalized>>
  BY DEF PutJob, JobFits
<1>2. /\ ~streaming /\ On /\ vad.seg # NoSeg /\ vad.seg \in Ids /\ vad.seg = Len(segs)
      /\ segs[vad.seg].fate = "open" /\ vad.seg \in Nat /\ vad \in VadRec
  <2>1. ~streaming /\ vad.seg # NoSeg /\ On
    BY <1>1 DEF PInv, Together, On
  <2>. QED
    BY <1>1, <2>1, Types DEF PInv, OpenOne, Holding
<1>3. /\ segs' \in Seq(SegRec) /\ Len(segs') = Len(segs) /\ Ids' = Ids /\ Len(segs) \in Nat
      /\ \A s \in Ids : /\ segs'[s].fate = IF s = vad.seg THEN "queued" ELSE segs[s].fate
                        /\ segs'[s].audio = segs[s].audio
  <2>1. "queued" \in Fate
    BY DEF Fate
  <2>. QED
    BY <1>1, <1>2, <2>1, SetsFate
<1>4. /\ vad' \in VadRec /\ vad'.pc = "end" /\ vad'.seg = vad.seg /\ vad'.tail = vad.tail
  <2>1. "end" \in VadPc
    BY DEF VadPc
  <2>. QED
    BY <1>1, <1>2, <2>1 DEF VadRec
<1>5. /\ stt_jobs' \in Seq(Nat) /\ Len(stt_jobs') = Len(stt_jobs) + 1 /\ Len(stt_jobs) \in Nat
      /\ stt_jobs'[Len(stt_jobs) + 1] = vad.seg
      /\ \A i \in 1..Len(stt_jobs) : stt_jobs'[i] = stt_jobs[i]
  BY <1>1, <1>2, AppendFacts, Types
<1>6. \A s \in Ids : segs[s].fate = "queued" => s < vad.seg
  BY <1>2, <1>3 DEF Ids
<1>7. SttFlow'
  <2>1. \A i \in 1..Len(stt_jobs) : /\ stt_jobs[i] \in Ids /\ segs[stt_jobs[i]].fate = "queued"
                                    /\ stt_jobs[i] < vad.seg
    BY <1>6 DEF PInv, SttFlow
  <2>2. \A i \in 1..Len(stt_jobs') : stt_jobs'[i] \in Ids' /\ segs'[stt_jobs'[i]].fate = "queued"
    <3>1. SUFFICES ASSUME NEW i \in 1..Len(stt_jobs')
                   PROVE  stt_jobs'[i] \in Ids' /\ segs'[stt_jobs'[i]].fate = "queued"
      OBVIOUS
    <3>2. CASE i = Len(stt_jobs) + 1
      BY <1>2, <1>3, <1>5, <3>2
    <3>3. CASE i # Len(stt_jobs) + 1
      <4>1. i \in 1..Len(stt_jobs) /\ stt_jobs'[i] = stt_jobs[i]
        BY <1>5, <3>1, <3>3
      <4>. QED
        BY <1>3, <2>1, <4>1
    <3>. QED
      BY <3>2, <3>3
  <2>3. \A i, k \in 1..Len(stt_jobs') : i < k => stt_jobs'[i] < stt_jobs'[k]
    <3>1. SUFFICES ASSUME NEW i \in 1..Len(stt_jobs'), NEW k \in 1..Len(stt_jobs'), i < k
                   PROVE  stt_jobs'[i] < stt_jobs'[k]
      OBVIOUS
    <3>2. i \in 1..Len(stt_jobs) /\ stt_jobs'[i] = stt_jobs[i]
      BY <1>5, <3>1
    <3>3. CASE k = Len(stt_jobs) + 1
      BY <1>5, <2>1, <3>2, <3>3
    <3>4. CASE k # Len(stt_jobs) + 1
      <4>1. k \in 1..Len(stt_jobs) /\ stt_jobs'[k] = stt_jobs[k]
        BY <1>5, <3>1, <3>4
      <4>. QED
        BY <3>1, <3>2, <4>1 DEF PInv, SttFlow
    <3>. QED
      BY <3>3, <3>4
  <2>4. stt.pc = "busy" => /\ stt.seg \in Ids' /\ segs'[stt.seg].fate = "queued"
                           /\ \A i \in 1..Len(stt_jobs') : stt.seg < stt_jobs'[i]
    <3>1. SUFFICES ASSUME stt.pc = "busy"
                   PROVE  /\ stt.seg \in Ids' /\ segs'[stt.seg].fate = "queued"
                          /\ \A i \in 1..Len(stt_jobs') : stt.seg < stt_jobs'[i]
      OBVIOUS
    <3>2. /\ stt.seg \in Ids /\ segs[stt.seg].fate = "queued" /\ stt.seg < vad.seg
          /\ \A i \in 1..Len(stt_jobs) : stt.seg < stt_jobs[i]
      BY <1>6, <3>1 DEF PInv, SttFlow
    <3>3. ASSUME NEW i \in 1..Len(stt_jobs') PROVE stt.seg < stt_jobs'[i]
      <4>1. i = Len(stt_jobs) + 1 \/ i \in 1..Len(stt_jobs)
        BY <1>5
      <4>. QED
        BY <1>5, <3>2, <4>1
    <3>. QED
      BY <1>3, <3>2, <3>3
  <2>5. ASSUME NEW s \in Ids', segs'[s].fate = "queued"
        PROVE  (\E i \in 1..Len(stt_jobs') : stt_jobs'[i] = s) \/ (stt.pc = "busy" /\ stt.seg = s)
    <3>1. CASE s = vad.seg
      <4>1. Len(stt_jobs) + 1 \in 1..Len(stt_jobs')
        BY <1>5
      <4>. QED
        BY <1>5, <3>1, <4>1
    <3>2. CASE s # vad.seg
      <4>1. s \in Ids /\ segs[s].fate = "queued"
        BY <1>3, <2>5, <3>2
      <4>2. (\E i \in 1..Len(stt_jobs) : stt_jobs[i] = s) \/ (stt.pc = "busy" /\ stt.seg = s)
        BY <1>2, <4>1 DEF PInv, SttFlow
      <4>3. \A i \in 1..Len(stt_jobs) : i \in 1..Len(stt_jobs')
        BY <1>5
      <4>. QED
        BY <1>5, <4>2, <4>3
    <3>. QED
      BY <3>1, <3>2
  <2>6. ~streaming' /\ stt' = stt
    BY <1>1, <1>2
  <2> DEFINE jobs == stt_jobs'
             fates == segs'
  <2> HIDE DEF jobs, fates
  <2>. QED
    BY <2>2, <2>3, <2>4, <2>5, <2>6 DEF SttFlow
<1>8. FrontFrame
  BY <1>1, <1>3, <1>4, Types DEF FrontFrame
<1>9. Together'
  BY <1>1, <1>2, <1>4 DEF PInv, Together, On
<1>10. OpenOne'
  BY <1>1, <1>2, <1>3, <1>4 DEF PInv, OpenOne, On, Holding
<1>11. Count'
  BY <1>1, <1>2, <1>3, <1>4 DEF PInv, Count
<1>12. /\ partial_jobs' \subseteq Ids' /\ stt' \in [pc : {"off", "get", "busy", "queue"}, seg : Nat]
  BY <1>1, <1>3 DEF PInv, TransFlow, PipelineTypeOK
<1>13. Len(stt_jobs') <= SttCap
  BY <1>1, <1>5, PipelineAssumption
<1>. QED
  BY <1>1, <1>2, <1>3, <1>5, <1>7, <1>8, <1>9, <1>10, <1>11, <1>12, <1>13, QueueStep

LEMMA VadLoopKeeps ==
    ASSUME PInv, VadLoop
    PROVE  PInv' /\ Effect
BY VadFrameKeeps, VadFlushKeeps, SpeechStartKeeps, PutJobKeeps, SpeechEndKeeps DEF VadLoop

(***************************************************************************)
(* The stream loop.  First its steps that change no segment.               *)
(***************************************************************************)
LEMMA StreamStays ==
    ASSUME PInv, streaming, UNCHANGED <<streamFrame, segs, stt>>,
           vad.pc \in {"wait", "start", "rest", "error"},
           vad' \in VadRec, vad'.seg = vad.seg, vad'.pc \in {"wait", "rest", "error", "exited"},
           utterance' \in Heard,
           vad'.pc = "rest" /\ utterance'.next = "partial" => vad.seg # NoSeg,
           audio_in' \in Seq(Chunk), Len(audio_in') <= Len(audio_in), force_close' \in BOOLEAN,
           partials' \in 0..MaxPartials, partial_jobs' \subseteq Ids,
           \/ UNCHANGED client_events
           \/ \E e \in Event : /\ client_events' = Append(client_events, e)
                               /\ Len(client_events) < ClientCap /\ e.type # "final"
                               /\ e.type # "error" => e.seg \in Ids
                               /\ e.type = "partial" => e.seg \notin Said
    PROVE  PInv' /\ Effect
<1>1. UNCHANGED <<streaming, next_seq, stt_jobs, final_events, stopping, partial,
                  latest_partial, trans, ptrans, finalized>>
  BY DEF streamFrame
<1>2. /\ On /\ vad'.pc # "off" /\ Ids' = Ids /\ ~partial
  BY DEF On, Ids, PInv, Together
<1>3. FrontFrame
  <2>1. Len(audio_in') <= AudioCap
    <3>1. Len(audio_in') \in Nat
      OBVIOUS
    <3>. QED
      BY <3>1, Types
  <2>. QED
    BY <1>1, <1>2, <2>1, Types DEF FrontFrame
<1>4. Together'
  BY <1>1, <1>2 DEF PInv, Together, On
<1>5. OpenOne'
  BY <1>2 DEF PInv, OpenOne, On, Holding
<1>6. Count'
  <2>1. Len(audio_in') \in Nat
    OBVIOUS
  <2>2. Len(segs) + Len(audio_in) <= next_seq
    BY DEF PInv, Count
  <2>3. Len(segs) + Len(audio_in') <= next_seq
    BY <2>1, <2>2, Types
  <2>. QED
    BY <1>1, <2>3 DEF Count
<1>. QED
  BY <1>1, <1>2, <1>3, <1>4, <1>5, <1>6, FrontStep, Types

(* A frame the recogniser takes, or fails on. *)
LEMMA StreamFeedKeeps ==
    ASSUME PInv, StreamFeed \/ StreamFeedFails
    PROVE  PInv' /\ Effect
<1>1. /\ streaming /\ TakesFrame /\ UNCHANGED <<streamFrame, partials, client_events,
              force_close, stt, partial_jobs>>
  BY DEF StreamFeed, StreamFeedFails
<1>2. /\ vad.pc = "wait" /\ On /\ Head(audio_in).seq \in Frames
      /\ audio_in' \in Seq(Chunk) /\ Len(audio_in') + 1 = Len(audio_in)
      /\ Len(audio_in') \in Nat /\ Len(audio_in') <= AudioCap
  BY <1>1, FrameTaken
<1>3. Len(audio_in') <= Len(audio_in) /\ partial_jobs \subseteq Ids
  BY <1>2, Types DEF PInv, TransFlow
<1> DEFINE tail == Append(vad.tail, Head(audio_in).seq)
<1>4. tail \in Seq(Frames)
  BY <1>2, Types
<1>5. CASE StreamFeedFails
  <2>1. vad' = [vad EXCEPT !.pc = "error", !.tail = tail] /\ UNCHANGED <<utterance, segs>>
    BY <1>5 DEF StreamFeedFails
  <2> HIDE DEF tail
  <2>2. vad' \in VadRec /\ vad'.pc = "error" /\ vad'.seg = vad.seg
    BY <1>4, <2>1, Types DEF VadRec, VadPc
  <2>. QED
    BY <1>1, <1>2, <1>3, <2>1, <2>2, StreamStays, Types
<1>6. ASSUME StreamFeed PROVE PInv' /\ Effect
  <2>1. PICK heard \in {utterance.text, utterance.text + 1}, next \in {"go", "end", "partial"} :
          LET new == heard > 0 /\ vad.seg = NoSeg
          IN /\ next = "partial" => heard > 0 /\ heard # utterance.sent
             /\ utterance' = [utterance EXCEPT !.text = heard, !.next = next]
             /\ segs' = IF new THEN NewSegment(<<>>) ELSE segs
             /\ vad' = [vad EXCEPT !.pc = IF new THEN "start" ELSE IF next = "go" THEN "wait" ELSE "rest",
                                   !.seg = IF new THEN Len(segs') ELSE @,
                                   !.tail = Append(@, Head(audio_in).seq)]
    BY <1>6 DEF StreamFeed
  <2>2. heard \in Nat /\ utterance' \in Heard /\ utterance'.next = next
    <3>1. utterance \in Heard /\ utterance' = [utterance EXCEPT !.text = heard, !.next = next]
      BY <2>1, Types
    <3>2. utterance.text \in Nat /\ next \in {"go", "end", "partial"}
      BY <3>1 DEF Heard
    <3>3. heard \in Nat
      BY <3>2
    <3>. QED
      BY <3>1, <3>2, <3>3 DEF Heard
  <2>3. CASE heard > 0 /\ vad.seg = NoSeg
    <3> DEFINE empty == <<>>
    <3>1. segs' = NewSegment(empty) /\ empty \in Seq(Frames)
          /\ vad' = [vad EXCEPT !.pc = "start", !.seg = Len(segs'), !.tail = tail]
      BY <2>1, <2>3
    <3> HIDE DEF empty, tail
    <3>2. /\ segs' \in Seq(SegRec) /\ Len(segs') = Len(segs) + 1 /\ Len(segs) \in Nat
          /\ Len(segs') \in Nat /\ Len(segs) <= Len(segs')
          /\ segs'[Len(segs')].fate = "open"
          /\ Ids \subseteq Ids' /\ Len(segs') \in Ids' /\ Len(segs') # NoSeg
          /\ \A s \in Ids : segs'[s] = segs[s]
          /\ \A s \in Ids' : s \notin Ids => s = Len(segs')
      BY <3>1, OpensNext
    <3>3. /\ vad' \in VadRec /\ vad'.pc = "start" /\ vad'.seg = Len(segs')
      <4> DEFINE n == Len(segs')
      <4>1. n \in Nat /\ vad' = [vad EXCEPT !.pc = "start", !.seg = n, !.tail = tail]
        BY <3>1, <3>2
      <4> HIDE DEF n
      <4>2. vad' \in VadRec /\ vad'.pc = "start" /\ vad'.seg = n
        BY <1>4, <4>1, Types DEF VadRec, VadPc
      <4>. QED
        BY <4>2 DEF n
    <3>4. FrontFrame
      BY <1>1, <1>2, <2>2, <3>2, <3>3, Types DEF FrontFrame, streamFrame
    <3>5. ~partial /\ UNCHANGED <<streaming, partial, stt, trans, ptrans, stt_jobs, final_events, next_seq>>
      BY <1>1 DEF PInv, Together, streamFrame
    <3>6. Together'
      BY <1>1, <1>2, <3>2, <3>3, <3>5 DEF PInv, Together, On
    <3>7. OpenOne'
      <4>1. \A s \in Ids : segs[s].fate # "open"
        BY <1>2, <2>3 DEF PInv, OpenOne, Ids, NoSeg
      <4>2. \A s \in Ids' : segs'[s].fate = "open" => s = vad'.seg
        BY <3>2, <3>3, <4>1
      <4>. QED
        BY <3>2, <3>3, <4>2 DEF OpenOne, Holding
    <3>8. Count'
      <4>1. Len(segs) + Len(audio_in) <= next_seq
        BY <1>1 DEF PInv, Count
      <4>2. Len(segs') + Len(audio_in') <= next_seq
        BY <1>2, <3>2, <4>1, Types
      <4>. QED
        BY <1>1, <3>5, <4>2 DEF Count
    <3>9. /\ partial_jobs' \subseteq Ids' /\ UNCHANGED <<stt, stt_jobs, client_events>>
          /\ vad'.pc \notin {"end", "publish"} /\ vad.pc \notin {"end", "publish"}
      BY <1>1, <1>2, <1>3, <3>2, <3>3, <3>5
    <3>10. /\ \A s \in Ids : segs'[s].fate = segs[s].fate
           /\ \A s \in Ids' : s \notin Ids => segs'[s].fate = "open"
      BY <3>2
    <3>. QED
      BY <1>2, <3>2, <3>4, <3>6, <3>7, <3>8, <3>9, <3>10, FrontStep
  <2>4. CASE ~(heard > 0 /\ vad.seg = NoSeg)
    <3> DEFINE pc == IF next = "go" THEN "wait" ELSE "rest"
    <3>1. vad' = [vad EXCEPT !.pc = pc, !.seg = vad.seg, !.tail = tail] /\ segs' = segs
      BY <2>1, <2>4
    <3>2. pc \in {"wait", "rest"}
      OBVIOUS
    <3> HIDE DEF pc, tail
    <3>3. vad' \in VadRec /\ vad'.pc = pc /\ vad'.seg = vad.seg
      BY <1>4, <3>1, <3>2, Types DEF VadRec, VadPc
    <3>4. next = "partial" => vad.seg # NoSeg
      BY <2>1, <2>4
    <3>. QED
      BY <1>1, <1>2, <1>3, <2>2, <3>1, <3>2, <3>3, <3>4, StreamStays, Types
  <2>. QED
    BY <2>3, <2>4
<1>. QED
  BY <1>5, <1>6

LEMMA StreamStartKeeps ==
    ASSUME PInv, StreamStart \/ StreamError
    PROVE  PInv' /\ Effect
<1>1. /\ streaming /\ UNCHANGED <<streamFrame, partials, audio_in, force_close, utterance, stt,
                                  partial_jobs, segs>>
      /\ partial_jobs \subseteq Ids
  BY DEF StreamStart, StreamError, PInv, TransFlow, VadSpeaks
<1>2. CASE StreamStart
  <2> DEFINE pc == IF utterance.next = "go" THEN "wait" ELSE "rest"
  <2>1. vad.pc = "start" /\ Emit("speech_start", vad.seg) /\ vad' = [vad EXCEPT !.pc = pc]
    BY <1>2 DEF StreamStart, VadSpeaks
  <2>2. pc \in {"wait", "rest"}
    OBVIOUS
  <2> HIDE DEF pc
  <2>3. vad' \in VadRec /\ vad'.pc = pc /\ vad'.seg = vad.seg
    BY <2>1, <2>2, Types DEF VadRec, VadPc
  <2>4. vad.seg # NoSeg /\ vad.seg \in Ids
    BY <2>1, Types DEF PInv, Together, On
  <2>5. \E e \in Event : /\ client_events' = Append(client_events, e)
                         /\ Len(client_events) < ClientCap /\ e.type = "speech_start" /\ e.seg \in Ids
    <3>1. "speech_start" \in EventType
      BY DEF EventType
    <3>. QED
      BY <2>1, <2>4, <3>1, EmitFacts, Types
  <2>. QED
    BY <1>1, <2>1, <2>2, <2>3, <2>4, <2>5, StreamStays, Types
<1>3. CASE StreamError
  <2>1. vad.pc = "error" /\ Emit("error", NoSeg) /\ vad' = [vad EXCEPT !.pc = "wait"]
    BY <1>3 DEF StreamError, VadSpeaks
  <2>2. vad' \in VadRec /\ vad'.pc = "wait" /\ vad'.seg = vad.seg
    BY <2>1, Types DEF VadRec, VadPc
  <2>3. \E e \in Event : /\ client_events' = Append(client_events, e)
                         /\ Len(client_events) < ClientCap /\ e.type = "error"
    <3>1. "error" \in EventType /\ NoSeg \in Nat
      BY DEF EventType, NoSeg
    <3>. QED
      BY <2>1, <3>1, EmitFacts
  <2>. QED
    BY <1>1, <2>1, <2>2, <2>3, StreamStays, Types
<1>. QED
  BY <1>2, <1>3

(* What the recogniser heard makes a segment of what is open, or nothing.  *)
LEMMA Finalizes ==
    ASSUME PInv, streaming, vad.pc \in {"wait", "rest"}, NEW w \in Nat,
           NEW then \in {"wait", "exit"}, Finalize(w, then),
           UNCHANGED <<streamFrame, partials, client_events, partial_jobs, audio_in, stt>>,
           force_close' \in BOOLEAN
    PROVE  PInv' /\ Effect
<1>1. UNCHANGED <<streaming, next_seq, stt_jobs, final_events, stopping, partial,
                  latest_partial, trans, ptrans, finalized>>
  BY DEF streamFrame
<1>2. /\ On /\ ~partial /\ stt_jobs = <<>> /\ stt.pc \notin {"busy", "queue"}
      /\ vad \in VadRec
  BY Types DEF On, PInv, Together, SttFlow
<1>3. utterance' \in Heard
  <2>1. utterance \in Heard /\ utterance' = [utterance EXCEPT !.sent = 0, !.text = 0, !.next = "go"]
    BY Types DEF Finalize
  <2>. QED
    BY <2>1 DEF Heard
<1>4. partial_jobs \subseteq Ids /\ Len(segs) + Len(audio_in) <= next_seq
  BY DEF PInv, TransFlow, Count
<1>5. CASE vad.seg # NoSeg /\ w > 0
  <2> DEFINE r == [audio |-> vad.tail, fate |-> "queued"]
             tail == <<>>
  <2>1. segs' = [segs EXCEPT ![vad.seg] = r] /\ vad' = [vad EXCEPT !.pc = "end", !.then = then, !.tail = tail]
    BY <1>5 DEF Finalize
  <2>2. r \in SegRec /\ r.fate = "queued" /\ tail \in Seq(Frames)
    BY Types DEF SegRec, Fate
  <2>3. vad.seg \in 1..Len(segs) /\ vad.seg \in Ids /\ segs[vad.seg].fate = "open"
    BY <1>5, Types DEF Ids, PInv, OpenOne, Holding
  <2> HIDE DEF r, tail
  <2>4. /\ segs' \in Seq(SegRec) /\ Len(segs') = Len(segs) /\ Len(segs) \in Nat
        /\ \A s \in 1..Len(segs) : segs'[s] = IF s = vad.seg THEN r ELSE segs[s]
    BY <2>1, <2>2, <2>3, ExceptSeq, Types
  <2>5. vad' \in VadRec /\ vad'.pc = "end" /\ vad'.seg = vad.seg
    BY <1>2, <2>1, <2>2 DEF VadRec, VadPc
  <2>6. /\ Ids' = Ids
        /\ \A s \in Ids : segs'[s].fate = IF s = vad.seg THEN "queued" ELSE segs[s].fate
    BY <2>2, <2>4 DEF Ids
  <2>7. FrontFrame
    BY <1>1, <1>3, <2>4, <2>5, Types DEF FrontFrame
  <2>8. Together'
    BY <1>1, <1>2, <1>5, <2>5 DEF PInv, Together, On
  <2>9. OpenOne'
    BY <1>2, <2>3, <2>4, <2>5, <2>6 DEF PInv, OpenOne, On, Holding
  <2>10. SttFlow'
    <3>1. \A s \in Ids' : segs'[s].fate = "queued" => s = vad'.seg
      BY <1>2, <2>5, <2>6 DEF PInv, SttFlow
    <3>. QED
      BY <1>1, <1>2, <2>3, <2>5, <2>6, <3>1 DEF SttFlow
  <2>11. Count'
    BY <1>1, <1>4, <2>4 DEF Count
  <2>12. /\ stt' \in [pc : {"off", "get", "busy", "queue"}, seg : Nat]
         /\ stt_jobs' \in Seq(Nat) /\ Len(stt_jobs') <= SttCap
    BY <1>1 DEF PInv, PipelineTypeOK
  <2>. QED
    BY <1>1, <1>2, <1>4, <2>3, <2>4, <2>6, <2>7, <2>8, <2>9, <2>10, <2>11, <2>12, QueueStep
<1>6. CASE ~(vad.seg # NoSeg /\ w > 0)
  <2> DEFINE pc == IF then = "exit" THEN "exited" ELSE "wait"
             tail == <<>>
  <2>1. vad' = [vad EXCEPT !.pc = pc, !.seg = NoSeg, !.tail = tail]
    BY <1>6 DEF Finalize
  <2>2. pc \in {"wait", "exited"} /\ tail \in Seq(Frames) /\ NoSeg \in Nat
    BY DEF NoSeg
  <2> HIDE DEF pc, tail
  <2>3. vad' \in VadRec /\ vad'.pc = pc /\ vad'.seg = NoSeg
    BY <1>2, <2>1, <2>2 DEF VadRec, VadPc
  <2>4. /\ segs' \in Seq(SegRec) /\ Len(segs') = Len(segs) /\ Ids' = Ids /\ Len(segs) \in Nat
        /\ \A s \in Ids : segs'[s].fate = segs[s].fate
                          \/ (segs[s].fate = "open" /\ segs'[s].fate = "dropped")
        /\ \A s \in Ids : segs'[s].fate # "open"
    <3>1. CASE vad.seg = NoSeg
      <4>1. segs' = segs
        BY <1>6, <3>1 DEF Finalize
      <4>2. \A s \in Ids : segs[s].fate # "open"
        BY <1>2, <3>1 DEF PInv, OpenOne, Ids, NoSeg
      <4>. QED
        BY <4>1, <4>2, Types DEF Ids
    <3>2. CASE vad.seg # NoSeg
      <4>1. segs' = [segs EXCEPT ![vad.seg].fate = "dropped"] /\ "dropped" \in Fate /\ vad.seg \in Ids
        BY <1>6, <3>2, Types DEF Finalize, Fate
      <4>2. segs[vad.seg].fate = "open" /\ \A s \in Ids : segs[s].fate = "open" => s = vad.seg
        BY <1>2, <3>2 DEF PInv, OpenOne, Holding
      <4>3. /\ segs' \in Seq(SegRec) /\ Len(segs') = Len(segs) /\ Ids' = Ids /\ Len(segs) \in Nat
            /\ \A s \in Ids : segs'[s].fate = IF s = vad.seg THEN "dropped" ELSE segs[s].fate
        BY <4>1, SetsFate
      <4>. QED
        BY <4>2, <4>3
    <3>. QED
      BY <3>1, <3>2
  <2>5. FrontFrame
    BY <1>1, <1>3, <2>2, <2>3, <2>4, Types DEF FrontFrame
  <2>6. Together'
    BY <1>1, <1>2, <1>3, <2>1, <2>2, <2>3 DEF PInv, Together, On, Finalize
  <2>7. OpenOne'
    BY <2>2, <2>3, <2>4 DEF OpenOne, Holding
  <2>8. Count'
    BY <1>1, <1>4, <2>4 DEF Count
  <2>. QED
    BY <1>1, <1>2, <1>4, <2>2, <2>3, <2>4, <2>5, <2>6, <2>7, <2>8, FrontStep
<1>. QED
  BY <1>5, <1>6

(* A partial is sent while its segment is open. *)
LEMMA PartialFacts ==
    ASSUME PInv, NEW s \in Ids, segs[s].fate = "open", EmitPartial(s),
           NEW other \in BOOLEAN, QueuePartial(s, other)
    PROVE  /\ partials' \in 0..MaxPartials /\ partial_jobs' \subseteq Ids
           /\ \/ UNCHANGED client_events
              \/ \E e \in Event : /\ client_events' = Append(client_events, e)
                                  /\ Len(client_events) < ClientCap /\ e.type = "partial"
                                  /\ e.seg \in Ids /\ e.seg \notin Said
<1>1. partials' \in 0..MaxPartials
  <2>1. partials \in 0..MaxPartials /\ partials < MaxPartials /\ partials' = partials + 1
        /\ MaxPartials \in Nat
    BY Types, PipelineAssumption DEF EmitPartial
  <2>. QED
    BY <2>1
<1>2. partial_jobs' \subseteq Ids
  BY DEF QueuePartial, PInv, TransFlow
<1> DEFINE e == [type |-> "partial", seg |-> s]
<1>3. e \in Event /\ e.type = "partial" /\ e.seg = s
  BY DEF Event, EventType, Ids
<1>4. s \notin Said
  BY DEF Said
<1>5. UNCHANGED client_events
      \/ (client_events' = Append(client_events, e) /\ Len(client_events) < ClientCap)
  BY DEF EmitPartial, ClientRoom
<1> HIDE DEF e
<1>. QED
  BY <1>1, <1>2, <1>3, <1>4, <1>5

LEMMA StreamRestKeeps ==
    ASSUME PInv, StreamRest
    PROVE  PInv' /\ Effect
<1>1. streaming /\ vad.pc = "rest" /\ UNCHANGED <<streamFrame, audio_in, force_close, stt>> /\ On
  BY DEF StreamRest, On, PartialIsDue, EndpointIsDue
<1>2. CASE /\ utterance.next = "end" /\ Finalize(utterance.text, "wait")
           /\ UNCHANGED <<client_events, partials, partial_jobs>>
  <2>1. utterance.text \in Nat /\ force_close' \in BOOLEAN
    BY <1>1, Types DEF Heard
  <2>. QED
    BY <1>1, <1>2, <2>1, Finalizes
<1>3. CASE /\ utterance.next = "partial" /\ EmitPartial(vad.seg)
           /\ \E other \in BOOLEAN : QueuePartial(vad.seg, other)
           /\ utterance' = [utterance EXCEPT !.sent = utterance.text, !.next = "go"]
           /\ vad' = [vad EXCEPT !.pc = "wait"]
           /\ UNCHANGED segs
  <2>1. vad.seg # NoSeg /\ vad.seg \in Ids
    BY <1>1, <1>3, Types DEF PInv, Together
  <2>2. segs[vad.seg].fate = "open"
    BY <1>1, <2>1 DEF PInv, OpenOne, Holding
  <2>3. /\ partials' \in 0..MaxPartials /\ partial_jobs' \subseteq Ids
        /\ \/ UNCHANGED client_events
           \/ \E e \in Event : /\ client_events' = Append(client_events, e)
                               /\ Len(client_events) < ClientCap /\ e.type = "partial"
                               /\ e.seg \in Ids /\ e.seg \notin Said
    BY <1>3, <2>1, <2>2, PartialFacts
  <2>4. utterance' \in Heard
    <3>1. utterance \in Heard /\ utterance.text \in Nat
      BY Types DEF Heard
    <3>. QED
      BY <1>3, <3>1 DEF Heard
  <2>5. vad' \in VadRec /\ vad'.pc = "wait" /\ vad'.seg = vad.seg
    BY <1>3, Types DEF VadRec, VadPc
  <2>6. audio_in' \in Seq(Chunk) /\ Len(audio_in') <= Len(audio_in) /\ force_close' \in BOOLEAN
    BY <1>1, Types
  <2>. QED
    BY <1>1, <1>3, <2>3, <2>4, <2>5, <2>6, StreamStays
<1>. QED
  BY <1>2, <1>3 DEF StreamRest, PartialIsDue, EndpointIsDue

LEMMA StreamOutKeeps ==
    ASSUME PInv, StreamPause \/ StreamStop
    PROVE  PInv' /\ Effect
<1>1. /\ streaming /\ vad.pc = "wait" /\ On /\ force_close' \in BOOLEAN
      /\ UNCHANGED <<streamFrame, partials, audio_in, client_events, stt, partial_jobs>>
      /\ utterance.text \in Nat /\ utterance.sent \in Nat
  BY Types DEF StreamPause, StreamStop, TakesPause, TakesStop, On, Heard, PauseWaits
<1>2. CASE StreamPause
  BY <1>1, <1>2, Finalizes DEF StreamPause
<1>3. CASE StreamStop
  <2>1. ASSUME NEW heard \in {utterance.text, utterance.text + 1}, Finalize(heard, "exit")
        PROVE  PInv' /\ Effect
    <3>1. heard \in Nat
      BY <1>1
    <3>. QED
      BY <1>1, <2>1, <3>1, Finalizes
  <2>2. CASE vad' = [vad EXCEPT !.pc = "exited"] /\ UNCHANGED <<utterance, segs>>
    <3>1. vad' \in VadRec /\ vad'.pc = "exited" /\ vad'.seg = vad.seg
      BY <2>2, Types DEF VadRec, VadPc
    <3>2. partial_jobs \subseteq Ids /\ Len(audio_in') <= Len(audio_in)
      BY <1>1, Types DEF PInv, TransFlow
    <3>. QED
      BY <1>1, <2>2, <3>1, <3>2, StreamStays, Types
  <2>. QED
    BY <1>3, <2>1, <2>2 DEF StreamStop
<1>. QED
  BY <1>2, <1>3

(* The stream loop hands its final to the record of the recogniser.        *)
LEMMA StreamEndKeeps ==
    ASSUME PInv, StreamEnd
    PROVE  PInv' /\ Effect
<1>1. /\ streaming /\ vad.pc = "end" /\ Emit("speech_end", vad.seg) /\ On
      /\ vad' = [vad EXCEPT !.pc = "publish"] /\ stt' = [pc |-> "busy", seg |-> vad.seg]
      /\ UNCHANGED <<streaming, next_seq, stt_jobs, final_events, stopping, partial,
                     latest_partial, trans, ptrans, finalized>>
      /\ UNCHANGED <<partials, audio_in, force_close, utterance, partial_jobs, segs>>
  BY DEF StreamEnd, streamFrame, On, VadSpeaks
<1>2. /\ vad.seg # NoSeg /\ vad.seg \in Ids /\ segs[vad.seg].fate = "queued"
      /\ stt_jobs = <<>> /\ stt.pc \notin {"busy", "queue"} /\ Ids' = Ids
  BY <1>1, Types DEF PInv, Together, SttFlow, On, Ids
<1>3. vad' \in VadRec /\ vad'.pc = "publish" /\ vad'.seg = vad.seg
  BY <1>1, Types DEF VadRec, VadPc
<1>4. stt' \in [pc : {"off", "get", "busy", "queue"}, seg : Nat] /\ stt'.pc = "busy" /\ stt'.seg = vad.seg
  BY <1>1, Types
<1>5. FrontFrame
  BY <1>1, <1>3, Types DEF FrontFrame
<1>6. Together'
  <2>1. stt'.pc # "off" /\ vad'.pc # "off"
    BY <1>3, <1>4
  <2>. QED
    BY <1>1, <1>2, <1>3, <2>1 DEF PInv, Together, On
<1>7. OpenOne'
  BY <1>1, <1>2, <1>3 DEF PInv, OpenOne, On, Holding
<1>8. Count'
  BY <1>1 DEF PInv, Count
<1>9. SttFlow'
  <2>1. \A s \in Ids : segs[s].fate = "queued" => s = vad.seg
    BY <1>1, <1>2 DEF PInv, SttFlow
  <2>. QED
    BY <1>1, <1>2, <1>3, <1>4, <2>1 DEF SttFlow
<1>10. \E e \in Event : /\ client_events' = Append(client_events, e)
                        /\ Len(client_events) < ClientCap /\ e.type = "speech_end" /\ e.seg \in Ids'
  <2>1. "speech_end" \in EventType
    BY DEF EventType
  <2>. QED
    BY <1>1, <1>2, <2>1, EmitFacts, Types
<1>11. partial_jobs' \subseteq Ids' /\ stt_jobs' \in Seq(Nat) /\ Len(stt_jobs') <= SttCap
  BY <1>1, <1>2 DEF PInv, TransFlow, PipelineTypeOK
<1>12. /\ \A s \in Ids : segs'[s].fate = segs[s].fate
       /\ \A s \in Ids' : s \in Ids
  BY <1>1, <1>2
<1>. QED
  BY <1>1, <1>2, <1>4, <1>5, <1>6, <1>7, <1>8, <1>9, <1>10, <1>11, <1>12, QueueStep, Types

LEMMA StreamPublishedKeeps ==
    ASSUME PInv, StreamPublished
    PROVE  PInv' /\ Effect
<1> DEFINE pc == IF vad.then = "exit" THEN "exited" ELSE "wait"
           tail == <<>>
<1>1. /\ vad.pc = "publish" /\ stt.pc = "get" /\ On
      /\ vad' = [vad EXCEPT !.pc = pc, !.seg = NoSeg, !.tail = tail]
      /\ UNCHANGED <<streaming, next_seq, stt_jobs, final_events, stopping, partial,
                     latest_partial, trans, ptrans, finalized>>
      /\ UNCHANGED <<partials, audio_in, client_events, force_close, utterance, stt,
                     partial_jobs, segs>>
  BY DEF StreamPublished, streamFrame, On, PublishedAll
<1>2. streaming /\ ~partial /\ stt_jobs = <<>> /\ Ids' = Ids
  BY <1>1 DEF PInv, Together, SttFlow, Ids
<1>3. pc \in {"wait", "exited"} /\ tail \in Seq(Frames) /\ NoSeg \in Nat
  BY DEF NoSeg
<1> HIDE DEF pc, tail
<1>4. vad' \in VadRec /\ vad'.pc = pc /\ vad'.seg = NoSeg
  BY <1>1, <1>3, Types DEF VadRec, VadPc
<1>5. FrontFrame
  BY <1>1, <1>3, <1>4, Types DEF FrontFrame
<1>6. Together'
  BY <1>1, <1>2, <1>3, <1>4 DEF PInv, Together, On
<1>7. OpenOne'
  BY <1>1, <1>2, <1>3, <1>4 DEF PInv, OpenOne, On, Holding
<1>8. Count'
  BY <1>1, <1>2 DEF PInv, Count
<1>9. SttFlow'
  <2>1. \A s \in Ids : segs[s].fate # "queued"
    BY <1>1, <1>2 DEF PInv, SttFlow
  <2>. QED
    BY <1>1, <1>2, <1>3, <1>4, <2>1 DEF SttFlow
<1>10. /\ partial_jobs' \subseteq Ids' /\ stt_jobs' \in Seq(Nat) /\ Len(stt_jobs') <= SttCap
       /\ stt' \in [pc : {"off", "get", "busy", "queue"}, seg : Nat]
  BY <1>1, <1>2 DEF PInv, TransFlow, PipelineTypeOK
<1>11. /\ \A s \in Ids : segs'[s].fate = segs[s].fate
       /\ \A s \in Ids' : s \in Ids
  BY <1>1, <1>2
<1>. QED
  BY <1>1, <1>5, <1>6, <1>7, <1>8, <1>9, <1>10, <1>11, QueueStep, Types

LEMMA StreamLoopKeeps ==
    ASSUME PInv, StreamLoop
    PROVE  PInv' /\ Effect
BY StreamFeedKeeps, StreamStartKeeps, StreamRestKeeps, StreamOutKeeps, StreamEndKeeps,
   StreamPublishedKeeps DEF StreamLoop

(* The partial loop of the open segment. *)
LEMMA PartialTextKeeps ==
    ASSUME PInv, PartialText
    PROVE  PInv' /\ Effect
<1>1. /\ partial /\ vad.seg # NoSeg /\ latest_partial' \in {"mid", "sentence"}
      /\ EmitPartial(vad.seg) /\ \E other \in BOOLEAN : QueuePartial(vad.seg, other)
      /\ UNCHANGED <<streaming, next_seq, audio_in, stopping, force_close, vad, utterance>>
      /\ UNCHANGED <<partial, stt_jobs, final_events, stt, trans, ptrans, finalized, segs>>
  BY DEF PartialText, taskFrame
<1>2. vad.pc = "wait" /\ On /\ ~streaming /\ vad.seg \in Ids /\ segs[vad.seg].fate = "open" /\ Ids' = Ids
  BY <1>1, Types DEF PInv, Together, OpenOne, Holding, On, Ids
<1>3. /\ partials' \in 0..MaxPartials /\ partial_jobs' \subseteq Ids
      /\ \/ UNCHANGED client_events
         \/ \E e \in Event : /\ client_events' = Append(client_events, e)
                             /\ Len(client_events) < ClientCap /\ e.type = "partial"
                             /\ e.seg \in Ids /\ e.seg \notin Said
  BY <1>1, <1>2, PartialFacts
<1>4. FrontFrame
  BY <1>1, <1>2, <1>3, Types DEF FrontFrame
<1>5. Together' /\ OpenOne' /\ Count'
  <2>1. Together'
    BY <1>1, <1>2 DEF PInv, Together, On
  <2>2. OpenOne'
    BY <1>1, <1>2 DEF PInv, OpenOne, On, Holding
  <2>3. Count'
    BY <1>1, <1>2 DEF PInv, Count
  <2>. QED
    BY <2>1, <2>2, <2>3
<1>. QED
  BY <1>1, <1>2, <1>3, <1>4, <1>5, FrontStep, Types

(***************************************************************************)
(* A step at the back: a segment that was closed is answered.              *)
(***************************************************************************)
backFrame == <<taskFrame, partial, partials, latest_partial>>
SttRec == [pc : {"off", "get", "busy", "queue"}, seg : Nat]
TransRec == [pc : {"off", "get", "busy"}, seg : Nat]
PtransRec == [pc : {"off", "wait", "busy", "blocked"}, todo : SUBSET Nat, seg : Nat]

LEMMA BackTypes ==
    ASSUME PInv
    PROVE  /\ stt \in SttRec /\ trans \in TransRec /\ ptrans \in PtransRec
           /\ stt_jobs \in Seq(Nat) /\ Len(stt_jobs) \in Nat /\ Len(stt_jobs) <= SttCap
           /\ final_events \in Seq(Nat) /\ Len(final_events) \in Nat
           /\ Len(final_events) <= FinalCap /\ SttCap \in Nat /\ FinalCap \in Nat
           /\ partial_jobs \subseteq Ids /\ finalized = Said
           /\ stt.seg \in Nat /\ trans.seg \in Nat /\ ptrans.seg \in Nat
           /\ ptrans.todo \subseteq Ids
<1>1. /\ stt \in SttRec /\ trans \in TransRec /\ ptrans \in PtransRec
      /\ stt_jobs \in Seq(Nat) /\ Len(stt_jobs) <= SttCap
      /\ final_events \in Seq(Nat) /\ Len(final_events) <= FinalCap
  BY DEF PInv, PipelineTypeOK, SttRec, TransRec, PtransRec
<1>2. SttCap \in Nat /\ FinalCap \in Nat
  BY PipelineAssumption
<1>3. partial_jobs \subseteq Ids /\ finalized = Said /\ ptrans.todo \subseteq Ids
  BY DEF PInv, TransFlow
<1>4. stt.seg \in Nat /\ trans.seg \in Nat /\ ptrans.seg \in Nat
  BY <1>1 DEF SttRec, TransRec, PtransRec
<1>. QED
  BY <1>1, <1>2, <1>3, <1>4

LEMMA BackStep ==
    ASSUME PInv, On, UNCHANGED backFrame,
           segs' \in Seq(SegRec), Len(segs') = Len(segs),
           \A s \in Ids : /\ segs'[s].audio = segs[s].audio
                          /\ \/ segs'[s].fate = segs[s].fate
                             \/ /\ segs[s].fate \in {"queued", "final"}
                                /\ segs'[s].fate \in {"failed", "final", "done"},
           stt' \in SttRec, stt'.pc # "off", trans' \in TransRec, trans'.pc # "off",
           ptrans' \in PtransRec, ptrans'.pc # "off",
           stt_jobs' \in Seq(Nat), Len(stt_jobs') <= SttCap,
           final_events' \in Seq(Nat), Len(final_events') <= FinalCap,
           SttFlow', TransFlow', Silently \/ \E e \in Event : Telling(e)
    PROVE  PInv' /\ Effect
<1>1. /\ UNCHANGED <<streaming, next_seq, audio_in, stopping, force_close, vad, utterance>>
      /\ UNCHANGED <<partial, partials, latest_partial>>
  BY DEF backFrame, taskFrame
<1>2. Ids' = Ids /\ On' /\ DOMAIN segs' = Ids
  BY <1>1 DEF Ids, On
<1>3. Effect
  BY <1>2 DEF Effect
<1>4. Events' /\ client_events' \in Seq(Event) /\ Len(client_events') <= ClientCap
  BY <1>3, EffectOnEvents
<1>5. Together'
  BY <1>1, <1>2 DEF PInv, Together, On
<1>6. OpenOne'
  <2>1. \A s \in Ids : segs'[s].fate = "open" <=> segs[s].fate = "open"
    OBVIOUS
  <2>2. vad.seg # NoSeg => vad.seg \in Ids
    BY Types
  <2>3. vad.pc \in {"end", "publish"} => vad.seg # NoSeg
    BY DEF PInv, Together, On
  <2>. QED
    BY <1>1, <1>2, <2>1, <2>2, <2>3 DEF PInv, OpenOne, On
<1>7. Count'
  <2>1. vad.seg # NoSeg => segs'[vad.seg].audio = segs[vad.seg].audio
    BY Types
  <2>. QED
    BY <1>1, <2>1 DEF PInv, Count
<1>8. partial_jobs' \subseteq DOMAIN segs' /\ finalized' \subseteq DOMAIN segs'
  BY <1>2 DEF TransFlow, Said
<1>9. PipelineTypeOK'
  BY <1>1, <1>4, <1>8 DEF PInv, PipelineTypeOK, SegRec, SttRec, TransRec, PtransRec
<1>. QED
  BY <1>3, <1>4, <1>5, <1>6, <1>7, <1>9 DEF PInv

(***************************************************************************)
(* The recogniser takes the segments in the order they were spoken.        *)
(***************************************************************************)
LEMMA SttTakeKeeps ==
    ASSUME PInv, SttTake
    PROVE  PInv' /\ Effect
<1>1. /\ ~streaming /\ stt.pc = "get" /\ stt_jobs # <<>>
      /\ stt' = [pc |-> "busy", seg |-> Head(stt_jobs)] /\ stt_jobs' = Tail(stt_jobs)
      /\ UNCHANGED <<backFrame, trans, ptrans, final_events, client_events, partial_jobs,
                     finalized, segs>>
  BY DEF SttTake, sttFrame, backFrame, JobWaits
<1>2. On /\ Ids' = Ids /\ Said' = Said /\ streaming' = streaming /\ vad' = vad
  BY <1>1 DEF PInv, Together, On, Ids, Said, backFrame, taskFrame
<1>3. /\ Head(stt_jobs) \in Nat /\ Head(stt_jobs) = stt_jobs[1] /\ stt_jobs' \in Seq(Nat)
      /\ Len(stt_jobs) \in Nat \ {0} /\ Len(stt_jobs') = Len(stt_jobs) - 1
      /\ \A i \in 1..Len(stt_jobs') : stt_jobs'[i] = stt_jobs[i + 1]
  BY <1>1, TailFacts, BackTypes
<1>4. stt' \in SttRec /\ stt'.pc = "busy" /\ stt'.seg = stt_jobs[1]
  BY <1>1, <1>3 DEF SttRec
<1>5. SttFlow'
  <2>1. 1 \in 1..Len(stt_jobs)
        /\ \A i \in 1..Len(stt_jobs') : i + 1 \in 1..Len(stt_jobs) /\ 1 < i + 1
    BY <1>3
  <2>2. \A i \in 1..Len(stt_jobs) : stt_jobs[i] \in Ids /\ segs[stt_jobs[i]].fate = "queued"
    BY DEF PInv, SttFlow
  <2>3. \A i, k \in 1..Len(stt_jobs) : i < k => stt_jobs[i] < stt_jobs[k]
    BY DEF PInv, SttFlow
  <2>4. \A i \in 1..Len(stt_jobs') : stt_jobs'[i] \in Ids /\ segs[stt_jobs'[i]].fate = "queued"
                                     /\ stt_jobs[1] < stt_jobs'[i]
    BY <1>3, <2>1, <2>2, <2>3
  <2>5. \A i, k \in 1..Len(stt_jobs') : i < k => stt_jobs'[i] < stt_jobs'[k]
    <3>1. SUFFICES ASSUME NEW i \in 1..Len(stt_jobs'), NEW k \in 1..Len(stt_jobs'), i < k
                   PROVE  stt_jobs'[i] < stt_jobs'[k]
      OBVIOUS
    <3>2. i + 1 < k + 1 /\ i + 1 \in 1..Len(stt_jobs) /\ k + 1 \in 1..Len(stt_jobs)
      BY <2>1, <3>1
    <3>. QED
      BY <1>3, <2>3, <3>2
  <2>6. ASSUME NEW s \in Ids, segs[s].fate = "queued"
        PROVE  s = stt_jobs[1] \/ \E i \in 1..Len(stt_jobs') : stt_jobs'[i] = s
    <3>1. PICK i \in 1..Len(stt_jobs) : stt_jobs[i] = s
      BY <1>1, <1>2, <2>6 DEF PInv, SttFlow
    <3>2. CASE i = 1
      BY <3>1, <3>2
    <3>3. CASE i # 1
      <4>1. i - 1 \in 1..Len(stt_jobs') /\ (i - 1) + 1 = i
        BY <1>3, <3>1, <3>3
      <4>2. stt_jobs'[i - 1] = s
        BY <1>3, <3>1, <4>1
      <4>. QED
        BY <4>1, <4>2
    <3>. QED
      BY <3>2, <3>3
  <2>7. segs' = segs /\ ~streaming' /\ stt'.pc = "busy" /\ stt'.seg \in Ids
        /\ segs[stt'.seg].fate = "queued"
    BY <1>1, <1>2, <1>4, <2>1, <2>2
  <2>. QED
    BY <1>2, <1>4, <2>4, <2>5, <2>6, <2>7 DEF SttFlow
<1>6. TransFlow'
  BY <1>1, <1>2, <1>4 DEF PInv, TransFlow, On
<1>7. Len(stt_jobs') <= SttCap
  BY <1>3, BackTypes
<1>8. Silently
  BY <1>1, <1>2 DEF Silently
<1>9. trans.pc # "off" /\ ptrans.pc # "off"
  BY <1>2 DEF PInv, Together
<1>. QED
  BY <1>1, <1>2, <1>3, <1>4, <1>5, <1>6, <1>7, <1>8, <1>9, BackStep, BackTypes, Types

(* The segment the recogniser has: before it all is dealt with, and what   *)
(* comes after it waits.                                                   *)
LEMMA BusyFacts ==
    ASSUME PInv, stt.pc = "busy"
    PROVE  /\ On /\ stt.seg \in Ids /\ segs[stt.seg].fate = "queued" /\ stt.seg \notin Said
           /\ \A t \in Said : t < stt.seg
           /\ \A s \in 1..stt.seg - 1 :
                s \in Ids /\ segs[s].fate \in {"final", "done", "failed", "dropped"}
<1>1. On /\ stt.seg \in Ids /\ segs[stt.seg].fate = "queued"
  BY DEF PInv, Together, SttFlow, On
<1>2. Len(segs) \in Nat
  BY Types
<1>3. \A t \in Said : t < stt.seg
  <2>1. SUFFICES ASSUME NEW t \in Said, ~(t < stt.seg) PROVE FALSE
    OBVIOUS
  <2>2. t \in Ids /\ segs[t].fate \in {"final", "done"} /\ t # stt.seg
    BY <1>1 DEF Said
  <2>3. stt.seg \in 1..t - 1
    BY <1>1, <1>2, <2>1, <2>2 DEF Ids
  <2>. QED
    BY <1>1, <2>3 DEF PInv, TransFlow
<1>4. ASSUME NEW s \in 1..stt.seg - 1
      PROVE  s \in Ids /\ segs[s].fate \in {"final", "done", "failed", "dropped"}
  <2>1. s \in Ids /\ s < stt.seg /\ stt.seg <= Len(segs) /\ s \in Nat /\ stt.seg \in Nat
    BY <1>1, <1>2 DEF Ids
  <2>2. segs[s].fate \in Fate
    BY <2>1, Types
  <2>3. segs[s].fate # "open"
    <3>1. CASE segs[s].fate = "open"
      <4>1. s = vad.seg /\ vad.seg # NoSeg
        BY <1>1, <2>1, <3>1 DEF PInv, OpenOne, NoSeg, Ids
      <4>2. s = Len(segs)
        BY <4>1 DEF PInv, OpenOne
      <4>. QED
        BY <1>2, <2>1, <4>2
    <3>. QED
      BY <3>1
  <2>4. segs[s].fate # "queued"
    <3>1. SUFFICES ASSUME segs[s].fate = "queued" PROVE FALSE
      OBVIOUS
    <3>2. \/ \E i \in 1..Len(stt_jobs) : stt_jobs[i] = s
          \/ stt.seg = s
          \/ streaming /\ vad.pc = "end" /\ s = vad.seg
      BY <1>1, <2>1, <3>1 DEF PInv, SttFlow
    <3>3. \A i \in 1..Len(stt_jobs) : stt.seg < stt_jobs[i]
      BY DEF PInv, SttFlow
    <3>4. ~(streaming /\ vad.pc = "end")
      BY DEF PInv, SttFlow
    <3>5. \A i \in 1..Len(stt_jobs) : stt_jobs[i] # s
      BY <2>1, <3>3
    <3>. QED
      BY <2>1, <3>2, <3>4, <3>5
  <2>. QED
    BY <2>1, <2>2, <2>3, <2>4 DEF Fate
<1>. QED
  BY <1>1, <1>3, <1>4 DEF Said

(* Once answered, it leaves the recogniser's side. *)
LEMMA SttLeaves ==
    ASSUME PInv, stt.pc = "busy", UNCHANGED <<streaming, vad, stt_jobs>>, Ids' = Ids,
           NEW f \in Fate, f # "queued",
           \A s \in Ids : segs'[s].fate = IF s = stt.seg THEN f ELSE segs[s].fate,
           stt'.pc \in {"get", "queue"}, streaming => stt'.pc = "queue"
    PROVE  SttFlow'
<1>1. On /\ stt.seg \in Ids /\ \A i \in 1..Len(stt_jobs) : stt.seg < stt_jobs[i]
  BY BusyFacts DEF PInv, SttFlow
<1>2. \A i \in 1..Len(stt_jobs) : stt_jobs[i] \in Ids /\ stt_jobs[i] # stt.seg
                                  /\ segs[stt_jobs[i]].fate = "queued"
  <2>1. \A i \in 1..Len(stt_jobs) : stt_jobs[i] \in Ids /\ segs[stt_jobs[i]].fate = "queued"
    BY DEF PInv, SttFlow
  <2>2. Ids \subseteq Nat
    BY Types DEF Ids
  <2>3. \A i \in 1..Len(stt_jobs) : stt_jobs[i] \in Nat /\ stt.seg \in Nat /\ stt.seg < stt_jobs[i]
    BY <1>1, <2>1, <2>2
  <2>4. \A i \in 1..Len(stt_jobs) : stt_jobs[i] # stt.seg
    BY <2>3
  <2>. QED
    BY <2>1, <2>4
<1>3. \A i \in 1..Len(stt_jobs) : stt_jobs[i] \in Ids' /\ segs'[stt_jobs[i]].fate = "queued"
  BY <1>2
<1>4. \A s \in Ids : segs'[s].fate = "queued" => s # stt.seg /\ segs[s].fate = "queued"
  OBVIOUS
<1>5. streaming => vad.pc = "publish" /\ stt_jobs = <<>>
  BY DEF PInv, SttFlow
<1>6. \A s \in Ids : segs'[s].fate = "queued" => \E i \in 1..Len(stt_jobs) : stt_jobs[i] = s
  BY <1>1, <1>4, <1>5 DEF PInv, SttFlow
<1>. QED
  BY <1>3, <1>5, <1>6 DEF PInv, SttFlow

LEMMA SttErrorKeeps ==
    ASSUME PInv, SttError
    PROVE  PInv' /\ Effect
<1>1. /\ ~streaming /\ stt.pc = "busy" /\ Emit("error", stt.seg)
      /\ segs' = [segs EXCEPT ![stt.seg].fate = "failed"]
      /\ stt' = [pc |-> "get", seg |-> NoSeg]
      /\ UNCHANGED <<backFrame, trans, ptrans, stt_jobs, final_events, partial_jobs, finalized>>
  BY DEF SttError, sttFrame, backFrame
<1>2. /\ On /\ stt.seg \in Ids /\ segs[stt.seg].fate = "queued" /\ stt.seg \notin Said
      /\ UNCHANGED <<streaming, vad>>
  BY <1>1, BusyFacts DEF backFrame, taskFrame
<1>3. "failed" \in Fate
  BY DEF Fate
<1>4. /\ segs' \in Seq(SegRec) /\ Len(segs') = Len(segs) /\ Ids' = Ids
      /\ \A t \in Ids : /\ segs'[t].fate = IF t = stt.seg THEN "failed" ELSE segs[t].fate
                        /\ segs'[t].audio = segs[t].audio
  BY <1>1, <1>2, <1>3, SetsFate
<1>5. stt' \in SttRec /\ stt'.pc = "get"
  BY <1>1 DEF SttRec, NoSeg
<1>6. SttFlow'
  BY <1>1, <1>2, <1>3, <1>4, <1>5, SttLeaves
<1>7. Said' = Said
  BY <1>2, <1>4 DEF Said
<1>8. TransFlow'
  <2>1. \A t \in Said : \A s \in 1..t - 1 : s \in Ids
    BY Types DEF Said, Ids
  <2>2. \A t \in Said : \A s \in 1..t - 1 :
            segs'[s].fate \in {"final", "done", "failed", "dropped"}
    BY <1>4, <2>1 DEF PInv, TransFlow
  <2>3. \A s \in Ids : segs'[s].fate = "final" => segs[s].fate = "final"
    BY <1>4
  <2>. QED
    BY <1>1, <1>2, <1>4, <1>5, <1>7, <2>2, <2>3 DEF PInv, TransFlow
<1>9. \E e \in Event : Telling(e)
  <2>1. "error" \in EventType
    BY DEF EventType
  <2>2. PICK e \in Event : /\ client_events' = Append(client_events, e)
                           /\ Len(client_events) < ClientCap /\ e.type = "error"
    BY <1>1, <2>1, EmitFacts, BackTypes
  <2>. QED
    BY <1>7, <2>2 DEF Telling
<1>10. trans.pc # "off" /\ ptrans.pc # "off"
  BY <1>2 DEF PInv, Together
<1>. QED
  BY <1>1, <1>2, <1>4, <1>5, <1>6, <1>8, <1>9, <1>10, BackStep, BackTypes

(* The final goes out: all that was spoken before has been dealt with.     *)
LEMMA EmitFinalKeeps ==
    ASSUME PInv, EmitFinal
    PROVE  PInv' /\ Effect
<1>1. /\ stt.pc = "busy" /\ Emit("final", stt.seg)
      /\ finalized' = finalized \cup {stt.seg} /\ partial_jobs' = partial_jobs \ {stt.seg}
      /\ segs' = [segs EXCEPT ![stt.seg].fate = "final"]
      /\ stt' = [stt EXCEPT !.pc = "queue"]
      /\ UNCHANGED <<backFrame, trans, ptrans, stt_jobs, final_events>>
  BY DEF EmitFinal, sttFrame, backFrame, FinalSpeaks
<1>2. /\ On /\ stt.seg \in Ids /\ segs[stt.seg].fate = "queued" /\ stt.seg \notin Said
      /\ \A t \in Said : t < stt.seg
      /\ \A s \in 1..stt.seg - 1 :
            s \in Ids /\ segs[s].fate \in {"final", "done", "failed", "dropped"}
      /\ UNCHANGED <<streaming, vad>>
  BY <1>1, BusyFacts DEF backFrame, taskFrame
<1>3. "final" \in Fate
  BY DEF Fate
<1>4. /\ segs' \in Seq(SegRec) /\ Len(segs') = Len(segs) /\ Ids' = Ids
      /\ \A t \in Ids : /\ segs'[t].fate = IF t = stt.seg THEN "final" ELSE segs[t].fate
                        /\ segs'[t].audio = segs[t].audio
  BY <1>1, <1>2, <1>3, SetsFate
<1>5. stt' \in SttRec /\ stt'.pc = "queue" /\ stt'.seg = stt.seg
  BY <1>1, BackTypes DEF SttRec
<1>6. SttFlow'
  BY <1>1, <1>2, <1>3, <1>4, <1>5, SttLeaves
<1>7. Said' = Said \cup {stt.seg}
  BY <1>2, <1>4 DEF Said
<1>8. TransFlow'
  <2>1. \A t \in Said : \A s \in 1..t - 1 : s \in Ids
    BY Types DEF Said, Ids
  <2>2. \A t \in Said : \A s \in 1..t - 1 :
            segs'[s].fate \in {"final", "done", "failed", "dropped"}
    BY <1>4, <2>1 DEF PInv, TransFlow
  <2>3. \A s \in 1..stt.seg - 1 : segs'[s].fate \in {"final", "done", "failed", "dropped"}
    BY <1>2, <1>4
  <2>4. \A t \in Said' : \A s \in 1..t - 1 :
            segs'[s].fate \in {"final", "done", "failed", "dropped"}
    BY <1>7, <2>2, <2>3
  <2>5. ASSUME NEW s \in Ids, segs'[s].fate = "final"
        PROVE  \/ \E i \in 1..Len(final_events) : final_events[i] = s
               \/ stt'.seg = s
               \/ trans.pc = "busy" /\ trans.seg = s
    <3>1. CASE s = stt.seg
      BY <1>5, <3>1
    <3>2. CASE s # stt.seg
      <4>1. segs[s].fate = "final"
        BY <1>4, <2>5, <3>2
      <4>. QED
        BY <1>1, <1>2, <4>1 DEF PInv, TransFlow
    <3>. QED
      BY <3>1, <3>2
  <2>6. finalized' = Said' /\ partial_jobs' \subseteq Ids'
    BY <1>1, <1>4, <1>7, BackTypes
  <2>. QED
    BY <1>1, <1>2, <1>4, <1>5, <1>7, <2>4, <2>5, <2>6 DEF PInv, TransFlow
<1>9. \E e \in Event : Telling(e)
  <2>1. "final" \in EventType /\ stt.seg \in Nat
    BY BackTypes DEF EventType
  <2>2. PICK e \in Event : /\ client_events' = Append(client_events, e)
                           /\ Len(client_events) < ClientCap
                           /\ e.type = "final" /\ e.seg = stt.seg
    BY <1>1, <2>1, EmitFacts
  <2>. QED
    BY <1>2, <1>4, <1>7, <2>2 DEF Telling
<1>10. trans.pc # "off" /\ ptrans.pc # "off"
  BY <1>2 DEF PInv, Together
<1>. QED
  BY <1>1, <1>2, <1>4, <1>5, <1>6, <1>8, <1>9, <1>10, BackStep, BackTypes

(* The final waits for the translator. *)
LEMMA QueueFinalKeeps ==
    ASSUME PInv, QueueFinal
    PROVE  PInv' /\ Effect
<1>1. /\ stt.pc = "queue" /\ Len(final_events) < FinalCap
      /\ final_events' = Append(final_events, stt.seg) /\ stt' = [pc |-> "get", seg |-> NoSeg]
      /\ UNCHANGED <<backFrame, trans, ptrans, stt_jobs, client_events, partial_jobs,
                     finalized, segs>>
  BY DEF QueueFinal, sttFrame, backFrame, FinalFits
<1>2. On /\ stt.seg \in Said /\ Ids' = Ids /\ Said' = Said /\ UNCHANGED <<streaming, vad>>
  BY <1>1 DEF PInv, Together, TransFlow, On, Ids, Said, backFrame, taskFrame
<1>3. stt' \in SttRec /\ stt'.pc = "get"
  BY <1>1 DEF SttRec, NoSeg
<1>4. /\ final_events' \in Seq(Nat) /\ Len(final_events') = Len(final_events) + 1
      /\ Len(final_events) \in Nat /\ final_events'[Len(final_events) + 1] = stt.seg
      /\ \A i \in 1..Len(final_events) : final_events'[i] = final_events[i]
  BY <1>1, AppendFacts, BackTypes
<1>5. Len(final_events') <= FinalCap
  BY <1>1, <1>4, BackTypes
<1>6. SttFlow'
  BY <1>1, <1>2, <1>3 DEF PInv, SttFlow, On
<1>7. TransFlow'
  <2>1. ASSUME NEW i \in 1..Len(final_events') PROVE final_events'[i] \in Said'
    <3>1. i = Len(final_events) + 1 \/ i \in 1..Len(final_events)
      BY <1>4
    <3>. QED
      BY <1>2, <1>4, <3>1 DEF PInv, TransFlow
  <2>2. ASSUME NEW s \in Ids, segs[s].fate = "final"
        PROVE  \/ \E i \in 1..Len(final_events') : final_events'[i] = s
               \/ trans.pc = "busy" /\ trans.seg = s
    <3>1. \/ \E i \in 1..Len(final_events) : final_events[i] = s
          \/ stt.seg = s
          \/ trans.pc = "busy" /\ trans.seg = s
      BY <1>2, <2>2 DEF PInv, TransFlow
    <3>2. Len(final_events) + 1 \in 1..Len(final_events')
          /\ \A i \in 1..Len(final_events) : i \in 1..Len(final_events')
      BY <1>4
    <3>. QED
      BY <1>4, <3>1, <3>2
  <2>. QED
    BY <1>1, <1>2, <1>3, <2>1, <2>2 DEF PInv, TransFlow
<1>8. Silently
  BY <1>1, <1>2 DEF Silently
<1>9. trans.pc # "off" /\ ptrans.pc # "off"
  BY <1>2 DEF PInv, Together
<1>. QED
  BY <1>1, <1>2, <1>3, <1>4, <1>5, <1>6, <1>7, <1>8, <1>9, BackStep, BackTypes, Types

LEMMA SttLoopKeeps ==
    ASSUME PInv, SttLoop
    PROVE  PInv' /\ Effect
BY SttTakeKeeps, SttErrorKeeps, EmitFinalKeeps, QueueFinalKeeps DEF SttLoop

(***************************************************************************)
(* The translator answers what has a final.                                *)
(***************************************************************************)
LEMMA TransTakeKeeps ==
    ASSUME PInv, TransTake
    PROVE  PInv' /\ Effect
<1>1. /\ trans.pc = "get" /\ final_events # <<>> /\ final_events' = Tail(final_events)
      /\ trans' = [pc |-> "busy", seg |-> Head(final_events)]
      /\ UNCHANGED <<backFrame, stt, stt_jobs, ptrans, client_events, partial_jobs,
                     finalized, segs>>
  BY DEF TransTake, transFrame, backFrame, FinalWaits
<1>2. On /\ Ids' = Ids /\ Said' = Said /\ UNCHANGED <<streaming, vad>>
  BY <1>1 DEF PInv, Together, On, Ids, Said, backFrame, taskFrame
<1>3. /\ Head(final_events) \in Nat /\ Head(final_events) = final_events[1]
      /\ final_events' \in Seq(Nat) /\ Len(final_events) \in Nat \ {0}
      /\ Len(final_events') = Len(final_events) - 1
      /\ \A i \in 1..Len(final_events') : final_events'[i] = final_events[i + 1]
  BY <1>1, TailFacts, BackTypes
<1>4. trans' \in TransRec /\ trans'.pc = "busy" /\ trans'.seg = final_events[1]
  BY <1>1, <1>3 DEF TransRec
<1>5. SttFlow'
  BY <1>1, <1>2 DEF PInv, SttFlow, On
<1>6. TransFlow'
  <2>1. 1 \in 1..Len(final_events)
        /\ \A i \in 1..Len(final_events') : i + 1 \in 1..Len(final_events)
    BY <1>3
  <2>2. \A i \in 1..Len(final_events) : final_events[i] \in Said
    BY DEF PInv, TransFlow
  <2>3. ASSUME NEW s \in Ids, segs[s].fate = "final"
        PROVE  \/ \E i \in 1..Len(final_events') : final_events'[i] = s
               \/ stt.pc = "queue" /\ stt.seg = s
               \/ final_events[1] = s
    <3>1. \/ \E i \in 1..Len(final_events) : final_events[i] = s
          \/ stt.pc = "queue" /\ stt.seg = s
      BY <1>1, <1>2, <2>3 DEF PInv, TransFlow
    <3>2. ASSUME NEW i \in 1..Len(final_events), final_events[i] = s, i # 1
          PROVE  \E k \in 1..Len(final_events') : final_events'[k] = s
      <4>1. i - 1 \in 1..Len(final_events') /\ (i - 1) + 1 = i
        BY <1>3, <3>2
      <4>2. final_events'[i - 1] = s
        BY <1>3, <3>2, <4>1
      <4>. QED
        BY <4>1, <4>2
    <3>. QED
      BY <3>1, <3>2
  <2>4. \A i \in 1..Len(final_events') : final_events'[i] \in Said
    BY <1>3, <2>1, <2>2
  <2>. QED
    BY <1>1, <1>2, <1>4, <2>1, <2>2, <2>3, <2>4 DEF PInv, TransFlow
<1>7. Silently
  BY <1>1, <1>2 DEF Silently
<1>8. stt.pc # "off" /\ ptrans.pc # "off"
  BY <1>2 DEF PInv, Together
<1>9. Len(final_events') <= FinalCap
  BY <1>3, BackTypes
<1>. QED
  BY <1>1, <1>2, <1>3, <1>4, <1>5, <1>6, <1>7, <1>8, <1>9, BackStep, BackTypes, Types

LEMMA EmitTransKeeps ==
    ASSUME PInv, EmitTrans
    PROVE  PInv' /\ Effect
<1>1. /\ trans.pc = "busy" /\ \E type \in {"trans", "error"} : Emit(type, trans.seg)
      /\ segs' = [segs EXCEPT ![trans.seg].fate = "done"]
      /\ trans' = [pc |-> "get", seg |-> NoSeg]
      /\ UNCHANGED <<backFrame, stt, stt_jobs, ptrans, final_events, partial_jobs, finalized>>
  BY DEF EmitTrans, transFrame, backFrame, TransSpeaks
<1>2. /\ On /\ trans.seg \in Said /\ trans.seg \in Ids /\ UNCHANGED <<streaming, vad>>
      /\ segs[trans.seg].fate \in {"final", "done"}
  BY <1>1 DEF PInv, Together, TransFlow, Said, On, backFrame, taskFrame
<1>3. "done" \in Fate
  BY DEF Fate
<1>4. /\ segs' \in Seq(SegRec) /\ Len(segs') = Len(segs) /\ Ids' = Ids
      /\ \A t \in Ids : /\ segs'[t].fate = IF t = trans.seg THEN "done" ELSE segs[t].fate
                        /\ segs'[t].audio = segs[t].audio
  BY <1>1, <1>2, <1>3, SetsFate
<1>5. trans' \in TransRec /\ trans'.pc = "get"
  BY <1>1 DEF TransRec, NoSeg
<1>6. Said' = Said
  BY <1>2, <1>4 DEF Said
<1>7. SttFlow'
  <2>1. \A s \in Ids : segs'[s].fate = "queued" <=> segs[s].fate = "queued"
    BY <1>2, <1>4
  <2>2. streaming /\ vad.pc = "end" => vad.seg \in Ids
    <3>1. streaming /\ vad.pc = "end" => vad.seg # NoSeg
      BY DEF PInv, Together, On
    <3>. QED
      BY <3>1, Types
  <2>. QED
    BY <1>1, <1>2, <1>4, <2>1, <2>2 DEF PInv, SttFlow, On
<1>8. TransFlow'
  <2>1. \A t \in Said : \A s \in 1..t - 1 : s \in Ids
    BY Types DEF Said, Ids
  <2>2. \A t \in Said : \A s \in 1..t - 1 :
            segs'[s].fate \in {"final", "done", "failed", "dropped"}
    BY <1>4, <2>1 DEF PInv, TransFlow
  <2>3. \A s \in Ids : segs'[s].fate = "final" => segs[s].fate = "final" /\ s # trans.seg
    BY <1>4
  <2>4. \A s \in Ids : segs'[s].fate = "final" =>
            \/ \E i \in 1..Len(final_events) : final_events[i] = s
            \/ stt.pc = "queue" /\ stt.seg = s
    BY <1>2, <2>3 DEF PInv, TransFlow
  <2>. QED
    BY <1>1, <1>2, <1>4, <1>5, <1>6, <2>2, <2>4 DEF PInv, TransFlow
<1>9. \E e \in Event : Telling(e)
  <2>1. {"trans", "error"} \subseteq EventType
    BY DEF EventType
  <2>2. PICK e \in Event : /\ client_events' = Append(client_events, e)
                           /\ Len(client_events) < ClientCap
                           /\ e.type \in {"trans", "error"} /\ e.seg = trans.seg
    BY <1>1, <2>1, EmitFacts, BackTypes
  <2>. QED
    BY <1>2, <1>4, <1>6, <2>2 DEF Telling
<1>10. stt.pc # "off" /\ ptrans.pc # "off"
  BY <1>2 DEF PInv, Together
<1>. QED
  BY <1>1, <1>2, <1>4, <1>5, <1>7, <1>8, <1>9, <1>10, BackStep, BackTypes

(* Translations of partials change nothing but their own loop. *)
LEMMA PartialTranslationKeeps ==
    ASSUME PInv, PartialTranslationLoop
    PROVE  PInv' /\ Effect
<1>1. /\ UNCHANGED <<backFrame, stt, stt_jobs, trans, final_events, finalized, segs>>
      /\ ptrans.pc \in {"wait", "busy", "blocked"}
  BY DEF PartialTranslationLoop, PartialTransWake, PartialTransTake, PartialTransResult,
         PartialTransPut, ptransFrame, backFrame, PartialTransSpeaks
<1>2. On /\ Ids' = Ids /\ Said' = Said /\ UNCHANGED <<streaming, vad>>
      /\ stt.pc # "off" /\ trans.pc # "off"
  BY <1>1 DEF PInv, Together, On, Ids, Said, backFrame, taskFrame
<1>3. /\ ptrans' \in PtransRec /\ ptrans'.pc # "off" /\ ptrans'.todo \subseteq Ids
      /\ ptrans'.pc \in {"busy", "blocked"} => ptrans'.seg \in Ids
      /\ partial_jobs' \subseteq Ids
  <2>1. /\ ptrans \in PtransRec /\ ptrans.todo \subseteq Ids /\ partial_jobs \subseteq Ids
        /\ ptrans.pc \in {"busy", "blocked"} => ptrans.seg \in Ids
        /\ Ids \subseteq Nat /\ NoSeg \in Nat
    BY BackTypes, Types DEF PInv, TransFlow, Ids, NoSeg
  <2>2. CASE PartialTransWake
    BY <2>1, <2>2 DEF PartialTransWake, PtransRec
  <2>3. CASE PartialTransTake
    <3>1. PICK s \in ptrans.todo :
          ptrans' = [pc   |-> IF s \in finalized THEN "wait" ELSE "busy",
                     todo |-> ptrans.todo \ {s},
                     seg  |-> IF s \in finalized THEN NoSeg ELSE s]
      BY <2>3 DEF PartialTransTake
    <3>2. s \in Ids /\ s \in Nat /\ partial_jobs' = partial_jobs
      BY <2>1, <2>3, <3>1 DEF PartialTransTake
    <3>. QED
      BY <2>1, <3>1, <3>2 DEF PtransRec
  <2>4. CASE PartialTransResult
    BY <2>1, <2>4 DEF PartialTransResult, PtransRec
  <2>5. CASE PartialTransPut
    BY <2>1, <2>5 DEF PartialTransPut, PtransRec, PartialTransSpeaks
  <2>. QED
    BY <2>2, <2>3, <2>4, <2>5 DEF PartialTranslationLoop
<1>4. SttFlow'
  BY <1>1, <1>2 DEF PInv, SttFlow, On
<1>5. TransFlow'
  BY <1>1, <1>2, <1>3 DEF PInv, TransFlow, On
<1>6. Silently \/ \E e \in Event : Telling(e)
  <2>1. CASE UNCHANGED client_events
    BY <1>2, <2>1 DEF Silently
  <2>2. CASE /\ ptrans.pc \in {"busy", "blocked"} /\ Emit("trans_partial", ptrans.seg)
    <3>1. "trans_partial" \in EventType /\ ptrans.seg \in Ids
      BY <2>2 DEF EventType, PInv, TransFlow
    <3>2. PICK e \in Event : /\ client_events' = Append(client_events, e)
                             /\ Len(client_events) < ClientCap
                             /\ e.type = "trans_partial" /\ e.seg = ptrans.seg
      BY <2>2, <3>1, EmitFacts, BackTypes
    <3>. QED
      BY <1>2, <3>1, <3>2 DEF Telling
  <2>. QED
    BY <2>1, <2>2 DEF PartialTranslationLoop, PartialTransWake, PartialTransTake,
                      PartialTransResult, PartialTransPut, PartialTransSpeaks
<1>7. \A s \in Ids : segs'[s].fate = segs[s].fate /\ segs'[s].audio = segs[s].audio
  BY <1>1
<1>. QED
  BY <1>1, <1>2, <1>3, <1>4, <1>5, <1>6, <1>7, BackStep, BackTypes, Types

LEMMA PipelineKeeps ==
    ASSUME PInv, PipelineNext
    PROVE  PInv' /\ Effect
BY VadLoopKeeps, StreamLoopKeeps, PartialTextKeeps, SttLoopKeeps, TransTakeKeeps,
   EmitTransKeeps, PartialTranslationKeeps DEF PipelineNext, TranslationLoop

-----------------------------------------------------------------------------
(***************************************************************************)
(* A step of the pipeline, seen from the session.                          *)
(***************************************************************************)
LEMMA Room ==
    ASSUME PInv
    PROVE  Ids \subseteq Segs /\ Said \subseteq Ids /\ Len(segs) <= next_seq
<1>1. Len(segs) \in Nat /\ Len(audio_in) \in Nat /\ next_seq \in Nat
  BY Types
<1>2. Len(segs) <= next_seq
  <2>1. CASE streaming \/ vad.seg = NoSeg
    <3>1. Len(segs) + Len(audio_in) <= next_seq
      BY <2>1 DEF PInv, Count
    <3>. QED
      BY <1>1, <3>1
  <2>2. CASE ~streaming /\ vad.seg # NoSeg
    <3> DEFINE x == Len(segs[vad.seg].audio)
               y == Len(vad.tail)
    <3>1. segs[vad.seg].audio \in Seq(Frames) /\ vad.tail \in Seq(Frames)
      BY <2>2, Types
    <3>2. x \in Nat /\ y \in Nat
      BY <3>1
    <3>3. x > 0 /\ Len(segs) + Len(audio_in) + x + y <= next_seq + 1
      BY <2>2 DEF PInv, Count
    <3> HIDE DEF x, y
    <3>. QED
      BY <1>1, <3>2, <3>3
  <2>. QED
    BY <2>1, <2>2, Types
<1>3. next_seq <= MaxChunks /\ MaxChunks \in Nat
  <2>1. next_seq \in 0..MaxChunks /\ MaxChunks \in Nat
    BY PipelineAssumption DEF PInv, PipelineTypeOK
  <2>. QED
    BY <2>1
<1>. QED
  BY <1>1, <1>2, <1>3 DEF Ids, Segs, Said

LEMMA SessionFollows ==
    ASSUME IInv, Effect, PInv', UNCHANGED sessionVars
    PROVE  IInv'
<1>1. /\ UNCHANGED <<handler, pump, sending, seen, rows, ord, unstored, faults, ended_at, status, refine>>
      /\ PInv /\ PInv' /\ On /\ On' /\ Ids \subseteq Ids'
  BY DEF sessionVars, IInv, Effect
<1>2. Said \subseteq Said'
  BY <1>1, EffectOnEvents
<1>3. TypeOK'
  BY <1>1 DEF IInv, TypeOK, PInv
<1>4. Closed'
  BY <1>1 DEF IInv, Closed
<1>5. SentFinalIsStored'
  BY <1>1 DEF IInv, SentFinalIsStored
<1>6. FinalsInOrder'
  <2>1. \A t \in seen : \A s \in 1..t - 1 : s \in Ids
    <3>1. seen \subseteq Ids /\ Ids = 1..Len(segs) /\ Len(segs) \in Nat
      BY Room, Types DEF IInv, Sent, Ids
    <3>. QED
      BY <3>1
  <2>. QED
    BY <1>1, <2>1 DEF IInv, FinalsInOrder, Effect
<1>7. CASE Silently
  <2>1. client_events' = client_events /\ Said' = Said
    BY <1>7 DEF Silently
  <2>2. Pumped'
    BY <1>1, <2>1 DEF IInv, Pumped, IsRow, IsPartial
  <2>3. Sent'
    BY <1>1, <2>1 DEF IInv, Sent
  <2>4. Stored'
    BY <1>1, <2>1 DEF IInv, Stored
  <2>. QED
    BY <1>1, <1>3, <1>4, <1>5, <1>6, <2>2, <2>3, <2>4 DEF IInv
<1>8. ASSUME NEW e \in Event, Telling(e) PROVE IInv'
  <2>1. /\ Len(client_events') = Len(client_events) + 1 /\ Len(client_events) \in Nat
        /\ client_events'[Len(client_events) + 1] = e
        /\ \A i \in 1..Len(client_events) : client_events'[i] = client_events[i]
    BY <1>1, <1>8, AppendFacts, Types DEF Telling
  <2>2. \A i \in 1..Len(client_events') :
            i \in 1..Len(client_events) \/ i = Len(client_events) + 1
    BY <2>1
  <2>3. \A i \in 1..Len(client_events') :
            \/ i \in 1..Len(client_events) /\ client_events'[i] = client_events[i]
            \/ client_events'[i] = e
    BY <2>1, <2>2
  <2>4. /\ Len(client_events) + 1 \in 1..Len(client_events')
        /\ \A i \in 1..Len(client_events) : i \in 1..Len(client_events')
    BY <2>1
  <2>5. /\ e.type = "final" => Said' = Said \cup {e.seg} /\ \A t \in Said : t < e.seg
        /\ e.type # "final" => Said' = Said
        /\ e.type = "partial" => e.seg \notin Said
    BY <1>8 DEF Telling
  <2>6. Pumped'
    <3>1. sending.type = "final" => \A i \in 1..Len(client_events') :
            client_events'[i].type = "final" => sending.seg < client_events'[i].seg
      BY <2>3, <2>5 DEF IInv, Pumped
    <3>. QED
      BY <1>1, <1>2, <3>1 DEF IInv, Pumped, IsRow, IsPartial
  <2>7. Sent'
    <3>1. seen \subseteq Said /\ seen \subseteq Said'
      BY <1>2 DEF IInv, Sent
    <3>2. \A s \in seen : \A i \in 1..Len(client_events') :
            client_events'[i].type = "final" => s < client_events'[i].seg
      BY <2>3, <2>5, <3>1 DEF IInv, Sent
    <3>3. \A s \in seen : sending.type = "final" => s < sending.seg
      BY DEF IInv, Sent
    <3>4. ASSUME pump # "dead", NEW s \in Said'
          PROVE  \/ s \in seen
                 \/ sending.type = "final" /\ sending.seg = s
                 \/ \E i \in 1..Len(client_events') :
                       client_events'[i].type = "final" /\ client_events'[i].seg = s
      <4>1. CASE s \in Said
        <5>1. \/ s \in seen
              \/ sending.type = "final" /\ sending.seg = s
              \/ \E i \in 1..Len(client_events) :
                    client_events[i].type = "final" /\ client_events[i].seg = s
          BY <1>1, <3>4, <4>1 DEF IInv, Sent
        <5>. QED
          BY <2>1, <2>4, <5>1
      <4>2. CASE s \notin Said
        <5>1. e.type = "final" /\ e.seg = s
          BY <2>5, <3>4, <4>2
        <5>. QED
          BY <2>1, <2>4, <5>1
      <4>. QED
        BY <4>1, <4>2
    <3>. QED
      BY <1>1, <3>1, <3>2, <3>3, <3>4 DEF Sent
  <2>8. Stored'
    <3>1. ASSUME NEW s \in Segs, rows[s] = "final"
          PROVE  /\ s \in Said /\ (sending.type = "partial" => sending.seg # s)
                 /\ \A i \in 1..Len(client_events') :
                      client_events'[i].type = "partial" => client_events'[i].seg # s
      BY <2>3, <2>5, <3>1 DEF IInv, Stored
    <3>. QED
      BY <1>1, <1>2, <3>1 DEF Stored, Segs
  <2>. QED
    BY <1>1, <1>3, <1>4, <1>5, <1>6, <2>6, <2>7, <2>8 DEF IInv
<1>. QED
  BY <1>7, <1>8 DEF Effect

-----------------------------------------------------------------------------
(***************************************************************************)
(* What the handler does to the pipeline.                                  *)
(***************************************************************************)
LEMMA LoopsStart ==
    ASSUME PInv, ~On, segs = <<>>, StartLoops
    PROVE  PInv' /\ On' /\ UNCHANGED <<client_events, segs, partial>>
<1>1. /\ vad' = [vad EXCEPT !.pc = "wait"] /\ stt' = [stt EXCEPT !.pc = "get"]
      /\ trans' = [trans EXCEPT !.pc = "get"] /\ ptrans' = [ptrans EXCEPT !.pc = "wait"]
      /\ UNCHANGED <<streaming, next_seq, audio_in, stt_jobs, final_events, client_events,
                     stopping, force_close, utterance, partial, partials, latest_partial,
                     partial_jobs, finalized, segs>>
  BY DEF StartLoops
<1>2. /\ vad' \in VadRec /\ vad'.pc = "wait" /\ vad'.seg = vad.seg /\ vad'.tail = vad.tail
  BY <1>1, Types DEF VadRec, VadPc
<1>3. /\ stt' \in SttRec /\ stt'.pc = "get" /\ trans' \in TransRec /\ trans'.pc = "get"
      /\ ptrans' \in PtransRec /\ ptrans'.pc = "wait" /\ ptrans'.todo = ptrans.todo
  BY <1>1, BackTypes DEF SttRec, TransRec, PtransRec
<1>4. /\ vad.seg = NoSeg /\ vad.tail = <<>> /\ stt_jobs = <<>> /\ final_events = <<>> /\ ~partial
      /\ Ids = {} /\ Ids' = {} /\ Said = {} /\ Said' = {}
  <2>1. vad.pc = "off"
    BY DEF On
  <2>2. /\ vad.seg = NoSeg /\ vad.tail = <<>> /\ stt_jobs = <<>> /\ final_events = <<>> /\ ~partial
    BY <2>1 DEF PInv, Together, On
  <2>. QED
    BY <1>1, <2>2 DEF Ids, Said
<1>5. PipelineTypeOK'
  BY <1>1, <1>2, <1>3 DEF PInv, PipelineTypeOK, VadRec, SttRec, TransRec, PtransRec
<1>6. Together'
  BY <1>1, <1>2, <1>3, <1>4 DEF Together, On
<1>7. OpenOne'
  BY <1>2, <1>4 DEF OpenOne, On, Holding
<1>8. SttFlow'
  BY <1>1, <1>2, <1>3, <1>4 DEF SttFlow
<1>9. TransFlow'
  BY <1>1, <1>3, <1>4 DEF PInv, TransFlow
<1>10. Events'
  BY <1>1, <1>4 DEF PInv, Events
<1>11. Count'
  BY <1>1, <1>2, <1>4 DEF PInv, Count
<1>. QED
  BY <1>1, <1>2, <1>5, <1>6, <1>7, <1>8, <1>9, <1>10, <1>11 DEF PInv, On

LEMMA LoopsStop ==
    ASSUME PInv, StopLoops
    PROVE  PInv' /\ ~On' /\ client_events' = <<>> /\ ~partial' /\ UNCHANGED segs /\ Said' = Said
<1>1. /\ stopping' = TRUE /\ force_close' = FALSE
      /\ audio_in' = <<>> /\ stt_jobs' = <<>> /\ final_events' = <<>> /\ client_events' = <<>>
      /\ vad' = IdleVad /\ utterance' = Silent /\ partial' = FALSE /\ latest_partial' = "none"
      /\ stt' = [pc |-> "off", seg |-> NoSeg] /\ trans' = [pc |-> "off", seg |-> NoSeg]
      /\ ptrans' = [pc |-> "off", todo |-> {}, seg |-> NoSeg] /\ partial_jobs' = {}
      /\ UNCHANGED <<streaming, next_seq, partials, finalized, segs>>
  BY DEF StopLoops
<1>2. /\ vad' \in VadRec /\ vad'.pc = "off" /\ vad'.seg = NoSeg /\ vad'.tail = <<>>
      /\ utterance' \in Heard
  BY <1>1 DEF IdleVad, VadRec, VadPc, Silent, Heard, NoSeg
<1>3. Ids' = Ids /\ Said' = Said /\ ~On'
  BY <1>1, <1>2 DEF Ids, Said, On
<1>4. /\ stt' \in SttRec /\ stt'.pc = "off" /\ trans' \in TransRec /\ trans'.pc = "off"
      /\ ptrans' \in PtransRec /\ ptrans'.pc = "off" /\ ptrans'.todo = {}
  BY <1>1 DEF SttRec, TransRec, PtransRec, NoSeg
<1>5. PipelineTypeOK'
  <2>1. 0 <= AudioCap /\ 0 <= SttCap /\ 0 <= FinalCap /\ 0 <= ClientCap
    BY PipelineAssumption
  <2>2. /\ audio_in' \in Seq(Chunk) /\ Len(audio_in') <= AudioCap
        /\ stt_jobs' \in Seq(Nat) /\ Len(stt_jobs') <= SttCap
        /\ final_events' \in Seq(Nat) /\ Len(final_events') <= FinalCap
        /\ client_events' \in Seq(Event) /\ Len(client_events') <= ClientCap
    BY <1>1, <2>1
  <2>3. /\ partial' \in BOOLEAN /\ latest_partial' \in {"none", "mid", "sentence"}
        /\ partial_jobs' \subseteq DOMAIN segs' /\ stopping' \in BOOLEAN /\ force_close' \in BOOLEAN
    BY <1>1
  <2>. QED
    BY <1>1, <1>2, <1>4, <2>2, <2>3
       DEF PInv, PipelineTypeOK, VadRec, SttRec, TransRec, PtransRec, Heard, Chunk
<1>6. Together'
  BY <1>1, <1>2, <1>3, <1>4 DEF Together
<1>7. OpenOne'
  BY <1>2, <1>3 DEF OpenOne
<1>8. SttFlow'
  BY <1>1, <1>2, <1>3, <1>4 DEF SttFlow
<1>9. TransFlow'
  BY <1>1, <1>3, <1>4 DEF PInv, TransFlow
<1>10. Events'
  BY <1>1 DEF Events
<1>11. Count'
  <2>1. Len(segs) <= next_seq /\ Len(segs) \in Nat /\ next_seq \in Nat
    BY Room, Types
  <2>2. Len(segs) + 0 <= next_seq
    BY <2>1
  <2>. QED
    BY <1>1, <1>2, <2>2 DEF Count
<1>. QED
  BY <1>1, <1>3, <1>5, <1>6, <1>7, <1>8, <1>9, <1>10, <1>11 DEF PInv

LEMMA AudioIsFed ==
    ASSUME PInv, NEW speech \in BOOLEAN, FeedAudio(speech)
    PROVE  PInv' /\ On' = On /\ UNCHANGED <<client_events, segs, partial>>
<1> DEFINE chunk == [seq |-> next_seq + 1, speech |-> speech]
           room == IF Len(audio_in) < AudioCap THEN audio_in ELSE Tail(audio_in)
<1>1. /\ next_seq < MaxChunks /\ next_seq' = next_seq + 1 /\ audio_in' = Append(room, chunk)
      /\ UNCHANGED <<streaming, stt_jobs, final_events, client_events, stopping, force_close, vad,
              utterance, partial, partials, latest_partial, stt, trans, ptrans, partial_jobs,
              finalized, segs>>
  BY DEF FeedAudio
<1>2. next_seq' \in 0..MaxChunks /\ chunk \in Chunk /\ next_seq \in Nat
  <2>1. MaxChunks \in Nat /\ next_seq \in Nat
    BY Types, PipelineAssumption
  <2>2. next_seq + 1 \in 1..MaxChunks
    BY <1>1, <2>1
  <2>. QED
    BY <1>1, <2>1, <2>2 DEF Chunk, Frames
<1>3. room \in Seq(Chunk) /\ Len(room) < AudioCap /\ Len(room) <= Len(audio_in) /\ Len(room) \in Nat
  <2>1. audio_in \in Seq(Chunk) /\ Len(audio_in) <= AudioCap /\ AudioCap \in Nat \ {0}
        /\ Len(audio_in) \in Nat
    BY Types, PipelineAssumption
  <2>2. CASE Len(audio_in) < AudioCap
    BY <2>1, <2>2
  <2>3. CASE ~(Len(audio_in) < AudioCap)
    <3>1. audio_in # <<>>
      BY <2>1, <2>3
    <3>2. Tail(audio_in) \in Seq(Chunk) /\ Len(Tail(audio_in)) = Len(audio_in) - 1
          /\ Len(audio_in) \in Nat \ {0}
      BY <2>1, <3>1, TailFacts
    <3>. QED
      BY <2>1, <2>3, <3>2
  <2>. QED
    BY <2>2, <2>3
<1> HIDE DEF chunk, room
<1>4. /\ audio_in' \in Seq(Chunk) /\ Len(audio_in') = Len(room) + 1
  BY <1>1, <1>2, <1>3, AppendFacts
<1>5. Len(audio_in') <= AudioCap /\ Len(audio_in') <= Len(audio_in) + 1 /\ Len(audio_in') \in Nat
  BY <1>3, <1>4, Types
<1>6. PipelineTypeOK'
  BY <1>1, <1>2, <1>4, <1>5 DEF PInv, PipelineTypeOK, Chunk
<1>7. Together' /\ OpenOne' /\ Events'
  <2>1. Together'
    BY <1>1 DEF PInv, Together, On
  <2>2. OpenOne'
    BY <1>1 DEF PInv, OpenOne, On, Holding, Ids
  <2>3. Events'
    BY <1>1 DEF PInv, Events, Ids, Said
  <2>. QED
    BY <2>1, <2>2, <2>3
<1>8. SttFlow'
  BY <1>1 DEF PInv, SttFlow, On, Ids
<1>9. TransFlow'
  BY <1>1 DEF PInv, TransFlow, On, Ids, Said
<1>10. Count'
  <2>0. Len(segs) \in Nat /\ Len(audio_in) \in Nat
    BY Types
  <2>1. CASE streaming \/ vad.seg = NoSeg
    <3>1. Len(segs) + Len(audio_in) <= next_seq
      BY <2>1 DEF PInv, Count
    <3>2. Len(segs) + Len(audio_in') <= next_seq + 1
      BY <1>2, <1>5, <2>0, <3>1
    <3>. QED
      BY <1>1, <2>1, <3>2 DEF PInv, Count
  <2>2. CASE ~streaming /\ vad.seg # NoSeg
    <3> DEFINE x == Len(segs[vad.seg].audio)
               y == Len(vad.tail)
    <3>1. segs[vad.seg].audio \in Seq(Frames) /\ vad.tail \in Seq(Frames)
      BY <2>2, Types
    <3>2. x \in Nat /\ y \in Nat
      BY <3>1
    <3>3. x > 0 /\ Len(segs) + Len(audio_in) + x + y <= next_seq + 1
      BY <2>2 DEF PInv, Count
    <3>4. x' = x /\ y' = y
      BY <1>1
    <3> HIDE DEF x, y
    <3>5. Len(segs) + Len(audio_in') + x + y <= (next_seq + 1) + 1
      BY <1>2, <1>5, <2>0, <3>2, <3>3
    <3>. QED
      BY <1>1, <2>2, <3>3, <3>4, <3>5 DEF Count, x, y
  <2>. QED
    BY <2>1, <2>2, Types
<1>. QED
  BY <1>1, <1>6, <1>7, <1>8, <1>9, <1>10 DEF PInv, On

LEMMA LoopsAreSignalled ==
    ASSUME PInv, NEW stop \in BOOLEAN, NEW close \in BOOLEAN, Signal(stop, close)
    PROVE  PInv' /\ On' = On /\ UNCHANGED <<client_events, segs, partial>>
<1>1. /\ stopping' \in BOOLEAN /\ force_close' \in BOOLEAN
      /\ UNCHANGED <<streaming, next_seq, audio_in, stt_jobs, final_events, client_events, vad,
              utterance, partial, partials, latest_partial, stt, trans, ptrans, partial_jobs,
              finalized, segs>>
  BY Types DEF Signal
<1>2. PipelineTypeOK'
  BY <1>1 DEF PInv, PipelineTypeOK
<1>3. Together'
  BY <1>1 DEF PInv, Together, On
<1>4. OpenOne'
  BY <1>1 DEF PInv, OpenOne, On, Holding, Ids
<1>5. SttFlow'
  BY <1>1 DEF PInv, SttFlow, On, Ids
<1>6. TransFlow'
  BY <1>1 DEF PInv, TransFlow, On, Ids, Said
<1>7. Events'
  BY <1>1 DEF PInv, Events, Ids, Said
<1>8. Count'
  BY <1>1 DEF PInv, Count
<1>. QED
  BY <1>1, <1>2, <1>3, <1>4, <1>5, <1>6, <1>7, <1>8 DEF PInv, On

LEMMA LoopsStutter ==
    ASSUME PInv, UNCHANGED pipelineVars
    PROVE  PInv' /\ On' = On /\ UNCHANGED <<client_events, segs, partial>>
<1>1. UNCHANGED <<streaming, next_seq, audio_in, stt_jobs, final_events, client_events, stopping,
              force_close, vad, utterance, partial, partials, latest_partial, stt, trans, ptrans,
              partial_jobs, finalized, segs>>
  BY DEF pipelineVars
<1>2. Signal(FALSE, FALSE)
  <2>1. stopping \in BOOLEAN /\ force_close \in BOOLEAN
    BY Types
  <2>. QED
    BY <1>1, <2>1 DEF Signal
<1>. QED
  BY <1>2, LoopsAreSignalled

-----------------------------------------------------------------------------
(***************************************************************************)
(* What the handler does to the session: the transcript stays as it is,    *)
(* and the pump goes on with the event it holds or drops it.               *)
(***************************************************************************)
Holds == UNCHANGED sending /\ (pump' = pump \/ (pump = "off" /\ pump' = "get"))
Drops == sending' = NoEvent /\ pump' = "off" /\ ~On'

LEMMA HandlerKeeps ==
    ASSUME IInv, PInv', UNCHANGED <<segs, transcript>>, Holds \/ Drops,
           UNCHANGED client_events \/ client_events' = <<>>,
           ~On' \/ segs = <<>> \/ (On /\ UNCHANGED client_events),
           faults' \in 0..MaxFaults, handler' \in HandlerPc, ended_at' = ended_at,
           status' \in {"none", "recording", "ready"}, refine' \in BOOLEAN, Closed'
    PROVE  IInv'
<1>1. /\ UNCHANGED <<segs, seen, rows, ord, unstored>> /\ Ids' = Ids /\ Said' = Said
      /\ PInv /\ PInv'
  BY DEF transcript, Ids, Said, IInv
<1>2. NoEvent.type = "error" /\ NoEvent \in Event
  BY DEF NoEvent, Event, EventType, NoSeg
<1>3. TypeOK'
  BY <1>1, <1>2 DEF IInv, TypeOK, PInv, Holds, Drops
<1>4. \A i \in 1..Len(client_events') :
          i \in 1..Len(client_events) /\ client_events'[i] = client_events[i]
  <2>1. Len(<<>>) = 0
    OBVIOUS
  <2>. QED
    BY <2>1
<1>5. CASE Holds
  <2>1. Pumped'
    BY <1>1, <1>4, <1>5 DEF IInv, Pumped, Holds, IsRow, IsPartial
  <2>2. Sent'
    <3>1. On' /\ pump' # "dead" => \A s \in Said :
              \/ s \in seen
              \/ sending.type = "final" /\ sending.seg = s
              \/ \E i \in 1..Len(client_events') :
                    client_events'[i].type = "final" /\ client_events'[i].seg = s
      <4>1. CASE segs = <<>>
        BY <4>1 DEF Said, Ids
      <4>2. CASE On /\ UNCHANGED client_events
        BY <1>5, <4>2 DEF IInv, Sent, Holds
      <4>. QED
        BY <4>1, <4>2
    <3>. QED
      BY <1>1, <1>4, <1>5, <3>1 DEF IInv, Sent, Holds
  <2>3. Stored'
    BY <1>1, <1>4, <1>5 DEF IInv, Stored, Holds, Segs
  <2>4. SentFinalIsStored' /\ FinalsInOrder'
    BY <1>1 DEF IInv, SentFinalIsStored, FinalsInOrder
  <2>. QED
    BY <1>1, <1>3, <2>1, <2>2, <2>3, <2>4 DEF IInv
<1>6. CASE Drops
  <2>1. Pumped'
    BY <1>2, <1>6 DEF Pumped, Drops
  <2>2. Sent'
    BY <1>1, <1>2, <1>4, <1>6 DEF IInv, Sent, Drops
  <2>3. Stored'
    BY <1>1, <1>2, <1>4, <1>6 DEF IInv, Stored, Drops, Segs
  <2>4. SentFinalIsStored' /\ FinalsInOrder'
    BY <1>1 DEF IInv, SentFinalIsStored, FinalsInOrder
  <2>. QED
    BY <1>1, <1>3, <2>1, <2>2, <2>3, <2>4 DEF IInv
<1>. QED
  BY <1>5, <1>6

LEMMA FaultCount ==
    ASSUME IInv, StoreRaises \/ StoreWrites
    PROVE  faults' \in 0..MaxFaults
<1>1. faults \in 0..MaxFaults
  BY DEF IInv, TypeOK
<1>2. CASE StoreWrites
  BY <1>1, <1>2 DEF StoreWrites
<1>3. CASE StoreRaises
  <2>1. faults < MaxFaults /\ faults' = faults + 1
    BY <1>3 DEF StoreRaises
  <2>. QED
    BY <1>1, <2>1, SessionAssumption
<1>. QED
  BY <1>2, <1>3

LEMMA OpeningKeeps ==
    ASSUME IInv, Refuse \/ StartPipeline \/ OpenRecording \/ CreateRow
    PROVE  IInv'
<1>1. PInv /\ Closed /\ TypeOK
  BY DEF IInv
<1>2. CASE Refuse
  <2>1. /\ handler = "connecting" /\ handler' = "ended"
        /\ UNCHANGED <<pipelineVars, pump, sending, transcript, faults, ended_at, status, refine>>
    BY <1>2 DEF Refuse
  <2>2. PInv' /\ On' = On /\ UNCHANGED <<client_events, segs, partial>>
    BY <1>1, <2>1, LoopsStutter
  <2>3. Closed' /\ ~On'
    BY <1>1, <2>1, <2>2 DEF Closed
  <2>4. handler' \in HandlerPc
    BY <2>1 DEF HandlerPc
  <2>. QED
    BY <1>1, <2>1, <2>2, <2>3, <2>4, HandlerKeeps DEF TypeOK, Holds
<1>3. CASE StartPipeline
  <2>1. /\ handler = "connecting" /\ UNCHANGED <<pump, sending, transcript, faults, ended_at, status, refine>>
        /\ ~On /\ segs = <<>> /\ pump = "off" /\ ~refine
    BY <1>1, <1>3 DEF StartPipeline, handlerFrame, Closed
  <2>2. CASE StartLoops /\ handler' = "built"
    <3>1. PInv' /\ On' /\ UNCHANGED <<client_events, segs, partial>>
      BY <1>1, <2>1, <2>2, LoopsStart
    <3>2. Closed'
      BY <2>1, <2>2, <3>1 DEF Closed
    <3>3. handler' \in HandlerPc
      BY <2>2 DEF HandlerPc
    <3>. QED
      BY <1>1, <2>1, <3>1, <3>2, <3>3, HandlerKeeps DEF TypeOK, Holds
  <2>3. CASE StopLoops /\ handler' = "stopped"
    <3>1. PInv' /\ ~On' /\ client_events' = <<>> /\ ~partial' /\ UNCHANGED segs
      BY <1>1, <2>3, LoopsStop
    <3>2. Closed'
      BY <2>1, <2>3, <3>1 DEF Closed
    <3>3. handler' \in HandlerPc
      BY <2>3 DEF HandlerPc
    <3>. QED
      BY <1>1, <2>1, <3>1, <3>2, <3>3, HandlerKeeps DEF TypeOK, Holds
  <2>. QED
    BY <1>3, <2>2, <2>3 DEF StartPipeline
<1>4. CASE OpenRecording
  <2>1. /\ handler = "built" /\ UNCHANGED <<pump, sending, transcript, faults, ended_at, status, refine>>
        /\ On /\ pump = "off" /\ ~refine
    BY <1>1, <1>4 DEF OpenRecording, handlerFrame, Closed
  <2>2. CASE handler' = "recorder" /\ UNCHANGED pipelineVars
    <3>1. PInv' /\ On' = On /\ UNCHANGED <<client_events, segs, partial>>
      BY <1>1, <2>2, LoopsStutter
    <3>2. Closed'
      BY <2>1, <2>2, <3>1 DEF Closed
    <3>3. handler' \in HandlerPc
      BY <2>2 DEF HandlerPc
    <3>. QED
      BY <1>1, <2>1, <3>1, <3>2, <3>3, HandlerKeeps DEF TypeOK, Holds
  <2>3. CASE handler' = "stopped" /\ StopLoops
    <3>1. PInv' /\ ~On' /\ client_events' = <<>> /\ ~partial' /\ UNCHANGED segs
      BY <1>1, <2>3, LoopsStop
    <3>2. Closed'
      BY <2>1, <2>3, <3>1 DEF Closed
    <3>3. handler' \in HandlerPc
      BY <2>3 DEF HandlerPc
    <3>. QED
      BY <1>1, <2>1, <3>1, <3>2, <3>3, HandlerKeeps DEF TypeOK, Holds
  <2>. QED
    BY <1>4, <2>2, <2>3 DEF OpenRecording
<1>5. CASE CreateRow
  <2>1. /\ handler = "recorder" /\ handler' = "running" /\ pump' = "get" /\ pump = "off"
        /\ UNCHANGED <<pipelineVars, sending, transcript, ended_at, refine>> /\ ~refine /\ On
        /\ status' \in {"recording", status}
    BY <1>1, <1>5 DEF CreateRow, Closed
  <2>2. PInv' /\ On' = On /\ UNCHANGED <<client_events, segs, partial>>
    BY <1>1, <2>1, LoopsStutter
  <2>3. Closed'
    BY <2>1, <2>2 DEF Closed
  <2>4. handler' \in HandlerPc /\ faults' \in 0..MaxFaults
    BY <1>5, <2>1, FaultCount DEF HandlerPc, CreateRow
  <2>. QED
    BY <1>1, <2>1, <2>2, <2>3, <2>4, HandlerKeeps DEF TypeOK, Holds
<1>. QED
  BY <1>2, <1>3, <1>4, <1>5

LEMMA ReceivingKeeps ==
    ASSUME IInv, Audio \/ Pause \/ Stop
    PROVE  IInv'
<1>1. PInv /\ Closed /\ TypeOK
  BY DEF IInv
<1>2. /\ UNCHANGED <<pump, sending, transcript, faults, ended_at, status, refine>>
      /\ handler' = handler \/ (handler = "running" /\ handler' = "flushing")
  BY DEF Audio, Pause, Stop, sessionVars, transcript
<1>3. PInv' /\ On' = On /\ UNCHANGED <<client_events, segs, partial>>
  BY <1>1, AudioIsFed, LoopsAreSignalled DEF Audio, Pause, Stop
<1>4. On
  BY <1>1 DEF Audio, Pause, Stop, Closed, On
<1>5. Closed' /\ handler' \in HandlerPc
  BY <1>1, <1>2, <1>3 DEF Closed, HandlerPc, TypeOK
<1>. QED
  BY <1>1, <1>2, <1>3, <1>4, <1>5, HandlerKeeps DEF TypeOK, Holds

LEMMA EndingKeeps ==
    ASSUME IInv, Disconnect \/ Cleanup
    PROVE  IInv'
<1>1. PInv /\ Closed /\ TypeOK
  BY DEF IInv
<1>2. CASE StopTasks
  <2>1. /\ handler' = "stopped" /\ StopLoops /\ pump' = "off" /\ sending' = NoEvent
        /\ UNCHANGED <<transcript, faults, ended_at, status, refine>>
    BY <1>2 DEF StopTasks
  <2>2. PInv' /\ ~On' /\ client_events' = <<>> /\ ~partial' /\ UNCHANGED segs
    BY <1>1, <2>1, LoopsStop
  <2>3. ~refine
    <3>1. handler # "ended"
      BY DEF Disconnect, Cleanup, Flushed, FlushTimeout, Linger, StampDuration, FinishSession
    <3>. QED
      BY <1>1, <3>1 DEF Closed
  <2>4. Closed' /\ handler' \in HandlerPc
    BY <2>1, <2>2, <2>3 DEF Closed, HandlerPc
  <2>. QED
    BY <1>1, <2>1, <2>2, <2>4, HandlerKeeps DEF TypeOK, Drops
<1>3. CASE Flushed
  <2>1. /\ handler = "flushing" /\ handler' = "drained"
        /\ UNCHANGED <<pipelineVars, pump, sending, transcript, faults, ended_at, status, refine>>
    BY <1>3 DEF Flushed, handlerFrame
  <2>2. PInv' /\ On' = On /\ UNCHANGED <<client_events, segs, partial>>
    BY <1>1, <2>1, LoopsStutter
  <2>3. Closed' /\ handler' \in HandlerPc /\ On
    BY <1>1, <2>1, <2>2 DEF Closed, HandlerPc
  <2>. QED
    BY <1>1, <2>1, <2>2, <2>3, HandlerKeeps DEF TypeOK, Holds
<1>4. CASE StampDuration \/ FinishSession
  <2>1. /\ handler \in {"stopped", "stamped"} /\ handler' \in {"stamped", "ended"}
        /\ UNCHANGED <<pipelineVars, pump, sending, transcript, ended_at>>
        /\ status' \in {status, "ready"} /\ refine' \in BOOLEAN
        /\ refine' => handler' = "ended" \/ refine
    <3>1. CASE StampDuration
      <4>1. /\ handler = "stopped" /\ handler' = "stamped"
            /\ UNCHANGED <<pipelineVars, pump, sending, transcript, ended_at, status, refine>>
        BY <3>1 DEF StampDuration
      <4>2. refine \in BOOLEAN
        BY <1>1 DEF TypeOK
      <4>. QED
        BY <4>1, <4>2
    <3>2. CASE FinishSession
      <4>1. /\ handler = "stamped" /\ handler' = "ended"
            /\ UNCHANGED <<pipelineVars, pump, sending, transcript, ended_at>>
            /\ status' \in {status, "ready"}
        BY <3>2 DEF FinishSession
      <4>2. refine' = refine \/ refine' \in IF next_seq > 0 /\ ended_at THEN BOOLEAN ELSE {FALSE}
        BY <3>2 DEF FinishSession
      <4>3. refine \in BOOLEAN
        BY <1>1 DEF TypeOK
      <4>4. refine' \in BOOLEAN
        BY <4>2, <4>3, Zenon
      <4>. QED
        BY <4>1, <4>4
    <3>. QED
      BY <1>4, <3>1, <3>2
  <2>2. PInv' /\ On' = On /\ UNCHANGED <<client_events, segs, partial>>
    BY <1>1, <2>1, LoopsStutter
  <2>3. Closed' /\ handler' \in HandlerPc /\ ~On'
    BY <1>1, <2>1, <2>2 DEF Closed, HandlerPc
  <2>4. faults' \in 0..MaxFaults
    BY <1>4, FaultCount DEF StampDuration, FinishSession
  <2>. QED
    BY <1>1, <2>1, <2>2, <2>3, <2>4, HandlerKeeps DEF TypeOK, Holds
<1>. QED
  BY <1>2, <1>3, <1>4 DEF Disconnect, Cleanup, FlushTimeout, Linger

LEMMA StutterKeeps ==
    ASSUME IInv, UNCHANGED vars
    PROVE  IInv'
<1>1. PInv /\ Closed /\ TypeOK
  BY DEF IInv
<1>2. UNCHANGED <<pipelineVars, handler, pump, sending, transcript, faults, ended_at, status, refine>>
  BY DEF vars, sessionVars, transcript
<1>3. PInv' /\ On' = On /\ UNCHANGED <<client_events, segs, partial>>
  BY <1>1, <1>2, LoopsStutter
<1>4. Closed'
  BY <1>1, <1>2, <1>3 DEF Closed
<1>. QED
  BY <1>1, <1>2, <1>3, <1>4, HandlerKeeps DEF TypeOK, Holds

-----------------------------------------------------------------------------
(***************************************************************************)
(* The pump.  First: what it finds when it takes an event off the queue.   *)
(***************************************************************************)
LEMMA EventTaken ==
    ASSUME IInv, client_events # <<>>, client_events' = Tail(client_events), UNCHANGED pumpFrame
    PROVE  LET e == Head(client_events) IN
           /\ PInv' /\ On /\ On' /\ Ids' = Ids /\ Said' = Said /\ e \in Event
           /\ e.type # "error" => e.seg \in Ids
           /\ e.type = "final" => e.seg \in Said
           /\ \E i \in 1..Len(client_events) : client_events[i] = e
           /\ \A i \in 1..Len(client_events') : \E k \in 1..Len(client_events) :
                 client_events'[i] = client_events[k]
           /\ \A i \in 1..Len(client_events) : \/ client_events[i] = e
                 \/ \E k \in 1..Len(client_events') : client_events'[k] = client_events[i]
           /\ e.type = "final" => \A i \in 1..Len(client_events') :
                 /\ client_events'[i].type = "final" => e.seg < client_events'[i].seg
                 /\ client_events'[i].type = "partial" => client_events'[i].seg # e.seg
<1> DEFINE e == Head(client_events)
           m == Len(client_events)
<1>1. PInv /\ Closed /\ client_events \in Seq(Event) /\ Len(client_events) <= ClientCap /\ ClientCap \in Nat
  BY PipelineAssumption DEF IInv, PInv, PipelineTypeOK
<1>2. /\ e \in Event /\ e = client_events[1] /\ client_events' \in Seq(Event)
      /\ m \in Nat \ {0} /\ Len(client_events') = m - 1
      /\ \A i \in 1..Len(client_events') : client_events'[i] = client_events[i + 1]
  BY <1>1, TailFacts
<1>3. m = Len(client_events)
  OBVIOUS
<1>4. /\ UNCHANGED <<streaming, next_seq, audio_in, stt_jobs, final_events, stopping, force_close,
           vad, utterance, partial, partials, latest_partial, stt, trans, ptrans, partial_jobs,
           finalized, segs>>
      /\ Ids' = Ids /\ Said' = Said /\ On' = On
  BY DEF pumpFrame, Ids, Said, On
<1> HIDE DEF e, m
<1>5. /\ 1 \in 1..m /\ \A i \in 1..m - 1 : i + 1 \in 1..m /\ 1 < i + 1
      /\ \A i \in 1..m : i = 1 \/ (i - 1 \in 1..m - 1 /\ (i - 1) + 1 = i)
  BY <1>2
<1>6. \A i \in 1..Len(client_events') : \E k \in 1..m : client_events'[i] = client_events[k] /\ k = i + 1
  BY <1>2, <1>5
<1>7. \A i \in 1..m : \/ client_events[i] = e
                      \/ \E k \in 1..Len(client_events') : client_events'[k] = client_events[i]
  BY <1>2, <1>5
<1>8. /\ e.type # "error" => e.seg \in Ids
      /\ e.type = "final" => e.seg \in Said
  BY <1>1, <1>2, <1>3, <1>5 DEF PInv, Events
<1>9. e.type = "final" => \A i \in 1..Len(client_events') :
          /\ client_events'[i].type = "final" => e.seg < client_events'[i].seg
          /\ client_events'[i].type = "partial" => client_events'[i].seg # e.seg
  BY <1>1, <1>2, <1>3, <1>5 DEF PInv, Events
<1>10. Events'
  <2>1. \A i \in 1..Len(client_events') :
          /\ client_events'[i].type # "error" => client_events'[i].seg \in Ids
          /\ client_events'[i].type = "final" => client_events'[i].seg \in Said
    BY <1>1, <1>3, <1>6 DEF PInv, Events
  <2>2. ASSUME NEW i \in 1..Len(client_events'), NEW k \in 1..Len(client_events'), i < k,
               client_events'[i].type = "final"
        PROVE  /\ client_events'[k].type = "final" => client_events'[i].seg < client_events'[k].seg
               /\ client_events'[k].type = "partial" => client_events'[i].seg # client_events'[k].seg
    <3>1. /\ i + 1 \in 1..m /\ k + 1 \in 1..m /\ i + 1 < k + 1
          /\ client_events'[i] = client_events[i + 1] /\ client_events'[k] = client_events[k + 1]
      <4>1. i \in 1..m - 1 /\ k \in 1..m - 1 /\ m \in Nat
        BY <1>2
      <4>2. i + 1 \in 1..m /\ k + 1 \in 1..m /\ i + 1 < k + 1
        BY <2>2, <4>1
      <4>. QED
        BY <1>2, <4>2
    <3>. QED
      BY <1>1, <1>3, <2>2, <3>1 DEF PInv, Events
  <2>. QED
    BY <1>4, <2>1, <2>2 DEF Events
<1>11. PInv'
  <2>1. Len(client_events') <= ClientCap
    BY <1>1, <1>2, <1>3
  <2>2. PipelineTypeOK'
    BY <1>1, <1>2, <1>4, <2>1 DEF PInv, PipelineTypeOK
  <2>3. Together' /\ OpenOne'
    BY <1>1, <1>4 DEF PInv, Together, OpenOne
  <2>4. SttFlow'
    BY <1>1, <1>4 DEF PInv, SttFlow
  <2>5. TransFlow'
    BY <1>1, <1>4 DEF PInv, TransFlow
  <2>6. Count'
    BY <1>1, <1>4 DEF PInv, Count
  <2>. QED
    BY <1>10, <2>2, <2>3, <2>4, <2>5, <2>6 DEF PInv
<1>12. On
  BY <1>1 DEF Closed
<1>13. \E i \in 1..m : client_events[i] = e
  BY <1>2, <1>5
<1>. QED
  BY <1>2, <1>3, <1>4, <1>6, <1>7, <1>8, <1>9, <1>11, <1>12, <1>13 DEF e

(* A write keeps every other row, and a final's is final or is missing.    *)
LEMMA FirstSight ==
    ASSUME NEW S, NEW q \in Seq(S), NEW s \in S, s \notin ToSet(q),
           \A i, j \in DOMAIN q : q[i] = q[j] => i = j
    PROVE  /\ Append(q, s) \in Seq(S)
           /\ \A i, j \in DOMAIN Append(q, s) : Append(q, s)[i] = Append(q, s)[j] => i = j
<1> DEFINE a == Append(q, s)
           n == Len(q)
<1>1. /\ a \in Seq(S) /\ Len(a) = n + 1 /\ n \in Nat /\ a[n + 1] = s
      /\ \A i \in 1..n : a[i] = q[i]
  BY AppendFacts
<1>2. DOMAIN a = 1..n + 1 /\ DOMAIN q = 1..n
  BY <1>1
<1>3. \A i \in 1..n : q[i] # s
  BY <1>2 DEF ToSet
<1>4. \A i, j \in 1..n : q[i] = q[j] => i = j
  BY <1>2
<1> HIDE DEF a, n
<1>5. ASSUME NEW i \in 1..n + 1, NEW j \in 1..n + 1, a[i] = a[j] PROVE i = j
  <2>1. (i \in 1..n \/ i = n + 1) /\ (j \in 1..n \/ j = n + 1)
    BY <1>1
  <2>. QED
    BY <1>1, <1>3, <1>4, <1>5, <2>1
<1>. QED
  BY <1>1, <1>2, <1>5 DEF a

LEMMA Writes ==
    ASSUME IInv, NEW e \in Event, e.type # "error" => e.seg \in Ids, Persist(e)
    PROVE  /\ ended_at' \in BOOLEAN /\ faults' \in 0..MaxFaults
           /\ ord' \in Seq(Segs) /\ \A i, j \in DOMAIN ord' : ord'[i] = ord'[j] => i = j
           /\ unstored \subseteq unstored' /\ unstored' \subseteq Segs
           /\ rows' \in [Segs -> Orig]
           /\ \A s \in Segs : rows'[s] = rows[s]
                              \/ (IsRow(e) /\ s = e.seg /\ rows'[s] = Row(rows[s], e))
           /\ e.type = "final" => e.seg \in unstored' \/ rows'[e.seg] = "final"
<1>1. /\ ended_at \in BOOLEAN /\ rows \in [Segs -> Orig] /\ ord \in Seq(Segs)
      /\ \A i, j \in DOMAIN ord : ord[i] = ord[j] => i = j
      /\ unstored \subseteq Segs /\ faults \in 0..MaxFaults
  BY DEF IInv, TypeOK
<1>2. ended_at' \in BOOLEAN
  BY <1>1 DEF Persist
<1>3. IsRow(e) => e.seg \in Segs
  BY Room DEF IInv, IsRow
<1>4. ord' \in Seq(Segs) /\ \A i, j \in DOMAIN ord' : ord'[i] = ord'[j] => i = j
  <2>1. CASE IsRow(e) /\ e.seg \notin ToSet(ord)
    <3>1. ord' = Append(ord, e.seg)
      BY <2>1 DEF Persist
    <3>2. e.seg \in Segs
      BY <1>3, <2>1
    <3>3. /\ Append(ord, e.seg) \in Seq(Segs)
          /\ \A i, j \in DOMAIN Append(ord, e.seg) :
                Append(ord, e.seg)[i] = Append(ord, e.seg)[j] => i = j
      BY <1>1, <2>1, <3>2, FirstSight
    <3>. QED
      BY <3>1, <3>3
  <2>2. CASE ~(IsRow(e) /\ e.seg \notin ToSet(ord))
    <3>1. ord' = ord
      BY <2>2 DEF Persist
    <3>. QED
      BY <1>1, <3>1
  <2>. QED
    BY <2>1, <2>2
<1>5. CASE ~IsRow(e)
  <2>1. UNCHANGED <<rows, unstored, faults>>
    BY <1>5 DEF Persist
  <2>2. e.type # "final"
    BY <1>5 DEF IsRow
  <2>. QED
    BY <1>1, <1>2, <1>4, <2>1, <2>2
<1>6. CASE IsRow(e) /\ StoreWrites /\ rows' = [rows EXCEPT ![e.seg] = Row(@, e)] /\ UNCHANGED unstored
  <2>1. \A s \in Segs : rows'[s] = IF s = e.seg THEN Row(rows[s], e) ELSE rows[s]
    BY <1>1, <1>6
  <2>2. Row(rows[e.seg], e) \in Orig
    BY <1>1, <1>3, <1>6 DEF Row, Orig
  <2>3. rows' \in [Segs -> Orig]
    BY <1>1, <1>6, <2>2
  <2>4. e.type = "final" => rows'[e.seg] = "final"
    BY <1>3, <1>6, <2>1 DEF Row
  <2>. QED
    BY <1>1, <1>2, <1>4, <1>6, <2>1, <2>3, <2>4, FaultCount
<1>7. CASE IsRow(e) /\ StoreRaises /\ unstored' = unstored \cup {e.seg} /\ UNCHANGED rows
  BY <1>1, <1>2, <1>3, <1>4, <1>7, FaultCount
<1>. QED
  BY <1>5, <1>6, <1>7 DEF Persist

(* A row is made final by a final only, and undone by a partial only.       *)
LEMMA RowFacts ==
    ASSUME NEW e \in Event, NEW r \in Orig
    PROVE  /\ Row(r, e) = "final" => r = "final" \/ e.type = "final"
           /\ r = "final" /\ e.type # "partial" => Row(r, e) = "final"
BY DEF Row, Orig

(* A step of the pump leaves the handler alone.                            *)
LEMMA PumpTypes ==
    ASSUME IInv, PInv', UNCHANGED <<handler, status, refine>>, On, On', pump # "off",
           pump' \in {"get", "send", "store", "dead"}, sending' \in Event,
           seen' \subseteq Segs, rows' \in [Segs -> Orig],
           ord' \in Seq(Segs), \A i, j \in DOMAIN ord' : ord'[i] = ord'[j] => i = j,
           unstored' \subseteq Segs, faults' \in 0..MaxFaults, ended_at' \in BOOLEAN,
           segs' = segs
    PROVE  TypeOK' /\ Closed'
<1>1. TypeOK'
  BY DEF IInv, TypeOK, PInv
<1>2. Closed'
  BY DEF IInv, Closed
<1>. QED
  BY <1>1, <1>2

LEMMA PumpStoreFirstKeeps ==
    ASSUME IInv, PumpStoreFirst
    PROVE  IInv'
<1> DEFINE e == Head(client_events)
<1>1. /\ pump = "get" /\ client_events # <<>> /\ client_events' = Tail(client_events)
      /\ ~IsPartial(e) /\ Persist(e) /\ UNCHANGED pumpFrame /\ seen' = seen
      /\ \/ IsRow(e) /\ pump' = "send" /\ sending' = e
         \/ ~IsRow(e) /\ UNCHANGED <<pump, sending>>
  BY DEF PumpStoreFirst, EventWaits
<1>2. /\ PInv' /\ On /\ On' /\ Ids' = Ids /\ Said' = Said /\ e \in Event
      /\ e.type # "error" => e.seg \in Ids
      /\ e.type = "final" => e.seg \in Said
      /\ \E i \in 1..Len(client_events) : client_events[i] = e
      /\ \A i \in 1..Len(client_events') : \E k \in 1..Len(client_events) :
            client_events'[i] = client_events[k]
      /\ \A i \in 1..Len(client_events) : \/ client_events[i] = e
            \/ \E k \in 1..Len(client_events') : client_events'[k] = client_events[i]
      /\ e.type = "final" => \A i \in 1..Len(client_events') :
            /\ client_events'[i].type = "final" => e.seg < client_events'[i].seg
            /\ client_events'[i].type = "partial" => client_events'[i].seg # e.seg
  BY <1>1, EventTaken
<1> HIDE DEF e
<1>3. /\ sending = NoEvent /\ NoEvent \in Event /\ NoEvent.type = "error"
      /\ UNCHANGED <<handler, status, refine, segs>>
  BY <1>1 DEF IInv, Pumped, NoEvent, Event, EventType, NoSeg, pumpFrame
<1>4. /\ ended_at' \in BOOLEAN /\ faults' \in 0..MaxFaults
      /\ ord' \in Seq(Segs) /\ \A i, j \in DOMAIN ord' : ord'[i] = ord'[j] => i = j
      /\ unstored \subseteq unstored' /\ unstored' \subseteq Segs
      /\ rows' \in [Segs -> Orig]
      /\ \A s \in Segs : rows'[s] = rows[s]
                         \/ (IsRow(e) /\ s = e.seg /\ rows'[s] = Row(rows[s], e))
      /\ e.type = "final" => e.seg \in unstored' \/ rows'[e.seg] = "final"
  BY <1>1, <1>2, Writes
<1>5. /\ sending' \in {e, NoEvent} /\ pump' \in {"get", "send"}
      /\ (pump' = "send" /\ sending' = e /\ IsRow(e))
           \/ (pump' = "get" /\ sending' = NoEvent /\ ~IsRow(e))
      /\ e.type \notin {"partial", "trans_partial"}
  BY <1>1, <1>3 DEF IsPartial
<1>6. rows \in [Segs -> Orig] /\ seen \subseteq Segs /\ Ids \subseteq Segs
  BY Room DEF IInv, TypeOK
<1>7. \A s \in Segs : /\ rows[s] = "final" => rows'[s] = "final"
                      /\ rows'[s] = "final" => rows[s] = "final" \/ (e.type = "final" /\ s = e.seg)
  BY <1>2, <1>4, <1>5, <1>6, RowFacts
<1>8. TypeOK' /\ Closed'
  BY <1>1, <1>2, <1>3, <1>4, <1>5, <1>6, PumpTypes
<1>9. Pumped'
  <2>1. CASE pump' = "get" /\ sending' = NoEvent
    BY <1>3, <2>1 DEF Pumped
  <2>2. CASE pump' = "send" /\ sending' = e /\ IsRow(e)
    <3>1. IsRow(sending)' /\ ~IsPartial(sending)'
      BY <1>5, <2>2 DEF IsRow, IsPartial
    <3>. QED
      BY <1>2, <1>4, <2>2, <3>1 DEF Pumped
  <2>. QED
    BY <1>5, <2>1, <2>2
<1>10. Sent'
  <2>1. seen \subseteq Said
    BY DEF IInv, Sent
  <2>2. \A s \in seen : \A i \in 1..Len(client_events') :
            client_events'[i].type = "final" => s < client_events'[i].seg
    BY <1>2 DEF IInv, Sent
  <2>3. \A s \in seen : e.type = "final" => s < e.seg
    BY <1>2 DEF IInv, Sent
  <2>4. ASSUME NEW s \in Said
        PROVE  \/ s \in seen
               \/ sending'.type = "final" /\ sending'.seg = s
               \/ \E i \in 1..Len(client_events') :
                     client_events'[i].type = "final" /\ client_events'[i].seg = s
    <3>1. \/ s \in seen
          \/ \E i \in 1..Len(client_events) :
                client_events[i].type = "final" /\ client_events[i].seg = s
      BY <1>1, <1>2, <1>3, <2>4 DEF IInv, Sent
    <3>2. e.type = "final" => sending' = e
      BY <1>5 DEF IsRow
    <3>. QED
      BY <1>2, <3>1, <3>2
  <2>. QED
    BY <1>1, <1>2, <1>3, <1>5, <2>1, <2>2, <2>3, <2>4 DEF Sent
<1>11. Stored'
  <2>1. ASSUME NEW s \in Segs, rows'[s] = "final"
        PROVE  /\ s \in Said
               /\ \A i \in 1..Len(client_events') :
                     client_events'[i].type = "partial" => client_events'[i].seg # s
               /\ sending'.type # "partial"
    <3>1. sending'.type # "partial"
      BY <1>3, <1>5
    <3>2. CASE rows[s] = "final"
      <4>1. s \in Said /\ \A i \in 1..Len(client_events) :
                client_events[i].type = "partial" => client_events[i].seg # s
        BY <3>2 DEF IInv, Stored
      <4>. QED
        BY <1>2, <3>1, <4>1
    <3>3. CASE e.type = "final" /\ s = e.seg
      BY <1>2, <3>1, <3>3
    <3>. QED
      BY <1>7, <2>1, <3>2, <3>3
  <2>. QED
    BY <1>2, <2>1 DEF Stored, Segs
<1>12. SentFinalIsStored' /\ FinalsInOrder'
  BY <1>1, <1>3, <1>4, <1>6, <1>7 DEF IInv, SentFinalIsStored, FinalsInOrder
<1>. QED
  BY <1>2, <1>8, <1>9, <1>10, <1>11, <1>12 DEF IInv

LEMMA PumpSendFirstKeeps ==
    ASSUME IInv, PumpSendFirst
    PROVE  IInv'
<1> DEFINE e == Head(client_events)
<1>1. /\ pump = "get" /\ client_events # <<>> /\ client_events' = Tail(client_events)
      /\ IsPartial(e) /\ Shows(e) /\ UNCHANGED pumpFrame
      /\ UNCHANGED <<rows, ord, unstored, faults, ended_at>>
      /\ sending' = e /\ pump' = "store"
  BY DEF PumpSendFirst, EventWaits
<1>2. /\ PInv' /\ On /\ On' /\ Ids' = Ids /\ Said' = Said /\ e \in Event
      /\ e.type # "error" => e.seg \in Ids
      /\ \E i \in 1..Len(client_events) : client_events[i] = e
      /\ \A i \in 1..Len(client_events') : \E k \in 1..Len(client_events) :
            client_events'[i] = client_events[k]
      /\ \A i \in 1..Len(client_events) : \/ client_events[i] = e
            \/ \E k \in 1..Len(client_events') : client_events'[k] = client_events[i]
  BY <1>1, EventTaken
<1> HIDE DEF e
<1>3. /\ e.type \in {"partial", "trans_partial"} /\ seen' = seen
      /\ sending = NoEvent /\ NoEvent.type = "error"
      /\ UNCHANGED <<handler, status, refine, segs>>
  BY <1>1 DEF IsPartial, Shows, IInv, Pumped, NoEvent, pumpFrame
<1>4. TypeOK' /\ Closed'
  <2>1. /\ seen \subseteq Segs /\ rows \in [Segs -> Orig] /\ ord \in Seq(Segs)
        /\ \A i, j \in DOMAIN ord : ord[i] = ord[j] => i = j
        /\ unstored \subseteq Segs /\ faults \in 0..MaxFaults /\ ended_at \in BOOLEAN
    BY DEF IInv, TypeOK
  <2>. QED
    BY <1>1, <1>2, <1>3, <2>1, PumpTypes
<1>5. Pumped'
  <2>1. IsPartial(sending)'
    BY <1>1, <1>3 DEF IsPartial
  <2>. QED
    BY <1>1, <1>2, <1>3, <2>1 DEF Pumped
<1>6. Sent'
  <2>1. seen \subseteq Said /\ \A s \in seen : \A i \in 1..Len(client_events') :
            client_events'[i].type = "final" => s < client_events'[i].seg
    BY <1>2 DEF IInv, Sent
  <2>2. ASSUME NEW s \in Said
        PROVE  \/ s \in seen
               \/ \E i \in 1..Len(client_events') :
                     client_events'[i].type = "final" /\ client_events'[i].seg = s
    <3>1. \/ s \in seen
          \/ \E i \in 1..Len(client_events) :
                client_events[i].type = "final" /\ client_events[i].seg = s
      BY <1>1, <1>2, <1>3, <2>2 DEF IInv, Sent
    <3>. QED
      BY <1>2, <1>3, <3>1
  <2>. QED
    BY <1>1, <1>2, <1>3, <2>1, <2>2 DEF Sent
<1>7. Stored'
  <2>1. ASSUME NEW s \in Segs, rows[s] = "final"
        PROVE  /\ s \in Said
               /\ \A i \in 1..Len(client_events') :
                     client_events'[i].type = "partial" => client_events'[i].seg # s
               /\ e.type = "partial" => e.seg # s
    <3>1. s \in Said /\ \A i \in 1..Len(client_events) :
              client_events[i].type = "partial" => client_events[i].seg # s
      BY <2>1 DEF IInv, Stored
    <3>. QED
      BY <1>2, <3>1
  <2>. QED
    BY <1>1, <1>2, <2>1 DEF Stored, Segs
<1>8. SentFinalIsStored' /\ FinalsInOrder'
  BY <1>1, <1>3 DEF IInv, SentFinalIsStored, FinalsInOrder
<1>. QED
  BY <1>2, <1>4, <1>5, <1>6, <1>7, <1>8 DEF IInv

LEMMA PumpRests ==
    ASSUME IInv, UNCHANGED <<pumpFrame, client_events>>, pump # "off"
    PROVE  /\ PInv' /\ On /\ On' /\ Ids' = Ids /\ Said' = Said
           /\ UNCHANGED <<handler, status, refine, segs>>
<1>1. UNCHANGED pipelineVars /\ UNCHANGED <<handler, status, refine>>
  BY DEF pipelineVars, pumpFrame
<1>2. PInv' /\ On' = On /\ UNCHANGED segs
  BY <1>1, LoopsStutter DEF IInv
<1>3. On
  BY DEF IInv, Closed
<1>. QED
  BY <1>1, <1>2, <1>3 DEF Ids, Said

LEMMA PumpSendKeeps ==
    ASSUME IInv, PumpSend
    PROVE  IInv'
<1>1. /\ pump = "send" /\ Shows(sending) /\ pump' = "get" /\ sending' = NoEvent
      /\ UNCHANGED <<pumpFrame, client_events, rows, ord, unstored, faults, ended_at>>
  BY DEF PumpSend
<1>2. /\ PInv' /\ On /\ On' /\ Ids' = Ids /\ Said' = Said
      /\ UNCHANGED <<handler, status, refine, segs>>
  BY <1>1, PumpRests
<1>3. NoEvent \in Event /\ NoEvent.type = "error" /\ Said \subseteq Segs /\ Segs \subseteq Nat
  BY Room DEF NoEvent, Event, EventType, NoSeg, IInv, Segs
<1>4. /\ seen' = IF sending.type = "final" THEN seen \cup {sending.seg} ELSE seen
      /\ seen \subseteq Said /\ seen' \subseteq Said
      /\ sending.type = "final" => sending.seg \in Said
  BY <1>1 DEF Shows, IInv, Pumped, Sent
<1>5. TypeOK' /\ Closed'
  <2>1. /\ rows \in [Segs -> Orig] /\ ord \in Seq(Segs)
        /\ \A i, j \in DOMAIN ord : ord[i] = ord[j] => i = j
        /\ unstored \subseteq Segs /\ faults \in 0..MaxFaults /\ ended_at \in BOOLEAN
    BY DEF IInv, TypeOK
  <2>. QED
    BY <1>1, <1>2, <1>3, <1>4, <2>1, PumpTypes
<1>6. Pumped'
  BY <1>1, <1>3 DEF Pumped
<1>7. Sent'
  <2>1. \A s \in seen' : \A i \in 1..Len(client_events) :
            client_events[i].type = "final" => s < client_events[i].seg
    BY <1>4 DEF IInv, Sent, Pumped
  <2>2. \A s \in Said : \/ s \in seen'
                        \/ \E i \in 1..Len(client_events) :
                              client_events[i].type = "final" /\ client_events[i].seg = s
    BY <1>1, <1>2, <1>4 DEF IInv, Sent
  <2>. QED
    BY <1>1, <1>2, <1>3, <1>4, <2>1, <2>2 DEF Sent
<1>8. Stored'
  BY <1>1, <1>2, <1>3 DEF IInv, Stored, Segs
<1>9. SentFinalIsStored'
  BY <1>1, <1>4 DEF IInv, SentFinalIsStored, Pumped
<1>10. FinalsInOrder'
  <2>1. ASSUME NEW t \in seen', NEW s \in 1..t - 1
        PROVE  s \in seen' \/ segs[s].fate \in {"failed", "dropped"}
    <3>1. CASE t \in seen
      BY <1>4, <2>1, <3>1 DEF IInv, FinalsInOrder
    <3>2. CASE sending.type = "final" /\ t = sending.seg
      <4>1. t \in Said /\ t \in Ids /\ Len(segs) \in Nat /\ t \in Nat
        BY <1>3, <1>4, <3>2, Types DEF IInv, Said
      <4>2. s \in Ids /\ s \in Nat /\ s < t
        BY <2>1, <4>1 DEF Ids
      <4>3. segs[s].fate \in {"final", "done", "failed", "dropped"}
        BY <2>1, <4>1 DEF IInv, PInv, TransFlow
      <4>4. s \in Said => s \in seen
        <5>1. ASSUME s \in Said
              PROVE  \/ s \in seen \/ s = sending.seg
                     \/ \E i \in 1..Len(client_events) :
                           client_events[i].type = "final" /\ client_events[i].seg = s
          BY <1>1, <1>2, <5>1 DEF IInv, Sent
        <5>2. \A i \in 1..Len(client_events) :
                  client_events[i].type = "final" => t < client_events[i].seg
          BY <3>2 DEF IInv, Pumped
        <5>3. ~(s = sending.seg)
          BY <3>2, <4>1, <4>2
        <5>4. \A i \in 1..Len(client_events) :
                  client_events[i].type = "final" => client_events[i].seg # s
          BY <4>1, <4>2, <5>2
        <5>. QED
          BY <5>1, <5>3, <5>4
      <4>. QED
        BY <1>4, <4>2, <4>3, <4>4 DEF Said
    <3>. QED
      BY <1>4, <2>1, <3>1, <3>2
  <2>. QED
    BY <1>2, <2>1 DEF FinalsInOrder
<1>. QED
  BY <1>2, <1>5, <1>6, <1>7, <1>8, <1>9, <1>10 DEF IInv

LEMMA PumpStoreKeeps ==
    ASSUME IInv, PumpStore
    PROVE  IInv'
<1>1. /\ pump = "store" /\ Persist(sending) /\ pump' = "get" /\ sending' = NoEvent
      /\ UNCHANGED <<pumpFrame, client_events, seen>>
  BY DEF PumpStore
<1>2. /\ PInv' /\ On /\ On' /\ Ids' = Ids /\ Said' = Said
      /\ UNCHANGED <<handler, status, refine, segs>>
  BY <1>1, PumpRests
<1>3. /\ NoEvent \in Event /\ NoEvent.type = "error"
      /\ sending \in Event /\ (sending.type # "error" => sending.seg \in Ids)
      /\ sending.type # "final"
      /\ seen \subseteq Segs /\ rows \in [Segs -> Orig]
  BY <1>1 DEF NoEvent, Event, EventType, NoSeg, IInv, Pumped, IsPartial, TypeOK
<1>4. /\ ended_at' \in BOOLEAN /\ faults' \in 0..MaxFaults
      /\ ord' \in Seq(Segs) /\ \A i, j \in DOMAIN ord' : ord'[i] = ord'[j] => i = j
      /\ unstored \subseteq unstored' /\ unstored' \subseteq Segs
      /\ rows' \in [Segs -> Orig]
      /\ \A s \in Segs : rows'[s] = rows[s]
                         \/ (IsRow(sending) /\ s = sending.seg /\ rows'[s] = Row(rows[s], sending))
  BY <1>1, <1>3, Writes
<1>5. \A s \in Segs : rows'[s] = "final" <=> rows[s] = "final"
  <2>1. ASSUME NEW s \in Segs, rows[s] = "final", s = sending.seg PROVE sending.type # "partial"
    BY <2>1 DEF IInv, Stored
  <2>. QED
    BY <1>3, <1>4, <2>1, RowFacts
<1>6. TypeOK' /\ Closed'
  BY <1>1, <1>2, <1>3, <1>4, PumpTypes
<1>7. Pumped'
  BY <1>1, <1>3 DEF Pumped
<1>8. Sent'
  BY <1>1, <1>2, <1>3 DEF IInv, Sent
<1>9. Stored'
  BY <1>1, <1>2, <1>3, <1>5 DEF IInv, Stored, Segs
<1>10. SentFinalIsStored' /\ FinalsInOrder'
  BY <1>1, <1>2, <1>3, <1>4, <1>5 DEF IInv, SentFinalIsStored, FinalsInOrder
<1>. QED
  BY <1>2, <1>6, <1>7, <1>8, <1>9, <1>10 DEF IInv

LEMMA SendRaisesKeeps ==
    ASSUME IInv, SendRaises
    PROVE  IInv'
<1>1. /\ pump # "off" /\ pump' = "dead" /\ sending' = NoEvent
      /\ UNCHANGED <<pumpFrame, seen, rows, ord, unstored, faults, ended_at>>
      /\ UNCHANGED client_events
           \/ (client_events # <<>> /\ client_events' = Tail(client_events))
  BY DEF SendRaises, transcript, EventWaits
<1>2. /\ PInv' /\ On /\ On' /\ Ids' = Ids /\ Said' = Said
      /\ \A i \in 1..Len(client_events') : \E k \in 1..Len(client_events) :
            client_events'[i] = client_events[k]
  BY <1>1, EventTaken, PumpRests
<1>3. /\ NoEvent \in Event /\ NoEvent.type = "error"
      /\ UNCHANGED <<handler, status, refine, segs>>
  BY <1>1 DEF NoEvent, Event, EventType, NoSeg, pumpFrame
<1>4. TypeOK' /\ Closed'
  <2>1. /\ seen \subseteq Segs /\ rows \in [Segs -> Orig] /\ ord \in Seq(Segs)
        /\ \A i, j \in DOMAIN ord : ord[i] = ord[j] => i = j
        /\ unstored \subseteq Segs /\ faults \in 0..MaxFaults /\ ended_at \in BOOLEAN
    BY DEF IInv, TypeOK
  <2>. QED
    BY <1>1, <1>2, <1>3, <2>1, PumpTypes
<1>5. Pumped' /\ Sent'
  <2>1. Pumped'
    BY <1>1, <1>3 DEF Pumped
  <2>2. seen \subseteq Said /\ \A s \in seen : \A i \in 1..Len(client_events') :
            client_events'[i].type = "final" => s < client_events'[i].seg
    BY <1>2 DEF IInv, Sent
  <2>3. Sent'
    BY <1>1, <1>2, <1>3, <2>2 DEF Sent
  <2>. QED
    BY <2>1, <2>3
<1>6. Stored'
  <2>1. \A s \in Segs : rows[s] = "final" =>
            s \in Said /\ \A i \in 1..Len(client_events') :
                client_events'[i].type = "partial" => client_events'[i].seg # s
    BY <1>2 DEF IInv, Stored
  <2>. QED
    BY <1>1, <1>2, <1>3, <2>1 DEF Stored, Segs
<1>7. SentFinalIsStored' /\ FinalsInOrder'
  BY <1>1, <1>3 DEF IInv, SentFinalIsStored, FinalsInOrder
<1>. QED
  BY <1>2, <1>4, <1>5, <1>6, <1>7 DEF IInv

-----------------------------------------------------------------------------
(***************************************************************************)
(* The session as a whole.                                                 *)
(***************************************************************************)
LEMMA StartsRight ==
    ASSUME Init
    PROVE  IInv
<1>1. segs = <<>> /\ Len(segs) = 0 /\ Ids = {} /\ Said = {}
  <2>1. segs = <<>>
    BY DEF Init, PipelineInit
  <2>. QED
    BY <2>1 DEF Ids, Said
<1>2. /\ vad = IdleVad /\ ~On /\ vad.seg = NoSeg /\ vad.tail = <<>> /\ vad.pc = "off"
      /\ stt = [pc |-> "off", seg |-> NoSeg] /\ trans = [pc |-> "off", seg |-> NoSeg]
      /\ ptrans = [pc |-> "off", todo |-> {}, seg |-> NoSeg]
      /\ client_events = <<>> /\ Len(client_events) = 0 /\ audio_in = <<>> /\ Len(audio_in) = 0
      /\ stt_jobs = <<>> /\ Len(stt_jobs) = 0 /\ final_events = <<>> /\ Len(final_events) = 0
      /\ next_seq = 0 /\ ~partial /\ finalized = {} /\ partial_jobs = {}
  BY DEF Init, PipelineInit, IdleVad, On
<1>3. PipelineTypeOK
  <2>1. streaming \in BOOLEAN /\ stopping \in BOOLEAN /\ force_close \in BOOLEAN /\ partial \in BOOLEAN
    BY Zenon DEF Init, PipelineInit
  <2>2. /\ {AudioCap, SttCap, FinalCap, ClientCap} \subseteq Nat
        /\ MaxChunks \in Nat /\ MaxPartials \in Nat
    BY PipelineAssumption
  <2>3. next_seq \in 0..MaxChunks /\ partials \in 0..MaxPartials
    BY <2>2 DEF Init, PipelineInit
  <2>4. /\ audio_in \in Seq([seq : Frames, speech : BOOLEAN]) /\ stt_jobs \in Seq(Nat)
        /\ final_events \in Seq(Nat) /\ client_events \in Seq(Event)
        /\ segs \in Seq([audio : Seq(Frames), fate : Fate])
    BY <1>1, <1>2
  <2>5. /\ Len(audio_in) <= AudioCap /\ Len(stt_jobs) <= SttCap /\ Len(final_events) <= FinalCap
        /\ Len(client_events) <= ClientCap
    BY <1>2, <2>2
  <2>6. /\ vad \in [pc : VadPc, seg : Nat, quiet : Nat, tail : Seq(Frames), then : {"wait", "exit"}]
        /\ utterance \in [text : Nat, sent : Nat, next : {"go", "end", "partial"}]
    BY DEF Init, PipelineInit, IdleVad, Silent, NoSeg, VadPc
  <2>7. /\ stt \in [pc : {"off", "get", "busy", "queue"}, seg : Nat]
        /\ trans \in [pc : {"off", "get", "busy"}, seg : Nat]
        /\ ptrans \in [pc : {"off", "wait", "busy", "blocked"}, todo : SUBSET Nat, seg : Nat]
        /\ latest_partial \in {"none", "mid", "sentence"}
    BY DEF Init, PipelineInit, NoSeg
  <2>8. partial_jobs \subseteq DOMAIN segs /\ finalized \subseteq DOMAIN segs
    BY <1>2
  <2>. QED
    BY <2>1, <2>3, <2>4, <2>5, <2>6, <2>7, <2>8 DEF PipelineTypeOK
<1>4. Together /\ OpenOne
  BY <1>1, <1>2 DEF Together, OpenOne, NoSeg
<1>5. SttFlow
  BY <1>1, <1>2 DEF SttFlow
<1>6. TransFlow /\ Events
  BY <1>1, <1>2 DEF TransFlow, Events
<1>7. Count
  BY <1>1, <1>2 DEF Count, NoSeg
<1>8. PInv
  BY <1>3, <1>4, <1>5, <1>6, <1>7 DEF PInv
<1>9. /\ NoEvent \in Event /\ NoEvent.type = "error" /\ sending = NoEvent
      /\ pump = "off" /\ handler = "connecting" /\ seen = {} /\ rows = [s \in Segs |-> "none"]
      /\ ~refine
  <2>1. NoEvent \in Event /\ NoEvent.type = "error"
    BY DEF NoEvent, Event, EventType, NoSeg
  <2>2. /\ sending = NoEvent /\ pump = "off" /\ handler = "connecting" /\ seen = {}
        /\ rows = [s \in Segs |-> "none"] /\ ~refine
    BY Zenon DEF Init
  <2>. QED
    BY <2>1, <2>2
<1>10. TypeOK
  <2>1. ended_at \in BOOLEAN /\ refine \in BOOLEAN
    BY Zenon DEF Init
  <2>2. /\ seen \subseteq Segs /\ rows \in [Segs -> Orig] /\ handler \in HandlerPc
        /\ pump \in {"get", "off", "send", "store", "dead"} /\ sending \in Event
    BY <1>9 DEF HandlerPc, Orig
  <2>3. /\ ord = <<>> /\ unstored = {} /\ faults = 0 /\ status = "none"
    BY DEF Init
  <2>4. ord \in Seq(Segs) /\ DOMAIN ord = {} /\ faults \in 0..MaxFaults
    BY <2>3, SessionAssumption
  <2>. QED
    BY <1>3, <2>1, <2>2, <2>3, <2>4 DEF TypeOK
<1>11. Pumped /\ Sent /\ Stored /\ Closed
  BY <1>1, <1>2, <1>9 DEF Pumped, Sent, Stored, Closed
<1>12. SentFinalIsStored /\ FinalsInOrder
  BY <1>9 DEF SentFinalIsStored, FinalsInOrder
<1>. QED
  BY <1>8, <1>10, <1>11, <1>12 DEF IInv

LEMMA SessionKeeps ==
    ASSUME IInv, [Next]_vars
    PROVE  IInv'
<1>1. CASE PipelineNext /\ UNCHANGED sessionVars
  BY <1>1, PipelineKeeps, SessionFollows DEF IInv
<1>2. CASE Refuse \/ StartPipeline \/ OpenRecording \/ CreateRow
  BY <1>2, OpeningKeeps
<1>3. CASE Audio \/ Pause \/ Stop
  BY <1>3, ReceivingKeeps
<1>4. CASE Disconnect \/ Cleanup
  BY <1>4, EndingKeeps
<1>5. CASE Pump \/ SendRaises
  BY <1>5, PumpStoreFirstKeeps, PumpSendFirstKeeps, PumpSendKeeps, PumpStoreKeeps,
     SendRaisesKeeps DEF Pump
<1>6. CASE UNCHANGED vars
  BY <1>6, StutterKeeps
<1>. QED
  BY <1>1, <1>2, <1>3, <1>4, <1>5, <1>6 DEF Next, Ended

LEMMA SessionIsSound == Spec => []IInv
BY StartsRight, SessionKeeps, PTL DEF Spec

(* Types, for every length of recording and every size of the queues.       *)
THEOREM SessionStaysTyped == Spec => []TypeOK
<1>1. IInv => TypeOK
  BY DEF IInv
<1>. QED
  BY <1>1, SessionIsSound, PTL

(* A client that has seen a final finds it when it fetches the session,     *)
(* unless its write raised (ws.py:433, _persist_event before _send_event).  *)
THEOREM SentFinalsAreStored == Spec => []SentFinalIsStored
<1>1. IInv => SentFinalIsStored
  BY DEF IInv
<1>. QED
  BY <1>1, SessionIsSound, PTL

(* Finals reach the client in the order the segments were spoken, only the  *)
(* ones that failed missing (pipeline.py:189, _stt_loop and event_pump).    *)
THEOREM FinalsComeInOrder == Spec => []FinalsInOrder
<1>1. IInv => FinalsInOrder
  BY DEF IInv
<1>. QED
  BY <1>1, SessionIsSound, PTL

(* flush() does not return with an utterance between the loops: when the    *)
(* condition it polls holds, every segment was answered (pipeline.py:271).  *)
THEOREM FlushLosesNothing == Spec => []DrainedMeansAnswered
<1>1. ASSUME IInv PROVE DrainedMeansAnswered
  <2>1. SUFFICES ASSUME VadDone, Drained, NEW s \in Ids,
                        ~(streaming /\ segs[s].fate = "open")
                 PROVE  segs[s].fate \in {"done", "failed", "dropped"}
    <3>1. DOMAIN segs = Ids
      BY <1>1, Types DEF IInv, Ids
    <3>. QED
      BY <3>1 DEF DrainedMeansAnswered
  <2>2. /\ On /\ vad.pc = "exited" /\ stt_jobs = <<>> /\ final_events = <<>>
        /\ stt.pc = "get" /\ trans.pc = "get" /\ Len(<<>>) = 0
    BY <2>1 DEF VadDone, Drained, On
  <2>3. segs[s].fate \in Fate /\ s # NoSeg
    <3>1. segs \in Seq(SegRec) /\ s \in 1..Len(segs) /\ Len(segs) \in Nat
      BY <1>1, Types DEF IInv, Ids
    <3>2. segs[s] \in SegRec
      BY <3>1
    <3>. QED
      BY <3>1, <3>2 DEF SegRec, NoSeg
  <2>4. segs[s].fate # "open"
    BY <1>1, <2>1, <2>2, <2>3 DEF IInv, PInv, OpenOne, Together
  <2>5. segs[s].fate # "queued"
    BY <1>1, <2>1, <2>2 DEF IInv, PInv, SttFlow
  <2>6. segs[s].fate # "final"
    BY <1>1, <2>1, <2>2 DEF IInv, PInv, TransFlow
  <2>. QED
    BY <2>3, <2>4, <2>5, <2>6 DEF Fate
<1>. QED
  BY <1>1, SessionIsSound, PTL

(* What a step may do to the queue of events and to the rows.               *)
LEMMA NoLatePartial ==
    ASSUME IInv, [Next]_vars, NEW s \in finalized, NEW e \in Range(client_events'),
           e.seg = s, e.type = "partial"
    PROVE  e \in Range(client_events)
<1>1. /\ client_events \in Seq(Event) /\ finalized = Said /\ PInv
  BY DEF IInv, PInv, PipelineTypeOK, TransFlow
<1>2. CASE PipelineNext /\ UNCHANGED sessionVars
  <2>1. Effect
    BY <1>1, <1>2, PipelineKeeps
  <2>2. CASE Silently
    BY <2>2 DEF Silently
  <2>3. ASSUME NEW n \in Event, Telling(n) PROVE e \in Range(client_events)
    <3>1. e # n
      BY <1>1, <2>3 DEF Telling
    <3>2. /\ client_events' \in Seq(Event) /\ Len(client_events') = Len(client_events) + 1
          /\ Len(client_events) \in Nat /\ client_events'[Len(client_events) + 1] = n
          /\ \A i \in 1..Len(client_events) : client_events'[i] = client_events[i]
      BY <1>1, <2>3, AppendFacts DEF Telling
    <3>3. PICK i \in 1..Len(client_events') : e = client_events'[i]
      BY <3>2 DEF Range
    <3>4. i \in 1..Len(client_events)
      BY <3>1, <3>2, <3>3
    <3>5. e = client_events[i] /\ i \in DOMAIN client_events
      BY <1>1, <3>2, <3>3, <3>4
    <3>. QED
      BY <3>5 DEF Range
  <2>. QED
    BY <2>1, <2>2, <2>3 DEF Effect
<1>3. CASE client_events' = client_events
  BY <1>3
<1>4. CASE client_events' = <<>>
  BY <1>4 DEF Range
<1>5. CASE client_events # <<>> /\ client_events' = Tail(client_events)
  <2>1. /\ client_events' \in Seq(Event) /\ Len(client_events') = Len(client_events) - 1
        /\ Len(client_events) \in Nat \ {0}
        /\ \A i \in 1..Len(client_events') : client_events'[i] = client_events[i + 1]
    BY <1>1, <1>5, TailFacts
  <2>2. PICK i \in 1..Len(client_events') : e = client_events'[i]
    BY <2>1 DEF Range
  <2>3. e = client_events[i + 1] /\ i + 1 \in DOMAIN client_events
    BY <1>1, <2>1, <2>2
  <2>. QED
    BY <2>3 DEF Range
<1>6. CASE ~(PipelineNext /\ UNCHANGED sessionVars)
  <2>1. CASE Refuse \/ StartPipeline \/ OpenRecording \/ CreateRow
    BY <1>3, <1>4, <2>1 DEF Refuse, StartPipeline, OpenRecording, CreateRow, StartLoops,
       StopLoops, pipelineVars
  <2>2. CASE Audio \/ Pause \/ Stop
    BY <1>3, <2>2 DEF Audio, Pause, Stop, FeedAudio, Signal
  <2>3. CASE Disconnect \/ Cleanup
    BY <1>3, <1>4, <2>3 DEF Disconnect, Cleanup, Flushed, FlushTimeout, Linger,
       StampDuration, FinishSession, StopTasks, StopLoops, pipelineVars
  <2>4. CASE Pump \/ SendRaises
    BY <1>3, <1>5, <2>4 DEF Pump, PumpStoreFirst, PumpSendFirst, PumpSend, PumpStore, SendRaises,
       EventWaits
  <2>5. CASE UNCHANGED vars
    BY <1>3, <2>5 DEF vars, pipelineVars
  <2>. QED
    BY <1>6, <2>1, <2>2, <2>3, <2>4, <2>5 DEF Next, Ended
<1>. QED
  BY <1>2, <1>6

LEMMA FinalRowStays ==
    ASSUME IInv, [Next]_vars, NEW s \in Segs, rows[s] = "final"
    PROVE  rows'[s] = "final"
<1>1. CASE PumpStoreFirst
  <2> DEFINE e == Head(client_events)
  <2>1. /\ client_events # <<>> /\ client_events' = Tail(client_events) /\ UNCHANGED pumpFrame
        /\ ~IsPartial(e) /\ Persist(e)
    BY <1>1 DEF PumpStoreFirst, EventWaits
  <2>2. e \in Event /\ (e.type # "error" => e.seg \in Ids)
    BY <2>1, EventTaken
  <2> HIDE DEF e
  <2>3. rows[s] \in Orig /\ e.type # "partial"
    BY <2>1 DEF IInv, TypeOK, IsPartial
  <2>4. rows'[s] = rows[s] \/ rows'[s] = Row(rows[s], e)
    BY <2>1, <2>2, Writes
  <2>. QED
    BY <2>2, <2>3, <2>4, RowFacts
<1>2. CASE PumpStore
  <2>1. sending \in Event /\ (sending.type # "error" => sending.seg \in Ids) /\ Persist(sending)
        /\ rows[s] \in Orig
    BY <1>2 DEF PumpStore, IInv, TypeOK, Pumped
  <2>2. rows'[s] = rows[s] \/ (s = sending.seg /\ rows'[s] = Row(rows[s], sending))
    BY <2>1, Writes
  <2>3. s = sending.seg => sending.type # "partial"
    BY DEF IInv, Stored
  <2>. QED
    BY <2>1, <2>2, <2>3, RowFacts
<1>3. CASE rows' = rows
  BY <1>3
<1>4. CASE ~PumpStoreFirst /\ ~PumpStore
  <2>1. CASE (PipelineNext /\ UNCHANGED sessionVars) \/ UNCHANGED vars
    BY <1>3, <2>1 DEF vars, sessionVars
  <2>2. CASE Refuse \/ StartPipeline \/ OpenRecording \/ CreateRow
    BY <1>3, <2>2 DEF Refuse, StartPipeline, OpenRecording, CreateRow, transcript, handlerFrame
  <2>3. CASE Audio \/ Pause \/ Stop
    BY <1>3, <2>3 DEF Audio, Pause, Stop, transcript, sessionVars
  <2>4. CASE Disconnect \/ Cleanup
    BY <1>3, <2>4 DEF Disconnect, Cleanup, Flushed, FlushTimeout, Linger, StampDuration,
       FinishSession, StopTasks, transcript, handlerFrame
  <2>5. CASE PumpSendFirst \/ PumpSend \/ SendRaises
    BY <1>3, <2>5 DEF PumpSendFirst, PumpSend, SendRaises, transcript, EventWaits
  <2>. QED
    BY <1>4, <2>1, <2>2, <2>3, <2>4, <2>5 DEF Next, Ended, Pump
<1>. QED
  BY <1>1, <1>2, <1>4

LEMMA HandedOver ==
    ASSUME IInv, [Next]_vars, refine
    PROVE  UNCHANGED <<rows, ord, client_events, segs>>
<1>1. handler = "ended" /\ ~On /\ pump = "off"
  BY DEF IInv, Closed
<1>2. CASE PipelineNext /\ UNCHANGED sessionVars
  BY <1>1, <1>2, PipelineKeeps DEF IInv, Effect
<1>3. CASE UNCHANGED vars
  BY <1>3 DEF vars, sessionVars, pipelineVars
<1>4. ~(Refuse \/ StartPipeline \/ OpenRecording \/ CreateRow \/ Audio \/ Pause \/ Stop
        \/ Disconnect \/ Cleanup)
  BY <1>1 DEF Refuse, StartPipeline, OpenRecording, CreateRow, Audio, Pause, Stop, Disconnect,
     Cleanup, Flushed, FlushTimeout, Linger, StampDuration, FinishSession
<1>5. ~(Pump \/ SendRaises)
  BY <1>1 DEF Pump, PumpStoreFirst, PumpSendFirst, PumpSend, PumpStore, SendRaises, EventWaits
<1>. QED
  BY <1>2, <1>3, <1>4, <1>5 DEF Next, Ended

(* What was written stays.  No partial is queued for a segment that has its *)
(* final or stored over it (pipeline.py:588), and once the recording is     *)
(* handed to the whole-file pass the live session writes nothing (ws.py:575)*)
THEOREM WhatIsWrittenStays == Spec => WrittenStays
<1>1. ASSUME IInv, [Next]_vars
      PROVE  [/\ \A s \in finalized, e \in Range(client_events') :
                     e.seg = s /\ e.type = "partial" => e \in Range(client_events)
              /\ \A s \in Segs : rows[s] = "final" => rows'[s] = "final"]_vars
  BY <1>1, NoLatePartial, FinalRowStays
<1>2. ASSUME IInv, [Next]_vars
      PROVE  [refine => UNCHANGED <<rows, ord, client_events, segs>>]_vars
  BY <1>2, HandedOver
<1>. QED
  BY <1>1, <1>2, SessionIsSound, PTL DEF Spec, WrittenStays, FinalStays, NoLiveWriteAfterHandOver

-----------------------------------------------------------------------------
(***************************************************************************)
(* What was said, once and in its order.  A frame is in a segment, in what *)
(* the VAD or the stream loop still holds, or in the queue, each of them   *)
(* before the next.                                                        *)
(***************************************************************************)
Under(q, n) == \A i \in DOMAIN q : q[i] < n
Spoken(n) == Under(vad.tail, n) /\ \A s \in Ids : Under(segs[s].audio, n)

Waiting ==
    /\ \A i, k \in 1..Len(audio_in) : i < k => audio_in[i].seq < audio_in[k].seq
    /\ \A k \in 1..Len(audio_in) : audio_in[k].seq <= next_seq /\ Spoken(audio_in[k].seq)
    /\ Spoken(next_seq + 1)
NoTail == ~streaming /\ vad.pc \notin {"put", "end"} => vad.tail = <<>>
Words == NothingDecodedTwice /\ Waiting /\ NoTail

LEMMA Extended ==
    ASSUME NEW q \in Seq(Frames), NEW f \in Frames, Increasing(q), Under(q, f)
    PROVE  /\ Append(q, f) \in Seq(Frames) /\ Increasing(Append(q, f))
           /\ \A n \in Nat : Under(q, n) /\ f < n => Under(Append(q, f), n)
           /\ \A p \in Seq(Frames) : Before(p, q) /\ Under(p, f) => Before(p, Append(q, f))
<1> DEFINE a == Append(q, f)
           m == Len(q)
<1>1. /\ a \in Seq(Frames) /\ Len(a) = m + 1 /\ m \in Nat /\ a[m + 1] = f
      /\ \A i \in 1..m : a[i] = q[i]
  BY AppendFacts
<1>2. /\ DOMAIN a = 1..m + 1 /\ DOMAIN q = 1..m /\ \A i \in 1..m : q[i] \in Nat
      /\ f \in Nat
  <2>1. \A i \in 1..m : q[i] \in Frames
    OBVIOUS
  <2>2. \A i \in 1..m : q[i] \in Nat
    BY <2>1 DEF Frames
  <2>3. DOMAIN a = 1..m + 1 /\ DOMAIN q = 1..m
    BY <1>1
  <2>4. f \in Nat
    BY DEF Frames
  <2>. QED
    BY <2>2, <2>3, <2>4
<1> HIDE DEF a, m
<1>3. \A i \in DOMAIN a : (i \in DOMAIN q /\ a[i] = q[i]) \/ (i = m + 1 /\ a[i] = f)
  <2>1. \A i \in 1..m + 1 : i \in 1..m \/ i = m + 1
    BY <1>1
  <2>. QED
    BY <1>1, <1>2, <2>1
<1>4. Increasing(a)
  <2>1. ASSUME NEW i \in DOMAIN a, NEW k \in DOMAIN a, i < k PROVE a[i] < a[k]
    <3>1. i \in DOMAIN q /\ a[i] = q[i]
      BY <1>1, <1>2, <1>3, <2>1
    <3>. QED
      BY <1>3, <2>1, <3>1 DEF Increasing, Under
  <2>. QED
    BY <2>1 DEF Increasing
<1>5. ASSUME NEW n \in Nat, Under(q, n), f < n PROVE Under(a, n)
  BY <1>3, <1>5 DEF Under
<1>6. ASSUME NEW p \in Seq(Frames), Before(p, q), Under(p, f) PROVE Before(p, a)
  BY <1>3, <1>6 DEF Before, Under
<1>. QED
  BY <1>1, <1>4, <1>5, <1>6 DEF a

(* find_cut_point. *)
LEMMA Halves ==
    ASSUME NEW q \in Seq(Frames), Increasing(q), NEW c \in 1..Len(q)
    PROVE  LET a == SubSeq(q, 1, c)
               b == SubSeq(q, c + 1, Len(q))
           IN /\ a \in Seq(Frames) /\ b \in Seq(Frames)
              /\ Increasing(a) /\ Increasing(b) /\ Before(a, b)
              /\ \A n \in Nat : Under(q, n) => Under(a, n) /\ Under(b, n)
              /\ \A p \in Seq(Frames) : Before(p, q) => Before(p, a) /\ Before(p, b)
<1> DEFINE a == SubSeq(q, 1, c)
           b == SubSeq(q, c + 1, Len(q))
           m == Len(q)
<1>1. m \in Nat /\ c \in 1..m /\ c + 1 <= m + 1 /\ DOMAIN q = 1..m
  OBVIOUS
<1>2. /\ a \in Seq(Frames) /\ Len(a) = c /\ \A i \in 1..c : a[i] = q[i]
      /\ b \in Seq(Frames) /\ Len(b) = m - c /\ \A i \in 1..m - c : b[i] = q[c + i]
  OBVIOUS
<1>3. DOMAIN a = 1..c /\ DOMAIN b = 1..m - c
  BY <1>2
<1> HIDE DEF a, b, m
<1>4. /\ \A i \in DOMAIN a : i \in DOMAIN q /\ a[i] = q[i] /\ i <= c
      /\ \A i \in DOMAIN b : c + i \in DOMAIN q /\ b[i] = q[c + i] /\ c < c + i
  <2>1. c \in Nat /\ \A i \in 1..c : i \in 1..m /\ i <= c
    BY <1>1
  <2>2. \A i \in 1..m - c : c + i \in 1..m /\ c < c + i
    BY <1>1
  <2>. QED
    BY <1>1, <1>2, <1>3, <2>1, <2>2
<1>5. Increasing(a)
  BY <1>4 DEF Increasing
<1>6. Increasing(b)
  <2>1. ASSUME NEW i \in DOMAIN b, NEW k \in DOMAIN b, i < k PROVE b[i] < b[k]
    <3>1. c + i < c + k
      BY <1>1, <1>3, <2>1
    <3>. QED
      BY <1>4, <3>1 DEF Increasing
  <2>. QED
    BY <2>1 DEF Increasing
<1>7. Before(a, b)
  <2>1. ASSUME NEW i \in DOMAIN a, NEW k \in DOMAIN b PROVE a[i] < b[k]
    <3>1. i < c + k
      BY <1>1, <1>3
    <3>. QED
      BY <1>4, <3>1 DEF Increasing
  <2>. QED
    BY <2>1 DEF Before
<1>8. ASSUME NEW n \in Nat, Under(q, n) PROVE Under(a, n) /\ Under(b, n)
  BY <1>4, <1>8 DEF Under
<1>9. ASSUME NEW p \in Seq(Frames), Before(p, q) PROVE Before(p, a) /\ Before(p, b)
  BY <1>4, <1>9 DEF Before
<1>. QED
  BY <1>2, <1>5, <1>6, <1>7, <1>8, <1>9 DEF a, b, m

(* The queue of frames. *)
LEMMA NextFrame ==
    ASSUME PInv, Waiting, TakesFrame, next_seq' = next_seq
    PROVE  LET h == Head(audio_in).seq IN
           /\ h \in Frames /\ Spoken(h)
           /\ (\A n \in Nat : Spoken(n) /\ h < n => Spoken(n)') => Waiting'
<1> DEFINE h == Head(audio_in).seq
           m == Len(audio_in)
<1>1. /\ audio_in \in Seq(Chunk) /\ audio_in # <<>> /\ audio_in' = Tail(audio_in) /\ next_seq \in Nat
      /\ h \in Frames
  BY Types, FrameTaken DEF TakesFrame, FrameWaits
<1>2. /\ Head(audio_in) = audio_in[1] /\ m \in Nat \ {0} /\ Len(audio_in') = m - 1
      /\ \A i \in 1..Len(audio_in') : audio_in'[i] = audio_in[i + 1]
  BY <1>1, TailFacts
<1>3. h = audio_in[1].seq /\ h \in Nat
  BY <1>1, <1>2 DEF Frames
<1>4. /\ \A i, k \in 1..m : i < k => audio_in[i].seq < audio_in[k].seq
      /\ \A k \in 1..m : audio_in[k].seq <= next_seq /\ Spoken(audio_in[k].seq)
      /\ Spoken(next_seq + 1)
  BY DEF Waiting
<1>5. \A k \in 1..m : audio_in[k].seq \in Nat
  <2>1. \A k \in 1..m : audio_in[k] \in Chunk
    BY <1>1
  <2>. QED
    BY <2>1 DEF Chunk, Frames
<1> HIDE DEF h, m
<1>6. /\ 1 \in 1..m
      /\ \A i \in 1..Len(audio_in') : i + 1 \in 1..m /\ 1 < i + 1 /\ audio_in'[i] = audio_in[i + 1]
  BY <1>2
<1>7. Spoken(h) /\ h < next_seq + 1
  BY <1>1, <1>3, <1>4, <1>6
<1>8. ASSUME \A n \in Nat : Spoken(n) /\ h < n => Spoken(n)'
      PROVE  Waiting'
  <2>1. ASSUME NEW i \in 1..Len(audio_in'), NEW k \in 1..Len(audio_in'), i < k
        PROVE  audio_in'[i].seq < audio_in'[k].seq
    <3>1. i + 1 < k + 1
      BY <1>2, <2>1
    <3>. QED
      BY <1>4, <1>6, <3>1
  <2>2. ASSUME NEW k \in 1..Len(audio_in'), NEW n \in Nat, n = audio_in[k + 1].seq
        PROVE  n <= next_seq /\ Spoken(n)'
    <3>1. n <= next_seq /\ Spoken(n) /\ h < n
      BY <1>3, <1>4, <1>6, <2>2
    <3>. QED
      BY <1>8, <3>1
  <2>3. ASSUME NEW k \in 1..Len(audio_in'), NEW n \in Nat, n = audio_in'[k].seq
        PROVE  n <= next_seq /\ Spoken(n)'
    BY <1>6, <2>2, <2>3
  <2>4. \A k \in 1..Len(audio_in') : audio_in'[k].seq \in Nat
    BY <1>5, <1>6
  <2>5. \A k \in 1..Len(audio_in') : audio_in'[k].seq <= next_seq /\ Spoken(audio_in[k].seq)'
    BY <2>3, <2>4 DEF Spoken
  <2>6. ASSUME NEW n \in Nat, n = next_seq + 1 PROVE Spoken(n)'
    BY <1>1, <1>4, <1>7, <1>8, <2>6
  <2>7. Spoken(next_seq + 1)'
    BY <1>1, <2>6 DEF Spoken
  <2>. QED
    BY <2>1, <2>5, <2>7 DEF Waiting
<1>. QED
  BY <1>1, <1>7, <1>8 DEF h
LEMMA QueueWaits ==
    ASSUME PInv, Waiting, next_seq' = next_seq, audio_in' = audio_in \/ audio_in' = <<>>,
           \A n \in Nat : Spoken(n) => Spoken(n)'
    PROVE  Waiting'
<1>1. /\ audio_in \in Seq(Chunk) /\ next_seq \in Nat
  BY Types
<1>2. \A k \in 1..Len(audio_in') : k \in 1..Len(audio_in) /\ audio_in'[k] = audio_in[k]
  <2>1. Len(<<>>) = 0
    OBVIOUS
  <2>. QED
    BY <2>1
<1>3. \A k \in 1..Len(audio_in) : audio_in[k].seq \in Nat
  <2>1. \A k \in 1..Len(audio_in) : audio_in[k] \in Chunk
    BY <1>1
  <2>. QED
    BY <2>1 DEF Chunk, Frames
<1>4. ASSUME NEW k \in 1..Len(audio_in'), NEW n \in Nat, n = audio_in'[k].seq
      PROVE  Spoken(n)'
  BY <1>2, <1>4 DEF Waiting
<1>5. ASSUME NEW n \in Nat, n = next_seq + 1 PROVE Spoken(n)'
  BY <1>5 DEF Waiting
<1>6. \A k \in 1..Len(audio_in') : Spoken(audio_in[k].seq)'
  BY <1>2, <1>3, <1>4 DEF Spoken
<1>7. Spoken(next_seq + 1)'
  BY <1>1, <1>5 DEF Spoken
<1>. QED
  BY <1>2, <1>6, <1>7 DEF Waiting

(* The audio and what the loop holds: a step that leaves it, one that lets   *)
(* the held part go, one that opens a segment, one that closes one.          *)
LEMMA SameWords ==
    ASSUME PInv, PInv', NothingDecodedTwice, Ids' = Ids,
           \A s \in Ids : segs'[s].audio = segs[s].audio,
           vad'.tail = vad.tail \/ vad'.tail = <<>>
    PROVE  /\ NothingDecodedTwice'
           /\ \A n \in Nat : Spoken(n) => Spoken(n)'
<1>1. DOMAIN segs = Ids /\ DOMAIN segs' = Ids
  <2>1. DOMAIN segs = Ids /\ segs' \in Seq(SegRec)
    BY Types DEF PInv, PipelineTypeOK, SegRec
  <2>. QED
    BY <2>1 DEF Ids
<1>2. /\ \A p : Before(p, <<>>)
      /\ Increasing(<<>>) /\ \A n \in Nat : Under(<<>>, n)
  BY DEF Before, Increasing, Under
<1>3. NothingDecodedTwice'
  BY <1>1, <1>2 DEF NothingDecodedTwice
<1>4. ASSUME NEW n \in Nat, Spoken(n) PROVE Spoken(n)'
  BY <1>2, <1>4 DEF Spoken
<1>. QED
  BY <1>3, <1>4

LEMMA HeldWords ==
    ASSUME PInv, PInv', NothingDecodedTwice, NEW h \in Frames, Spoken(h), segs' = segs,
           vad'.tail = Append(vad.tail, h)
    PROVE  /\ NothingDecodedTwice'
           /\ \A n \in Nat : Spoken(n) /\ h < n => Spoken(n)'
<1>1. /\ DOMAIN segs = Ids /\ Ids' = Ids /\ vad.tail \in Seq(Frames)
      /\ \A s \in Ids : segs[s].audio \in Seq(Frames)
  BY Types DEF Ids
<1>2. /\ Increasing(vad.tail) /\ Under(vad.tail, h)
      /\ \A s \in Ids : Before(segs[s].audio, vad.tail) /\ Under(segs[s].audio, h)
  BY <1>1 DEF NothingDecodedTwice, Spoken
<1>3. /\ Increasing(vad'.tail)
      /\ \A n \in Nat : Under(vad.tail, n) /\ h < n => Under(vad'.tail, n)
      /\ \A p \in Seq(Frames) : Before(p, vad.tail) /\ Under(p, h) => Before(p, vad'.tail)
  BY <1>1, <1>2, Extended
<1>4. NothingDecodedTwice'
  BY <1>1, <1>2, <1>3 DEF NothingDecodedTwice
<1>5. ASSUME NEW n \in Nat, Spoken(n), h < n PROVE Spoken(n)'
  BY <1>1, <1>3, <1>5 DEF Spoken
<1>. QED
  BY <1>4, <1>5

LEMMA NewWords ==
    ASSUME PInv, PInv', NothingDecodedTwice, NEW a \in Seq(Frames), segs' = NewSegment(a),
           Increasing(a), \A s \in Ids : Before(segs[s].audio, a),
           Increasing(vad'.tail), Before(a, vad'.tail),
           \A s \in Ids : Before(segs[s].audio, vad'.tail)
    PROVE  /\ NothingDecodedTwice'
           /\ \A n \in Nat : /\ \A s \in Ids : Under(segs[s].audio, n)
                             /\ Under(a, n) /\ Under(vad'.tail, n)
                             => Spoken(n)'
<1>1. /\ segs \in Seq(SegRec) /\ DOMAIN segs = Ids /\ Len(segs) \in Nat
  BY Types
<1>2. /\ segs' \in Seq(SegRec) /\ Len(segs') = Len(segs) + 1
      /\ segs'[Len(segs) + 1].audio = a /\ \A s \in Ids : segs'[s] = segs[s]
  BY <1>1, NewSegmentFacts
<1>3. /\ DOMAIN segs' = Ids' /\ Ids \subseteq Nat
      /\ \A s \in Ids' : (s \in Ids /\ segs'[s] = segs[s])
                         \/ (s = Len(segs) + 1 /\ segs'[s].audio = a)
      /\ \A s \in Ids : s < Len(segs) + 1
  <2>1. DOMAIN segs' = 1..Len(segs') /\ Ids' = 1..Len(segs) + 1
    BY <1>2 DEF Ids
  <2>2. \A s \in 1..Len(segs) + 1 : s \in 1..Len(segs) \/ s = Len(segs) + 1
    BY <1>1
  <2>. QED
    BY <1>1, <1>2, <2>1, <2>2 DEF Ids
<1>4. ASSUME NEW s \in Ids', NEW t \in Ids', s < t
      PROVE  Before(segs'[s].audio, segs'[t].audio)
  <2>1. s \in Ids /\ segs'[s] = segs[s]
    <3>1. Ids' = 1..Len(segs) + 1 /\ Ids = 1..Len(segs)
      BY <1>2 DEF Ids
    <3>2. s \in Ids
      BY <1>1, <1>4, <3>1
    <3>. QED
      BY <1>2, <3>2
  <2>2. CASE t \in Ids /\ segs'[t] = segs[t]
    BY <1>1, <1>4, <2>1, <2>2 DEF NothingDecodedTwice
  <2>3. CASE segs'[t].audio = a
    BY <2>1, <2>3
  <2>. QED
    BY <1>3, <2>2, <2>3
<1>5. ASSUME NEW s \in Ids'
      PROVE  Increasing(segs'[s].audio) /\ Before(segs'[s].audio, vad'.tail)
  <2>1. CASE s \in Ids /\ segs'[s] = segs[s]
    BY <1>1, <2>1 DEF NothingDecodedTwice
  <2>2. CASE segs'[s].audio = a
    BY <2>2
  <2>. QED
    BY <1>3, <2>1, <2>2
<1>6. NothingDecodedTwice'
  BY <1>3, <1>4, <1>5 DEF NothingDecodedTwice
<1>7. ASSUME NEW n \in Nat, \A s \in Ids : Under(segs[s].audio, n), Under(a, n),
             Under(vad'.tail, n)
      PROVE  Spoken(n)'
  <2>1. \A s \in Ids' : Under(segs'[s].audio, n)
    BY <1>3, <1>7
  <2>. QED
    BY <1>7, <2>1 DEF Spoken
<1>. QED
  BY <1>6, <1>7

(* The open segment is the last one, so what goes to it goes to the end.     *)
LEMMA LastWords ==
    ASSUME PInv, PInv', NothingDecodedTwice, vad.seg # NoSeg, Ids' = Ids,
           \A s \in Ids : s # vad.seg => segs'[s].audio = segs[s].audio,
           NEW a \in Seq(Frames), segs'[vad.seg].audio = a, Increasing(a),
           \A s \in Ids : s < vad.seg => Before(segs[s].audio, a) /\ Before(segs[s].audio, vad'.tail),
           Increasing(vad'.tail), Before(a, vad'.tail)
    PROVE  /\ NothingDecodedTwice'
           /\ \A n \in Nat : /\ \A s \in Ids : Under(segs[s].audio, n)
                             /\ Under(a, n) /\ Under(vad'.tail, n)
                             => Spoken(n)'
<1>1. /\ DOMAIN segs = Ids /\ DOMAIN segs' = Ids /\ vad.seg \in Ids /\ vad.seg = Len(segs)
      /\ Len(segs) \in Nat
  <2>1. DOMAIN segs = Ids /\ segs' \in Seq(SegRec) /\ vad.seg \in Ids /\ Len(segs) \in Nat
    BY Types DEF PInv, PipelineTypeOK, SegRec
  <2>. QED
    BY <2>1 DEF Ids, PInv, OpenOne
<1>2. \A s \in Ids : s \in Nat /\ (s = vad.seg \/ s < vad.seg)
  <2> DEFINE n == Len(segs)
  <2>1. n \in Nat /\ Ids = 1..n /\ vad.seg = n
    BY <1>1 DEF Ids
  <2> HIDE DEF n
  <2>2. \A s \in 1..n : s \in Nat /\ (s = n \/ s < n)
    BY <2>1
  <2>. QED
    BY <2>1, <2>2
<1>3. ASSUME NEW s \in Ids, NEW t \in Ids, s < t
      PROVE  Before(segs'[s].audio, segs'[t].audio)
  <2>1. s < vad.seg /\ s # vad.seg
    BY <1>1, <1>2, <1>3
  <2>2. CASE t = vad.seg
    BY <2>1, <2>2
  <2>3. CASE t # vad.seg
    BY <1>1, <1>3, <2>1, <2>3 DEF NothingDecodedTwice
  <2>. QED
    BY <2>2, <2>3
<1>4. \A s \in Ids : Increasing(segs'[s].audio) /\ Before(segs'[s].audio, vad'.tail)
  BY <1>1, <1>2 DEF NothingDecodedTwice
<1>5. NothingDecodedTwice'
  BY <1>1, <1>3, <1>4 DEF NothingDecodedTwice
<1>6. ASSUME NEW n \in Nat, \A s \in Ids : Under(segs[s].audio, n), Under(a, n),
             Under(vad'.tail, n)
      PROVE  Spoken(n)'
  BY <1>1, <1>6 DEF Spoken
<1>. QED
  BY <1>5, <1>6
LEMMA StaysWords ==
    ASSUME PInv, PInv', Words, next_seq' = next_seq, Ids' = Ids,
           audio_in' = audio_in \/ audio_in' = <<>> \/ TakesFrame,
           \A s \in Ids : segs'[s].audio = segs[s].audio,
           vad'.tail = vad.tail \/ vad'.tail = <<>>,
           NoTail'
    PROVE  Words'
<1>1. NothingDecodedTwice' /\ \A n \in Nat : Spoken(n) => Spoken(n)'
  BY SameWords DEF Words
<1>2. Waiting'
  BY <1>1, QueueWaits, NextFrame DEF Words
<1>. QED
  BY <1>1, <1>2 DEF Words

(* A frame that joins the open segment, and the cut at the length cap.       *)
LEMMA GrowsWords ==
    ASSUME PInv, PInv', Words, TakesFrame, next_seq' = next_seq, ~streaming, vad.seg # NoSeg,
           NEW q, q = Append(segs[vad.seg].audio, Head(audio_in).seq), NEW c \in 1..Len(q),
           segs' = [segs EXCEPT ![vad.seg].audio = SubSeq(q, 1, c)],
           vad'.tail = SubSeq(q, c + 1, Len(q)), NoTail'
    PROVE  Words'
<1> DEFINE h == Head(audio_in).seq
           a == SubSeq(q, 1, c)
           b == SubSeq(q, c + 1, Len(q))
           old == segs[vad.seg].audio
<1>1. /\ h \in Frames /\ Spoken(h)
      /\ (\A n \in Nat : Spoken(n) /\ h < n => Spoken(n)') => Waiting'
  BY NextFrame DEF Words
<1>2. /\ segs \in Seq(SegRec) /\ DOMAIN segs = Ids /\ vad.seg \in Ids
      /\ \A s \in Ids : segs[s].audio \in Seq(Frames)
  BY Types
<1>3. /\ old \in Seq(Frames) /\ Increasing(old) /\ Under(old, h) /\ q = Append(old, h)
      /\ \A s \in Ids : s < vad.seg => Before(segs[s].audio, old) /\ Under(segs[s].audio, h)
  BY <1>1, <1>2 DEF Words, NothingDecodedTwice, Spoken
<1> HIDE DEF h, old
<1>4. /\ q \in Seq(Frames) /\ Increasing(q)
      /\ \A n \in Nat : Under(old, n) /\ h < n => Under(q, n)
      /\ \A p \in Seq(Frames) : Before(p, old) /\ Under(p, h) => Before(p, q)
  BY <1>1, <1>3, Extended
<1>5. /\ a \in Seq(Frames) /\ b \in Seq(Frames)
      /\ Increasing(a) /\ Increasing(b) /\ Before(a, b)
      /\ \A n \in Nat : Under(q, n) => Under(a, n) /\ Under(b, n)
      /\ \A p \in Seq(Frames) : Before(p, q) => Before(p, a) /\ Before(p, b)
  BY <1>4, Halves
<1> HIDE DEF a, b
<1>6. segs' = [segs EXCEPT ![vad.seg].audio = a] /\ vad'.tail = b
  BY DEF a, b
<1>7. /\ Ids' = Ids /\ segs'[vad.seg].audio = a
      /\ \A s \in Ids : s # vad.seg => segs'[s].audio = segs[s].audio
  <2>1. /\ Len(segs') = Len(segs)
        /\ \A t \in 1..Len(segs) : segs'[t].audio = IF t = vad.seg THEN a ELSE segs[t].audio
    <3>1. segs \in Seq(SegRec) /\ vad.seg \in 1..Len(segs) /\ a \in Seq(Frames)
      BY <1>2, <1>5 DEF Ids
    <3>2. /\ Len([segs EXCEPT ![vad.seg].audio = a]) = Len(segs)
          /\ \A t \in 1..Len(segs) :
                [segs EXCEPT ![vad.seg].audio = a][t].audio = IF t = vad.seg THEN a ELSE segs[t].audio
      BY <3>1, AudioChange
    <3>. QED
      BY <1>6, <3>2
  <2>2. Ids = 1..Len(segs) /\ Ids' = 1..Len(segs')
    BY DEF Ids
  <2>. QED
    BY <1>2, <2>1, <2>2
<1>8. \A s \in Ids : s < vad.seg => Before(segs[s].audio, a) /\ Before(segs[s].audio, b)
  BY <1>2, <1>3, <1>4, <1>5
<1>9. /\ NothingDecodedTwice'
      /\ \A n \in Nat : /\ \A s \in Ids : Under(segs[s].audio, n)
                        /\ Under(a, n) /\ Under(b, n)
                        => Spoken(n)'
  BY <1>5, <1>6, <1>7, <1>8, LastWords DEF Words
<1>10. ASSUME NEW n \in Nat, Spoken(n), h < n PROVE Spoken(n)'
  <2>1. \A s \in Ids : Under(segs[s].audio, n)
    BY <1>10 DEF Spoken
  <2>2. Under(old, n)
    BY <1>2, <2>1 DEF old
  <2>3. Under(a, n) /\ Under(b, n)
    BY <1>4, <1>5, <1>10, <2>2
  <2>. QED
    BY <1>9, <2>1, <2>3
<1>. QED
  BY <1>1, <1>9, <1>10 DEF Words

LEMMA JoinsWords ==
    ASSUME PInv, PInv', Words, TakesFrame, next_seq' = next_seq, ~streaming, vad.seg # NoSeg,
           segs' = [segs EXCEPT ![vad.seg].audio = Append(segs[vad.seg].audio, Head(audio_in).seq)],
           vad'.tail = <<>>
    PROVE  Words'
<1> DEFINE q == Append(segs[vad.seg].audio, Head(audio_in).seq)
<1>1. /\ segs[vad.seg].audio \in Seq(Frames) /\ Head(audio_in).seq \in Frames
      /\ vad.seg \in Ids /\ DOMAIN segs = Ids
  BY Types, FrameTaken
<1>2. q \in Seq(Frames) /\ Len(q) \in Nat /\ Len(q) \in 1..Len(q)
  <2>1. q \in Seq(Frames) /\ Len(q) = Len(segs[vad.seg].audio) + 1 /\ Len(segs[vad.seg].audio) \in Nat
    BY <1>1, AppendFacts
  <2>. QED
    BY <2>1
<1>3. SubSeq(q, 1, Len(q)) = q
  BY <1>2, SubSeqFull
<1>4. SubSeq(q, Len(q) + 1, Len(q)) = <<>>
  BY <1>2, SubSeqEmpty
<1>5. segs' = [segs EXCEPT ![vad.seg].audio = q]
  BY <1>1
<1>6. NoTail'
  BY DEF NoTail
<1> HIDE DEF q
<1>. QED
  BY <1>2, <1>3, <1>4, <1>5, <1>6, GrowsWords DEF q
(* The audio of the segments when one's fate, or nothing, changes.           *)
LEMMA FateWords ==
    ASSUME PInv, NEW s \in Ids, NEW f \in Fate, segs' = [segs EXCEPT ![s].fate = f]
    PROVE  Ids' = Ids /\ \A t \in Ids : segs'[t].audio = segs[t].audio
<1>1. segs \in Seq(SegRec) /\ s \in 1..Len(segs)
  BY Types DEF Ids
<1>2. /\ Len(segs') = Len(segs)
      /\ \A t \in 1..Len(segs) : segs'[t].audio = segs[t].audio
  BY <1>1, FateChange
<1>. QED
  BY <1>2 DEF Ids

LEMMA OneFrame ==
    ASSUME NEW h \in Frames
    PROVE  /\ <<h>> \in Seq(Frames) /\ Increasing(<<h>>)
           /\ \A p \in Seq(Frames) : Under(p, h) => Before(p, <<h>>)
           /\ \A n \in Nat : h < n => Under(<<h>>, n)
<1>1. /\ <<h>> \in Seq(Frames) /\ Len(<<h>>) = 1 /\ <<h>>[1] = h /\ DOMAIN <<h>> = 1..1
  OBVIOUS
<1>2. \A i \in 1..1 : i = 1
  OBVIOUS
<1>. QED
  BY <1>1, <1>2 DEF Increasing, Before, Under

LEMMA EmptyWords ==
    /\ Increasing(<<>>) /\ <<>> \in Seq(Frames)
    /\ \A p \in Seq(Frames) : Before(p, <<>>) /\ Before(<<>>, p)
    /\ \A n \in Nat : Under(<<>>, n)
<1>1. <<>> \in Seq(Frames) /\ DOMAIN <<>> = {}
  OBVIOUS
<1>. QED
  BY <1>1 DEF Increasing, Before, Under

LEMMA VadSpeechWords ==
    ASSUME PInv, PInv', Words, VadSpeech
    PROVE  Words'
<1> DEFINE h == Head(audio_in).seq
<1>1. /\ ~streaming /\ TakesFrame /\ vad.pc = "wait" /\ next_seq' = next_seq
      /\ streaming' = streaming
  BY DEF VadSpeech, TakesFrame, vadFrame, FrameWaits
<1>2. vad \in VadRec /\ vad.tail = <<>> /\ vad' \in VadRec
  BY <1>1, Types DEF Words, NoTail, PInv, PipelineTypeOK, VadRec
<1>3. /\ h \in Frames /\ Spoken(h)
      /\ (\A n \in Nat : Spoken(n) /\ h < n => Spoken(n)') => Waiting'
  BY <1>1, NextFrame DEF Words
<1>4. CASE vad.seg = NoSeg
  <2>1. segs' = NewSegment(<<h>>) /\ vad'.pc = "start" /\ vad'.tail = <<>>
    BY <1>2, <1>4 DEF VadSpeech, VadRec
  <2> HIDE DEF h
  <2>2. /\ <<h>> \in Seq(Frames) /\ Increasing(<<h>>)
        /\ \A p \in Seq(Frames) : Under(p, h) => Before(p, <<h>>)
        /\ \A n \in Nat : h < n => Under(<<h>>, n)
    BY <1>3, OneFrame
  <2>3. \A s \in Ids : segs[s].audio \in Seq(Frames) /\ Under(segs[s].audio, h)
    BY <1>3, Types DEF Spoken
  <2>4. /\ NothingDecodedTwice'
        /\ \A n \in Nat : /\ \A s \in Ids : Under(segs[s].audio, n)
                          /\ Under(<<h>>, n) /\ Under(<<>>, n)
                          => Spoken(n)'
    BY <2>1, <2>2, <2>3, NewWords, EmptyWords DEF Words
  <2>5. ASSUME NEW n \in Nat, Spoken(n), h < n PROVE Spoken(n)'
    BY <2>2, <2>4, <2>5, EmptyWords DEF Spoken
  <2>6. NoTail'
    BY <2>1 DEF NoTail
  <2>. QED
    BY <1>3, <2>4, <2>5, <2>6 DEF Words
<1>5. CASE vad.seg # NoSeg
  <2> DEFINE grown == Append(segs[vad.seg].audio, Head(audio_in).seq)
  <2>1. \/ segs' = [segs EXCEPT ![vad.seg].audio = grown] /\ vad' = [vad EXCEPT !.quiet = 0]
        \/ \E cut \in 1..Len(grown) :
              CloseSegment(SubSeq(grown, 1, cut), SubSeq(grown, cut + 1, Len(grown)), "wait")
    BY <1>5 DEF VadSpeech
  <2>2. CASE segs' = [segs EXCEPT ![vad.seg].audio = grown] /\ vad' = [vad EXCEPT !.quiet = 0]
    <3>1. vad'.tail = <<>>
      BY <1>2, <2>2 DEF VadRec
    <3>. QED
      BY <1>1, <1>5, <2>2, <3>1, JoinsWords
  <2>3. ASSUME NEW cut \in 1..Len(grown),
               CloseSegment(SubSeq(grown, 1, cut), SubSeq(grown, cut + 1, Len(grown)), "wait")
        PROVE  Words'
    <3>1. /\ segs' = [segs EXCEPT ![vad.seg].audio = SubSeq(grown, 1, cut)]
          /\ vad'.tail = SubSeq(grown, cut + 1, Len(grown)) /\ vad'.pc = "put"
      BY <1>2, <2>3 DEF CloseSegment, VadRec
    <3>2. NoTail'
      BY <3>1 DEF NoTail
    <3>. QED
      BY <1>1, <1>5, <3>1, <3>2, GrowsWords
  <2>. QED
    BY <2>1, <2>2, <2>3
<1>. QED
  BY <1>4, <1>5

LEMMA VadSilenceWords ==
    ASSUME PInv, PInv', Words, VadSilence
    PROVE  Words'
<1> DEFINE grown == Append(segs[vad.seg].audio, Head(audio_in).seq)
<1>1. /\ ~streaming /\ TakesFrame /\ vad.pc = "wait" /\ next_seq' = next_seq
      /\ streaming' = streaming
  BY DEF VadSilence, TakesFrame, vadFrame, FrameWaits
<1>2. vad \in VadRec /\ vad.tail = <<>>
  BY <1>1, Types DEF Words, NoTail
<1>3. CASE vad.seg = NoSeg
  <2>1. UNCHANGED <<vad, segs>>
    BY <1>3 DEF VadSilence
  <2>2. Ids' = Ids /\ NoTail'
    BY <1>2, <2>1 DEF Ids, NoTail
  <2>. QED
    BY <1>1, <2>1, <2>2, StaysWords
<1>4. CASE vad.seg # NoSeg
  <2>1. /\ segs' = [segs EXCEPT ![vad.seg].audio = grown]
        /\ vad' = [vad EXCEPT !.pc = "put", !.tail = <<>>, !.then = "wait", !.quiet = 0]
             \/ vad' = [vad EXCEPT !.quiet = @ + 1]
    BY <1>4 DEF VadSilence, CloseSegment
  <2>2. vad'.tail = <<>>
    BY <1>2, <2>1 DEF VadRec
  <2>. QED
    BY <1>1, <1>4, <2>1, <2>2, JoinsWords
<1>. QED
  BY <1>3, <1>4

(* The steps of the VAD loop that take no frame. *)
LEMMA VadRestWords ==
    ASSUME PInv, PInv', Words,
           VadError \/ VadPause \/ VadStop \/ SpeechStart \/ PutJob \/ SpeechEnd
    PROVE  Words'
<1>0. /\ vad \in VadRec /\ segs \in Seq(SegRec) /\ DOMAIN segs = Ids
      /\ vad.seg # NoSeg => vad.seg \in Ids
      /\ \A s \in Ids : segs[s] \in SegRec /\ segs[s].audio \in Seq(Frames)
  BY Types
<1>1. CASE VadError \/ VadPause \/ VadStop \/ SpeechStart
  <2>1. /\ ~streaming /\ streaming' = streaming /\ next_seq' = next_seq
        /\ audio_in' = audio_in \/ TakesFrame
    BY <1>1 DEF VadError, VadPause, VadStop, SpeechStart, vadFrame, TakesFrame, TakesPause,
       TakesStop, VadSpeaks, FrameWaits, PauseWaits
  <2>2. vad.tail = <<>>
    <3>1. vad.pc \in {"wait", "start"}
      BY <1>1 DEF VadError, VadPause, VadStop, SpeechStart, TakesFrame, TakesPause, TakesStop,
         VadSpeaks, FrameWaits, PauseWaits
    <3>. QED
      BY <2>1, <3>1 DEF Words, NoTail
  <2>3. \/ segs' = segs
        \/ vad.seg # NoSeg /\ segs' = [segs EXCEPT ![vad.seg].audio = segs[vad.seg].audio]
    BY <1>1 DEF VadError, VadPause, VadStop, SpeechStart, CloseSegment, VadSpeaks
  <2>4. vad'.tail = <<>>
    BY <1>0, <1>1, <2>2 DEF VadError, VadPause, VadStop, SpeechStart, CloseSegment, VadRec, VadSpeaks
  <2>5. Ids' = Ids /\ \A s \in Ids : segs'[s].audio = segs[s].audio
    <3>1. CASE segs' = segs
      BY <3>1 DEF Ids
    <3>2. CASE vad.seg # NoSeg /\ segs' = [segs EXCEPT ![vad.seg].audio = segs[vad.seg].audio]
      <4>1. segs' = segs
        BY <1>0, <3>2 DEF SegRec
      <4>. QED
        BY <4>1 DEF Ids
    <3>. QED
      BY <2>3, <3>1, <3>2
  <2>6. NoTail'
    BY <2>4 DEF NoTail
  <2>. QED
    BY <2>1, <2>2, <2>4, <2>5, <2>6, StaysWords
<1>2. CASE PutJob
  <2>1. /\ vad.pc = "put" /\ ~streaming /\ vad.seg # NoSeg
    BY <1>2 DEF PutJob, PInv, Together, On, JobFits
  <2>2. /\ next_seq' = next_seq /\ audio_in' = audio_in
        /\ segs' = [segs EXCEPT ![vad.seg].fate = "queued"]
        /\ vad' = [vad EXCEPT !.pc = "end"]
    BY <1>2 DEF PutJob, JobFits
  <2>3. vad'.tail = vad.tail /\ vad'.pc = "end"
    BY <1>0, <2>2 DEF VadRec
  <2>4. Ids' = Ids /\ \A s \in Ids : segs'[s].audio = segs[s].audio
    BY <1>0, <2>1, <2>2, FateWords DEF Fate
  <2>5. NoTail'
    BY <2>3 DEF NoTail
  <2>. QED
    BY <2>2, <2>3, <2>4, <2>5, StaysWords
<1>3. CASE SpeechEnd /\ vad.tail = <<>>
  <2>1. /\ next_seq' = next_seq /\ audio_in' = audio_in /\ segs' = segs /\ vad'.tail = <<>>
    BY <1>0, <1>3 DEF SpeechEnd, VadRec, VadSpeaks
  <2>2. Ids' = Ids /\ NoTail'
    BY <2>1 DEF Ids, NoTail
  <2>. QED
    BY <2>1, <2>2, StaysWords
<1>4. CASE SpeechEnd /\ vad.tail # <<>>
  <2>1. /\ next_seq' = next_seq /\ audio_in' = audio_in
        /\ segs' = NewSegment(vad.tail) /\ vad'.tail = <<>>
    BY <1>0, <1>4 DEF SpeechEnd, VadRec, VadSpeaks
  <2>2. vad.tail \in Seq(Frames)
    BY Types
  <2>3. Increasing(vad.tail) /\ \A s \in Ids : Before(segs[s].audio, vad.tail)
    BY <1>0 DEF Words, NothingDecodedTwice
  <2>4. /\ NothingDecodedTwice'
        /\ \A n \in Nat : /\ \A s \in Ids : Under(segs[s].audio, n)
                          /\ Under(vad.tail, n) /\ Under(<<>>, n)
                          => Spoken(n)'
    BY <1>0, <2>1, <2>2, <2>3, NewWords, EmptyWords DEF Words
  <2>5. \A n \in Nat : Spoken(n) => Spoken(n)'
    BY <2>4, EmptyWords DEF Spoken
  <2>6. Waiting'
    BY <2>1, <2>5, QueueWaits DEF Words
  <2>7. NoTail'
    BY <2>1 DEF NoTail
  <2>. QED
    BY <2>4, <2>6, <2>7 DEF Words
<1>. QED
  BY <1>1, <1>2, <1>3, <1>4
LEMMA StreamFeedWords ==
    ASSUME PInv, PInv', Words, StreamFeed \/ StreamFeedFails
    PROVE  Words'
<1> DEFINE h == Head(audio_in).seq
<1>1. /\ streaming /\ TakesFrame /\ next_seq' = next_seq /\ streaming' = streaming
  BY DEF StreamFeed, StreamFeedFails, streamFrame
<1>2. vad \in VadRec /\ vad.tail \in Seq(Frames) /\ NoTail'
      /\ \A s \in Ids : segs[s].audio \in Seq(Frames)
  BY <1>1, Types DEF NoTail
<1>3. /\ h \in Frames /\ Spoken(h)
      /\ (\A n \in Nat : Spoken(n) /\ h < n => Spoken(n)') => Waiting'
  BY <1>1, NextFrame DEF Words
<1>4. vad'.tail = Append(vad.tail, h) /\ (segs' = segs \/ segs' = NewSegment(<<>>))
  BY <1>2 DEF StreamFeed, StreamFeedFails, VadRec
<1> HIDE DEF h
<1>5. CASE segs' = segs
  <2>1. /\ NothingDecodedTwice'
        /\ \A n \in Nat : Spoken(n) /\ h < n => Spoken(n)'
    BY <1>3, <1>4, <1>5, HeldWords DEF Words
  <2>. QED
    BY <1>2, <1>3, <2>1 DEF Words
<1>6. CASE segs' = NewSegment(<<>>)
  <2>1. /\ Increasing(vad.tail) /\ Under(vad.tail, h)
        /\ \A s \in Ids : Before(segs[s].audio, vad.tail) /\ Under(segs[s].audio, h)
    BY <1>3, Types DEF Words, NothingDecodedTwice, Spoken
  <2>2. /\ Increasing(vad'.tail) /\ vad'.tail \in Seq(Frames)
        /\ \A n \in Nat : Under(vad.tail, n) /\ h < n => Under(vad'.tail, n)
        /\ \A p \in Seq(Frames) : Before(p, vad.tail) /\ Under(p, h) => Before(p, vad'.tail)
    BY <1>2, <1>3, <1>4, <2>1, Extended
  <2>3. /\ \A s \in Ids : Before(segs[s].audio, vad'.tail) /\ Before(segs[s].audio, <<>>)
        /\ Before(<<>>, vad'.tail) /\ Increasing(<<>>) /\ <<>> \in Seq(Frames)
    BY <1>2, <2>1, <2>2, EmptyWords
  <2>4. /\ NothingDecodedTwice'
        /\ \A n \in Nat : /\ \A s \in Ids : Under(segs[s].audio, n)
                          /\ Under(<<>>, n) /\ Under(vad'.tail, n)
                          => Spoken(n)'
    BY <1>6, <2>2, <2>3, NewWords DEF Words
  <2>5. ASSUME NEW n \in Nat, Spoken(n), h < n PROVE Spoken(n)'
    BY <2>2, <2>4, <2>5, EmptyWords DEF Spoken
  <2>. QED
    BY <1>2, <1>3, <2>4, <2>5 DEF Words
<1>. QED
  BY <1>4, <1>5, <1>6

(* An utterance's audio becomes its segment's, or is let go. *)
LEMMA FinalizeWords ==
    ASSUME PInv, PInv', Words, streaming, UNCHANGED <<streaming, next_seq, audio_in>>,
           NEW w \in Nat, NEW then \in {"wait", "exit"}, Finalize(w, then)
    PROVE  Words'
<1>1. /\ vad \in VadRec /\ segs \in Seq(SegRec) /\ DOMAIN segs = Ids
      /\ vad.seg # NoSeg => vad.seg \in Ids
      /\ vad.tail \in Seq(Frames) /\ NoTail'
  BY Types DEF NoTail
<1>2. vad'.tail = <<>>
  BY <1>1 DEF Finalize, VadRec
<1>3. CASE vad.seg # NoSeg /\ w > 0
  <2>1. segs' = [segs EXCEPT ![vad.seg] = [audio |-> vad.tail, fate |-> "queued"]]
    BY <1>3 DEF Finalize
  <2>2. /\ Ids' = Ids /\ segs'[vad.seg].audio = vad.tail
        /\ \A s \in Ids : s # vad.seg => segs'[s].audio = segs[s].audio
    <3>1. /\ DOMAIN segs' = DOMAIN segs /\ segs'[vad.seg].audio = vad.tail
          /\ \A s \in Ids : s # vad.seg => segs'[s] = segs[s]
      BY <1>1, <1>3, <2>1
    <3>2. DOMAIN segs' = Ids'
      <4>1. segs' \in Seq(SegRec)
        BY DEF PInv, PipelineTypeOK, SegRec
      <4>. QED
        BY <4>1 DEF Ids
    <3>. QED
      BY <1>1, <3>1, <3>2
  <2>3. /\ Increasing(vad.tail) /\ \A s \in Ids : Before(segs[s].audio, vad.tail)
        /\ \A s \in Ids : segs[s].audio \in Seq(Frames)
    BY <1>1, Types DEF Words, NothingDecodedTwice
  <2>4. /\ NothingDecodedTwice'
        /\ \A n \in Nat : /\ \A s \in Ids : Under(segs[s].audio, n)
                          /\ Under(vad.tail, n) /\ Under(<<>>, n)
                          => Spoken(n)'
    BY <1>1, <1>2, <1>3, <2>2, <2>3, LastWords, EmptyWords DEF Words
  <2>5. \A n \in Nat : Spoken(n) => Spoken(n)'
    BY <2>4, EmptyWords DEF Spoken
  <2>6. Waiting'
    BY <2>5, QueueWaits DEF Words
  <2>. QED
    BY <1>1, <2>4, <2>6 DEF Words
<1>4. CASE ~(vad.seg # NoSeg /\ w > 0)
  <2>1. segs' = segs \/ (vad.seg # NoSeg /\ segs' = [segs EXCEPT ![vad.seg].fate = "dropped"])
    BY <1>4 DEF Finalize
  <2>2. Ids' = Ids /\ \A s \in Ids : segs'[s].audio = segs[s].audio
    <3>1. CASE segs' = segs
      BY <3>1 DEF Ids
    <3>2. CASE vad.seg # NoSeg /\ segs' = [segs EXCEPT ![vad.seg].fate = "dropped"]
      <4>1. "dropped" \in Fate
        BY DEF Fate
      <4>. QED
        BY <1>1, <3>2, <4>1, FateWords
    <3>. QED
      BY <2>1, <3>1, <3>2
  <2>. QED
    BY <1>1, <1>2, <2>2, StaysWords
<1>. QED
  BY <1>3, <1>4

LEMMA StreamRestWords ==
    ASSUME PInv, PInv', Words,
           \/ StreamStart \/ StreamRest \/ StreamError
           \/ StreamPause \/ StreamStop \/ StreamEnd \/ StreamPublished
    PROVE  Words'
<1>1. vad \in VadRec /\ utterance \in Heard /\ Ids = 1..Len(segs)
  BY Types DEF Ids
<1>2. /\ streaming /\ UNCHANGED <<streaming, next_seq, audio_in>>
  <2>1. vad.pc = "publish" => streaming
    BY DEF PInv, Together
  <2>. QED
    BY <2>1 DEF StreamStart, StreamRest, StreamError, StreamPause, StreamStop, StreamEnd,
       StreamPublished, streamFrame, VadSpeaks, PartialIsDue, EndpointIsDue, PublishedAll
<1>3. NoTail'
  BY <1>2 DEF NoTail
<1>4. CASE segs' = segs /\ (vad'.tail = vad.tail \/ vad'.tail = <<>>)
  <2>1. Ids' = Ids
    BY <1>4 DEF Ids
  <2>. QED
    BY <1>2, <1>3, <1>4, <2>1, StaysWords
<1>5. CASE \E w \in Nat : \E then \in {"wait", "exit"} : Finalize(w, then)
  BY <1>2, <1>5, FinalizeWords
<1>6. CASE StreamStart \/ StreamError \/ StreamEnd \/ StreamPublished
  BY <1>1, <1>4, <1>6 DEF StreamStart, StreamError, StreamEnd, StreamPublished, VadRec, VadSpeaks,
     PublishedAll
<1>7. CASE StreamRest
  <2>1. \/ Finalize(utterance.text, "wait")
        \/ segs' = segs /\ vad' = [vad EXCEPT !.pc = "wait"]
    BY <1>7 DEF StreamRest, PartialIsDue, EndpointIsDue
  <2>2. utterance.text \in Nat
    BY <1>1 DEF Heard
  <2>. QED
    BY <1>1, <1>4, <1>5, <2>1, <2>2 DEF VadRec
<1>8. CASE StreamPause
  <2>1. Finalize(utterance.sent, "wait") /\ utterance.sent \in Nat
    BY <1>1, <1>8 DEF StreamPause, Heard
  <2>. QED
    BY <1>5, <2>1
<1>9. CASE StreamStop
  <2>1. \/ \E heard \in {utterance.text, utterance.text + 1} : Finalize(heard, "exit")
        \/ segs' = segs /\ vad' = [vad EXCEPT !.pc = "exited"]
    BY <1>9 DEF StreamStop
  <2>2. {utterance.text, utterance.text + 1} \subseteq Nat
    BY <1>1 DEF Heard
  <2>. QED
    BY <1>1, <1>4, <1>5, <2>1, <2>2 DEF VadRec
<1>. QED
  BY <1>6, <1>7, <1>8, <1>9
(* The other loops give a segment its fate and leave its audio.             *)
LEMMA BackWords ==
    ASSUME PInv, PInv', Words,
           PartialText \/ SttLoop \/ TranslationLoop \/ PartialTranslationLoop
    PROVE  Words'
<1>1. UNCHANGED <<streaming, next_seq, audio_in, vad>>
  BY DEF PartialText, SttLoop, SttTake, SttError, EmitFinal, QueueFinal, TranslationLoop,
     TransTake, EmitTrans, PartialTranslationLoop, PartialTransWake, PartialTransTake,
     PartialTransResult, PartialTransPut, sttFrame, transFrame, ptransFrame, taskFrame, JobWaits,
     FinalSpeaks, FinalFits, FinalWaits, TransSpeaks, PartialTransSpeaks
<1>2. \/ segs' = segs
      \/ \E s \in Ids, f \in Fate : segs' = [segs EXCEPT ![s].fate = f]
  <2>1. CASE SttError
    BY <2>1 DEF SttError, PInv, SttFlow, Fate
  <2>2. CASE EmitFinal
    BY <2>2 DEF EmitFinal, PInv, SttFlow, Fate, FinalSpeaks
  <2>3. CASE EmitTrans
    BY <2>3, Room DEF EmitTrans, PInv, TransFlow, Fate, TransSpeaks
  <2>4. CASE ~SttError /\ ~EmitFinal /\ ~EmitTrans
    BY <2>4 DEF PartialText, SttLoop, SttTake, QueueFinal, TranslationLoop,
       TransTake, PartialTranslationLoop, PartialTransWake, PartialTransTake,
       PartialTransResult, PartialTransPut, ptransFrame, transFrame, JobWaits, FinalFits,
       FinalWaits, PartialTransSpeaks
  <2>. QED
    BY <2>1, <2>2, <2>3, <2>4
<1>3. Ids' = Ids /\ \A s \in Ids : segs'[s].audio = segs[s].audio
  <2>1. CASE segs' = segs
    BY <2>1 DEF Ids
  <2>2. CASE \E s \in Ids, f \in Fate : segs' = [segs EXCEPT ![s].fate = f]
    BY <2>2, FateWords
  <2>. QED
    BY <1>2, <2>1, <2>2
<1>4. NoTail'
  BY <1>1 DEF Words, NoTail
<1>. QED
  BY <1>1, <1>3, <1>4, StaysWords

LEMMA PipelineWords ==
    ASSUME PInv, PInv', Words, PipelineNext
    PROVE  Words'
BY VadSpeechWords, VadSilenceWords, VadRestWords, StreamFeedWords, StreamRestWords, BackWords
   DEF PipelineNext, VadLoop, StreamLoop

LEMMA FedWords ==
    ASSUME PInv, Words, NEW speech \in BOOLEAN, FeedAudio(speech)
    PROVE  Words'
<1> DEFINE room == IF Len(audio_in) < AudioCap THEN audio_in ELSE Tail(audio_in)
           c == [seq |-> next_seq + 1, speech |-> speech]
           m == Len(audio_in)
<1>1. /\ next_seq' = next_seq + 1 /\ next_seq < MaxChunks /\ audio_in' = Append(room, c)
      /\ UNCHANGED <<streaming, vad, segs>>
  BY DEF FeedAudio
<1>2. /\ audio_in \in Seq(Chunk) /\ m \in Nat /\ next_seq \in Nat /\ AudioCap \in Nat /\ AudioCap > 0
      /\ MaxChunks \in Nat
  BY Types, PipelineAssumption
<1>3. \A n \in Nat : Spoken(n) => Spoken(n)'
  BY <1>1 DEF Spoken, Ids
<1>4. c \in Chunk /\ c.seq = next_seq + 1
  BY <1>1, <1>2 DEF Chunk, Frames
<1>4a. room = audio_in \/ (audio_in # <<>> /\ room = Tail(audio_in))
  BY <1>2
<1> HIDE DEF room, c
<1>5. PICK d \in {0, 1} : /\ room \in Seq(Chunk) /\ Len(room) + d = m /\ Len(room) \in Nat
                          /\ \A i \in 1..Len(room) : room[i] = audio_in[i + d]
  <2>1. CASE room = audio_in
    <3>1. \A i \in 1..m : i + 0 = i
      OBVIOUS
    <3>2. /\ Len(room) + 0 = m /\ \A i \in 1..Len(room) : room[i] = audio_in[i + 0]
      BY <1>2, <2>1, <3>1
    <3>. QED
      BY <1>2, <2>1, <3>2
  <2>2. CASE audio_in # <<>> /\ room = Tail(audio_in)
    <3>1. /\ room \in Seq(Chunk) /\ Len(room) = m - 1 /\ m \in Nat \ {0}
          /\ \A i \in 1..Len(room) : room[i] = audio_in[i + 1]
      BY <1>2, <2>2, TailFacts
    <3>2. Len(room) + 1 = m /\ Len(room) \in Nat
      BY <3>1
    <3>. QED
      BY <3>1, <3>2
  <2>. QED
    BY <1>4a, <2>1, <2>2
<1> HIDE DEF m
<1>6. /\ Len(audio_in') = Len(room) + 1 /\ audio_in'[Len(room) + 1] = c
      /\ \A i \in 1..Len(room) : audio_in'[i] = room[i]
  BY <1>1, <1>4, <1>5, AppendFacts
<1>7. \A i \in 1..Len(audio_in') :
          \/ i \in 1..Len(room) /\ i + d \in 1..m /\ audio_in'[i] = audio_in[i + d]
          \/ i = Len(room) + 1 /\ audio_in'[i].seq = next_seq + 1
  <2>1. \A i \in 1..Len(room) + 1 : i \in 1..Len(room) \/ i = Len(room) + 1
    BY <1>5
  <2>2. \A i \in 1..Len(room) : i + d \in 1..m
    BY <1>2, <1>5
  <2>. QED
    BY <1>4, <1>5, <1>6, <2>1, <2>2
<1>8. /\ \A i, k \in 1..m : i < k => audio_in[i].seq < audio_in[k].seq
      /\ \A k \in 1..m : audio_in[k].seq <= next_seq /\ Spoken(audio_in[k].seq)
      /\ Spoken(next_seq + 1)
  BY DEF Words, Waiting, m
<1>9. \A k \in 1..m : audio_in[k].seq \in Nat
  <2>1. \A k \in 1..m : audio_in[k] \in Chunk
    BY <1>2 DEF m
  <2>. QED
    BY <2>1 DEF Chunk, Frames
<1>10. ASSUME NEW i \in 1..Len(audio_in'), NEW k \in 1..Len(audio_in'), i < k
       PROVE  audio_in'[i].seq < audio_in'[k].seq
  <2>1. i \in 1..Len(room)
    BY <1>5, <1>6, <1>10
  <2>2. i + d \in 1..m /\ audio_in'[i] = audio_in[i + d]
    BY <1>5, <1>7, <2>1
  <2>3. CASE k = Len(room) + 1 /\ audio_in'[k].seq = next_seq + 1
    BY <1>2, <1>8, <1>9, <2>2, <2>3
  <2>4. CASE k \in 1..Len(room) /\ k + d \in 1..m /\ audio_in'[k] = audio_in[k + d]
    <3>1. i + d < k + d
      BY <1>5, <1>10, <2>1, <2>4
    <3>. QED
      BY <1>8, <2>2, <2>4, <3>1
  <2>. QED
    BY <1>7, <2>3, <2>4
<1>11. ASSUME NEW k \in 1..Len(audio_in'), NEW n \in Nat, n = audio_in'[k].seq
       PROVE  n <= next_seq + 1 /\ Spoken(n)'
  BY <1>2, <1>3, <1>7, <1>8, <1>9, <1>11
<1>12. \A k \in 1..Len(audio_in') : audio_in'[k].seq \in Nat
  BY <1>2, <1>7, <1>9
<1>13. ASSUME NEW n \in Nat, n = next_seq + 2 PROVE Spoken(n)'
  <2>1. Under(vad.tail, next_seq + 1) /\ \A s \in Ids : Under(segs[s].audio, next_seq + 1)
    BY <1>8 DEF Spoken
  <2>2. \A q \in Seq(Frames) : Under(q, next_seq + 1) => Under(q, n)
    <3>1. ASSUME NEW q \in Seq(Frames), Under(q, next_seq + 1) PROVE Under(q, n)
      <4>1. \A i \in DOMAIN q : q[i] \in Frames
        OBVIOUS
      <4>2. \A i \in DOMAIN q : q[i] \in Nat /\ q[i] < next_seq + 1
        BY <3>1, <4>1 DEF Under, Frames
      <4>. QED
        BY <1>2, <1>13, <4>2 DEF Under
    <3>. QED
      BY <3>1
  <2>3. Spoken(n)
    BY <2>1, <2>2, Types DEF Spoken
  <2>. QED
    BY <1>3, <2>3
<1>14. \A k \in 1..Len(audio_in') : audio_in'[k].seq <= next_seq' /\ Spoken(audio_in[k].seq)'
  BY <1>1, <1>11, <1>12 DEF Spoken
<1>15. Spoken(next_seq + 1)'
  <2>1. next_seq' + 1 = next_seq + 2 /\ next_seq + 2 \in Nat
    BY <1>1, <1>2
  <2>. QED
    BY <1>13, <2>1 DEF Spoken
<1>16. Waiting'
  BY <1>10, <1>14, <1>15 DEF Waiting
<1>17. NothingDecodedTwice' /\ NoTail'
  BY <1>1 DEF Words, NothingDecodedTwice, NoTail
<1>. QED
  BY <1>16, <1>17 DEF Words
LEMMA SessionWords ==
    ASSUME IInv, Words, [Next]_vars
    PROVE  Words'
<1>1. PInv /\ PInv' /\ vad \in VadRec
  BY SessionKeeps, Types DEF IInv
<1>2. CASE PipelineNext /\ UNCHANGED sessionVars
  BY <1>1, <1>2, PipelineWords
<1>3. CASE UNCHANGED <<streaming, next_seq, audio_in, vad, segs>>
  <2>1. Ids' = Ids /\ NoTail'
    BY <1>3 DEF Ids, Words, NoTail
  <2>. QED
    BY <1>1, <1>3, <2>1, StaysWords
<1>4. CASE StartLoops /\ ~On
  <2>1. vad.tail = <<>>
    BY <1>1, <1>4 DEF PInv, Together
  <2>2. /\ UNCHANGED <<streaming, next_seq, audio_in, segs>> /\ vad' = [vad EXCEPT !.pc = "wait"]
    BY <1>4 DEF StartLoops
  <2>3. vad'.tail = <<>>
    BY <1>1, <2>1, <2>2 DEF VadRec
  <2>4. Ids' = Ids /\ NoTail'
    BY <2>2, <2>3 DEF Ids, NoTail
  <2>. QED
    BY <1>1, <2>2, <2>3, <2>4, StaysWords
<1>5. CASE StopLoops
  <2>1. /\ UNCHANGED <<streaming, next_seq, segs>> /\ audio_in' = <<>> /\ vad'.tail = <<>>
    BY <1>5 DEF StopLoops, IdleVad
  <2>2. Ids' = Ids /\ NoTail'
    BY <2>1 DEF Ids, NoTail
  <2>. QED
    BY <1>1, <2>1, <2>2, StaysWords
<1>6. CASE Refuse \/ StartPipeline \/ OpenRecording \/ CreateRow
  <2>1. handler = "connecting" => ~On
    BY DEF IInv, Closed
  <2>. QED
    BY <1>3, <1>4, <1>5, <1>6, <2>1
       DEF Refuse, StartPipeline, OpenRecording, CreateRow, pipelineVars
<1>7. CASE Audio \/ Pause \/ Stop
  <2>1. CASE Audio
    BY <1>1, <2>1, FedWords DEF Audio
  <2>2. CASE Pause \/ Stop
    BY <1>3, <2>2 DEF Pause, Stop, Signal
  <2>. QED
    BY <1>7, <2>1, <2>2
<1>8. CASE Disconnect \/ Cleanup
  BY <1>3, <1>5, <1>8 DEF Disconnect, Cleanup, Flushed, FlushTimeout, Linger, StopTasks,
     StampDuration, FinishSession, pipelineVars
<1>9. CASE Pump \/ SendRaises
  BY <1>3, <1>9 DEF Pump, PumpStoreFirst, PumpSendFirst, PumpSend, PumpStore, SendRaises, pumpFrame,
     EventWaits
<1>10. CASE UNCHANGED vars
  BY <1>3, <1>10 DEF vars, pipelineVars
<1>. QED
  BY <1>2, <1>6, <1>7, <1>8, <1>9, <1>10 DEF Next, Ended

(* What was said reaches the client once and in the order it was said,      *)
(* whatever the length cap, the gaps and the queues do to it: no frame is   *)
(* in two segments or behind a later one (pipeline.py:580, the cut), and     *)
(* the finals follow (pipeline.py:189).                                     *)
THEOREM WordsComeOnceInOrder == Spec => []EveryWordOnceInOrder
<1>1. ASSUME Init PROVE Words
  <2>1. /\ segs = <<>> /\ audio_in = <<>> /\ vad.tail = <<>> /\ Len(segs) = 0 /\ Len(audio_in) = 0
        /\ DOMAIN segs = {}
    <3>1. segs = <<>> /\ audio_in = <<>> /\ vad = IdleVad
      BY <1>1 DEF Init, PipelineInit
    <3>2. vad.tail = <<>> /\ Len(<<>>) = 0 /\ DOMAIN <<>> = {}
      BY <3>1 DEF IdleVad
    <3>. QED
      BY <3>1, <3>2
  <2>2. \A n : Spoken(n)
    BY <2>1 DEF Spoken, Under, Ids
  <2>3. Waiting /\ NoTail
    BY <2>1, <2>2 DEF Waiting, NoTail
  <2>4. NothingDecodedTwice
    BY <2>1, EmptyWords DEF NothingDecodedTwice
  <2>. QED
    BY <2>3, <2>4 DEF Words
<1>2. ASSUME IInv, Words, [Next]_vars PROVE Words'
  BY <1>2, SessionWords
<1>3. IInv /\ Words => EveryWordOnceInOrder
  BY DEF IInv, Words, EveryWordOnceInOrder
<1>. QED
  BY <1>1, <1>2, <1>3, SessionIsSound, PTL DEF Spec

-----------------------------------------------------------------------------
(***************************************************************************)
(* Nobody waits for somebody who waits for him.  Due: at rest the stream   *)
(* loop has something to do, and flush() has told the loops to stop.       *)
(***************************************************************************)
Due ==
    /\ utterance.next = "partial" => streaming /\ partials < MaxPartials
    /\ vad.pc = "rest" => utterance.next # "go"
    /\ handler \in {"flushing", "drained"} => stopping

(* The steps that leave the recogniser's stream alone.                     *)
LEMMA DueStays ==
    ASSUME Due, UNCHANGED <<utterance, partials, streaming>>,
           vad'.pc = "rest" => vad.pc = "rest",
           handler' \in {"flushing", "drained"} => stopping'
    PROVE  Due'
BY DEF Due

LEMMA PipelineDue ==
    ASSUME IInv, Due, PipelineNext, UNCHANGED sessionVars
    PROVE  Due'
<1> USE DEF sessionVars
<1>1. /\ vad \in VadRec /\ utterance \in Heard /\ handler' = handler
      /\ handler \in {"flushing", "drained"} => stopping
  BY Types DEF IInv, PInv, PipelineTypeOK, VadRec, Heard, Due
<1>2. stopping' = stopping
  BY DEF PipelineNext, VadLoop, StreamLoop, SttLoop, TranslationLoop, PartialTranslationLoop,
     VadError, VadSpeech, VadSilence, VadPause, VadStop, SpeechStart, PutJob, SpeechEnd,
     StreamFeed, StreamStart, StreamRest, StreamFeedFails, StreamError, StreamPause, StreamStop,
     StreamEnd, StreamPublished, PartialText, SttTake, SttError, EmitFinal, QueueFinal, TransTake,
     EmitTrans, PartialTransWake, PartialTransTake, PartialTransResult, PartialTransPut,
     vadFrame, streamFrame, sttFrame, transFrame, ptransFrame, taskFrame
<1>3. CASE VadLoop
  <2>1. UNCHANGED <<utterance, partials, streaming>>
    BY <1>3 DEF VadLoop, VadError, VadSpeech, VadSilence, VadPause, VadStop, SpeechStart,
       PutJob, SpeechEnd, vadFrame
  <2>2. vad'.pc = "rest" => vad.pc = "rest"
    BY <1>1, <1>3 DEF VadLoop, VadError, VadSpeech, VadSilence, VadPause, VadStop, SpeechStart,
       PutJob, SpeechEnd, CloseSegment, VadRec
  <2>. QED
    BY <1>1, <1>2, <2>1, <2>2, DueStays
<1>4. CASE StreamFeed
  <2>1. PICK heard \in {utterance.text, utterance.text + 1}, next \in {"go", "end", "partial"} :
          LET new == heard > 0 /\ vad.seg = NoSeg
          IN /\ next = "partial" => partials < MaxPartials
             /\ utterance' = [utterance EXCEPT !.text = heard, !.next = next]
             /\ vad' = [vad EXCEPT !.pc = IF new THEN "start" ELSE IF next = "go" THEN "wait" ELSE "rest",
                                   !.seg = IF new THEN Len(segs') ELSE @,
                                   !.tail = Append(@, Head(audio_in).seq)]
    BY <1>4 DEF StreamFeed
  <2>2. utterance'.next = next /\ (vad'.pc = "rest" => next # "go")
    BY <1>1, <2>1 DEF VadRec, Heard
  <2>3. streaming /\ UNCHANGED <<streaming, partials>>
    BY <1>4 DEF StreamFeed, streamFrame
  <2>. QED
    BY <1>1, <1>2, <2>1, <2>2, <2>3 DEF Due
<1>5. CASE StreamStart
  <2>1. UNCHANGED <<utterance, partials, streaming>>
    BY <1>5 DEF StreamStart, streamFrame
  <2>2. vad'.pc = "rest" => utterance.next # "go"
    BY <1>1, <1>5 DEF StreamStart, VadRec
  <2>. QED
    BY <1>1, <1>2, <2>1, <2>2 DEF Due
<1>6. CASE StreamRest \/ StreamPause \/ StreamStop
  <2>1. ASSUME NEW w, NEW then, Finalize(w, then)
        PROVE  utterance'.next = "go" /\ vad'.pc # "rest"
    BY <1>1, <2>1 DEF Finalize, VadRec, Heard
  <2>2. streaming' = streaming
    BY <1>6 DEF StreamRest, StreamPause, StreamStop, streamFrame
  <2>3. CASE StreamRest
    <3>1. CASE Finalize(utterance.text, "wait")
      BY <1>1, <1>2, <2>1, <3>1 DEF Due
    <3>2. CASE /\ utterance' = [utterance EXCEPT !.sent = utterance.text, !.next = "go"]
               /\ vad' = [vad EXCEPT !.pc = "wait"]
      BY <1>1, <1>2, <3>2 DEF Due, VadRec, Heard
    <3>. QED
      BY <2>3, <3>1, <3>2 DEF StreamRest
  <2>4. CASE StreamPause
    BY <1>1, <1>2, <2>1, <2>4 DEF StreamPause, Due
  <2>5. CASE StreamStop
    <3>1. CASE \E heard \in {utterance.text, utterance.text + 1} : Finalize(heard, "exit")
      BY <1>1, <1>2, <2>1, <3>1 DEF Due
    <3>2. CASE vad' = [vad EXCEPT !.pc = "exited"] /\ UNCHANGED utterance
      <4>1. UNCHANGED <<utterance, partials, streaming>>
        BY <2>5, <3>2 DEF StreamStop, streamFrame
      <4>. QED
        BY <1>1, <1>2, <3>2, <4>1 DEF Due, VadRec
    <3>. QED
      BY <2>5, <3>1, <3>2 DEF StreamStop
  <2>. QED
    BY <1>6, <2>3, <2>4, <2>5
<1>7. CASE StreamFeedFails \/ StreamError \/ StreamEnd \/ StreamPublished
  <2>1. UNCHANGED <<utterance, partials, streaming>>
    BY <1>7 DEF StreamFeedFails, StreamError, StreamEnd, StreamPublished, streamFrame
  <2>2. vad'.pc = "rest" => vad.pc = "rest"
    BY <1>1, <1>7 DEF StreamFeedFails, StreamError, StreamEnd, StreamPublished, VadRec
  <2>. QED
    BY <1>1, <1>2, <2>1, <2>2, DueStays
<1>8. CASE PartialText
  <2>1. partial /\ UNCHANGED <<streaming, utterance, vad>>
    BY <1>8 DEF PartialText, taskFrame
  <2>2. ~streaming
    BY <2>1 DEF IInv, PInv, Together
  <2>. QED
    BY <1>1, <1>2, <2>1, <2>2 DEF Due
<1>9. CASE SttLoop \/ TranslationLoop \/ PartialTranslationLoop
  <2>1. UNCHANGED <<utterance, partials, streaming, vad>>
    BY <1>9 DEF SttLoop, TranslationLoop, PartialTranslationLoop, SttTake, SttError, EmitFinal,
       QueueFinal, TransTake, EmitTrans, PartialTransWake, PartialTransTake, PartialTransResult,
       PartialTransPut, sttFrame, transFrame, ptransFrame, taskFrame
  <2>. QED
    BY <1>1, <1>2, <2>1, DueStays
<1>. QED
  BY <1>3, <1>4, <1>5, <1>6, <1>7, <1>8, <1>9 DEF PipelineNext, StreamLoop

LEMMA DueHolds == Spec => []Due
<1>1. Init => Due
  BY DEF Init, PipelineInit, IdleVad, Silent, Due
<1>2. IInv /\ Due /\ [Next]_vars => Due'
  <2> SUFFICES ASSUME IInv, Due, [Next]_vars PROVE Due'
    OBVIOUS
  <2>1. CASE PipelineNext /\ UNCHANGED sessionVars
    BY <2>1, PipelineDue
  <2>2. CASE UNCHANGED <<pipelineVars, handler>>
    BY <2>2 DEF Due, pipelineVars
  <2>3. CASE Refuse \/ StartPipeline \/ OpenRecording \/ CreateRow
    <3>1. vad \in VadRec /\ handler' \notin {"flushing", "drained"}
      BY <2>3, Types DEF IInv, PInv, PipelineTypeOK, VadRec, Refuse, StartPipeline,
         OpenRecording, CreateRow
    <3>2. \/ UNCHANGED <<utterance, partials, streaming, vad>>
          \/ UNCHANGED <<utterance, partials, streaming>> /\ vad' = [vad EXCEPT !.pc = "wait"]
          \/ vad' = IdleVad /\ utterance' = Silent
      BY <2>3 DEF Refuse, StartPipeline, OpenRecording, CreateRow, StartLoops, StopLoops, pipelineVars
    <3>. QED
      BY <3>1, <3>2 DEF Due, VadRec, IdleVad, Silent
  <2>4. CASE Audio
    <3>1. UNCHANGED <<utterance, partials, streaming, vad, handler, stopping>>
      BY <2>4 DEF Audio, FeedAudio
    <3>. QED
      BY <3>1 DEF Due
  <2>5. CASE Pause \/ Stop
    <3>1. /\ UNCHANGED <<utterance, partials, streaming, vad>>
          /\ stopping' \/ (stopping' = stopping /\ handler' = handler)
      BY <2>5, Types DEF IInv, PInv, PipelineTypeOK, Pause, Stop, Signal, sessionVars
    <3>. QED
      BY <3>1 DEF Due
  <2>6. CASE Flushed
    BY <2>6 DEF Flushed, Due, pipelineVars
  <2>7. CASE Disconnect \/ FlushTimeout \/ Linger
    <3>1. vad' = IdleVad /\ utterance' = Silent /\ handler' = "stopped"
      BY <2>7 DEF Disconnect, FlushTimeout, Linger, StopTasks, StopLoops
    <3>. QED
      BY <3>1 DEF Due, IdleVad, Silent
  <2>8. CASE StampDuration \/ FinishSession
    BY <2>8 DEF StampDuration, FinishSession, Due, pipelineVars
  <2>9. CASE Pump \/ SendRaises
    <3>1. UNCHANGED <<utterance, partials, streaming, vad, handler, stopping>>
      BY <2>9 DEF Pump, PumpStoreFirst, PumpSendFirst, PumpSend, PumpStore, SendRaises, pumpFrame
    <3>. QED
      BY <3>1 DEF Due
  <2>. QED
    BY <2>1, <2>2, <2>3, <2>4, <2>5, <2>6, <2>7, <2>8, <2>9 DEF Next, Cleanup, Ended, vars, sessionVars
<1>. QED
  BY <1>1, <1>2, SessionIsSound, PTL DEF Spec

(* With the pump waiting, the client's queue is empty; then whoever has     *)
(* something to answer can go on, or the next one in line can.             *)
LEMMA SomeoneAnswers ==
    ASSUME IInv, On, pump # "dead", handler \in {"running", "flushing"},
           ~PumpReady, ~AnswerReady
    PROVE  /\ ClientRoom /\ Drained
           /\ \A s \in Ids : segs[s].fate # "queued"
<1>1. ClientRoom
  <2>1. pump = "get"
    BY DEF IInv, TypeOK, Closed, PumpReady
  <2>2. client_events = <<>> /\ Len(<<>>) = 0
    BY <2>1 DEF PumpReady, EventWaits
  <2>. QED
    BY <2>2, PipelineAssumption DEF ClientRoom
<1>2. trans.pc = "get" /\ final_events = <<>>
  BY <1>1 DEF IInv, PInv, PipelineTypeOK, Together, AnswerReady, TransSpeaks, FinalWaits
<1>3. stt.pc = "get"
  <2>1. stt.pc # "busy"
    BY <1>1 DEF AnswerReady, FinalSpeaks
  <2>2. stt.pc # "queue"
    BY <1>2, PipelineAssumption DEF AnswerReady, FinalFits
  <2>. QED
    BY <2>1, <2>2 DEF IInv, PInv, PipelineTypeOK, Together
<1>4. stt_jobs = <<>>
  BY <1>3 DEF IInv, PInv, SttFlow, AnswerReady, JobWaits
<1>5. ptrans.pc = "wait"
  BY <1>1 DEF IInv, PInv, PipelineTypeOK, Together, AnswerReady, PartialTransSpeaks
<1>6. vad.pc # "end"
  BY <1>1 DEF AnswerReady, VadSpeaks
<1>7. \A s \in Ids : segs[s].fate # "queued"
  BY <1>3, <1>4, <1>6 DEF IInv, PInv, SttFlow
<1>. QED
  BY <1>1, <1>2, <1>3, <1>4, <1>5, <1>7 DEF Drained

(* Neither flush() nor the client waits in vain: when it returns, every      *)
(* segment was answered, and until then somebody can go on, whatever the    *)
(* sizes of the four queues (pipeline.py:247).                              *)
THEOREM FlushStaysSound == Spec => []FlushIsSound
<1>1. ASSUME IInv, Due PROVE NeverStuck
  <2> SUFFICES ASSUME pump # "dead", ~PumpReady, ~AnswerReady,
                      handler \in {"running", "flushing"}
               PROVE  /\ Queued = {}
                      /\ handler = "flushing" /\ ~(VadDone /\ Drained) => VadReady
    BY DEF NeverStuck
  <2>1. On
    BY <1>1 DEF IInv, Closed
  <2>2. ClientRoom /\ Drained /\ \A s \in Ids : segs[s].fate # "queued"
    BY <1>1, <2>1, SomeoneAnswers
  <2>3. Queued = {}
    <3>1. DOMAIN segs = Ids
      BY <1>1, Types DEF IInv, Ids
    <3>. QED
      BY <2>2, <3>1 DEF Queued
  <2>4. ASSUME handler = "flushing", ~VadDone PROVE VadReady
    <3>1. vad.pc \in {"wait", "start", "rest", "put", "end", "publish", "error"}
      BY <1>1, <2>1, <2>4 DEF IInv, PInv, PipelineTypeOK, VadPc, On, VadDone
    <3>2. CASE vad.pc = "wait"
      BY <1>1, <2>4, <3>2 DEF Due, VadReady, FrameWaits, TakesStop
    <3>3. CASE vad.pc = "rest"
      <4>1. streaming /\ utterance.next \in {"end", "partial"}
        BY <1>1, <3>3 DEF Due, IInv, PInv, PipelineTypeOK, Together
      <4>. QED
        BY <1>1, <3>3, <4>1 DEF Due, VadReady, PartialIsDue, EndpointIsDue
    <3>4. CASE vad.pc = "put"
      <4>1. ~streaming /\ Len(stt_jobs) < SttCap
        BY <1>1, <2>2, <3>4, PipelineAssumption DEF IInv, PInv, Together, Drained
      <4>. QED
        BY <3>4, <4>1 DEF VadReady, JobFits
    <3>5. CASE vad.pc \in {"start", "error"}
      BY <1>1, <2>2, <3>5 DEF IInv, PInv, Together, VadReady, VadSpeaks
    <3>6. CASE vad.pc = "publish"
      BY <2>2, <3>6 DEF Drained, VadReady, PublishedAll
    <3>7. vad.pc # "end"
      BY <2>2 DEF AnswerReady, VadSpeaks
    <3>. QED
      BY <3>1, <3>2, <3>3, <3>4, <3>5, <3>6, <3>7
  <2>. QED
    BY <2>2, <2>3, <2>4
<1>2. DrainedMeansAnswered /\ NeverStuck => FlushIsSound
  BY DEF FlushIsSound
<1>. QED
  BY <1>1, <1>2, FlushLosesNothing, SessionIsSound, DueHolds, PTL
=============================================================================
