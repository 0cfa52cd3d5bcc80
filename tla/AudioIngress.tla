---------------------------- MODULE AudioIngress ----------------------------
(***************************************************************************)
(* From the audio tracks of a meeting to the segments on its audio stream: *)
(* the subscriber that reads each human track in a task of its own         *)
(* (services/audio_ingress/subscriber.py), the service that keeps one      *)
(* pipeline per participant (service.py), and the pipeline, which chunks   *)
(* samples into frames, drops watermarked ones and cuts utterances         *)
(* (packages/audio: ingestion.py, framing.py, vad.py).                     *)
(*                                                                         *)
(* The event loop runs one task at a time; a step below ends where the     *)
(* code awaits something that is not there yet.  Samples are counted in    *)
(* units of what LiveKit delivers at once (10 ms); times are in ticks      *)
(* (ms), to which the code rounds the units down, so that a frame may last *)
(* a tick less, or more, than its samples.  LiveKit and Redis are          *)
(* external: tracks come and go, a publication may fail, and one whose     *)
(* task is cancelled may still reach the stream.                           *)
(***************************************************************************)
EXTENDS Naturals, Sequences, FiniteSets, SequencesExt

CONSTANTS
  Participants,    \* humans; what bots and synthetic tracks send is never read
  Tracks,          \* audio tracks
  Owner,           \* [Tracks -> Participants]
  Chunk,           \* length of a frame, 20 ms
  Pad,             \* speech_pad_ms
  MinSpeech,       \* min_speech_duration_ms
  MaxSpeech,       \* max_speech_duration_ms
  SilenceTimeout,  \* silence_timeout_ms, in ticks
  Unit,            \* ticks of a unit
  Short,           \* numbers of units whose time, rounded down, lacks a tick
  MaxUnits,        \* bound: units the tracks deliver
  MaxPipes,        \* bound: pipelines provisioned
  MaxStops,        \* bound: stops scheduled and not run, per participant
  MaxFailures      \* bound: publications that fail

ASSUME IngressAssumption ==
  /\ Owner \in [Tracks -> Participants]
  /\ Chunk \in Nat \ {0}
  /\ Pad \in Nat \ {0} /\ MaxSpeech \in Nat /\ SilenceTimeout \in Nat
  /\ MinSpeech \in Nat \ {0}
  /\ Pad + Chunk < MaxSpeech /\ SilenceTimeout > 0
  /\ Unit \in Nat \ {0, 1} /\ Short \subseteq Nat \ {0}
  /\ MaxUnits \in Nat /\ MaxPipes \in Nat /\ MaxStops \in Nat /\ MaxFailures \in Nat

VARIABLES
  room,       \* "open", "draining" (disconnecting), "cleaning", "closed", "gone"
  task,       \* [Tracks -> TaskStates]: the consumer of a track
  out,        \* [Tracks -> Seq(Segment)]: what a consumer is publishing, if anything
  stops,      \* [Participants -> Nat]: stop_track calls scheduled and not run
  pipes,      \* sequence of the pipelines ever provisioned
  reg,        \* [Participants -> index in pipes or 0]: the service's dictionary
  flush,      \* [1 .. MaxPipes -> FlushStates]
  tail,       \* [1 .. MaxPipes -> Seq(Segment)]: what a flush is publishing
  cleaning,   \* the pipeline cleanup_meeting flushes, or 0
  stream,     \* segments on the audio stream, in order
  cut,        \* segments in flight when their task was cancelled
  bursts,     \* segments rejected as too short (history)
  heard,      \* speech frames that reached a segmenter, numbered (history)
  lost,       \* those of them that failed publications took along (history)
  units, failures   \* counters behind MaxUnits and MaxFailures

pipeVars == <<pipes, flush, tail, bursts, heard>>
vars == <<room, task, out, stops, reg, cleaning, stream, cut, lost, units, failures, pipeVars>>

Segments == [pipe : 1 .. MaxPipes, start : Nat, end : Nat, len : Nat,
             speech : SUBSET Nat, number : Nat]

\* A pipeline: its participant, the samples short of a frame, its clock, the
\* quiet kept for padding, the utterance under way (its times and its silence in
\* ticks, its length in units) and the segments made.
Pipelines ==
  [who : Participants, buf : 0 .. Chunk - 1, clock : Nat, ring : 0 .. Pad,
   on : BOOLEAN, start : Nat, end : Nat, len : Nat, silence : Nat,
   speech : SUBSET Nat, voiced : Nat]

TypeOK ==
  /\ room \in {"open", "draining", "cleaning", "closed", "gone"}
  /\ task \in [Tracks -> {"none", "reading", "publishing", "ended"}]
  /\ \A t \in Tracks : Range(out[t]) \subseteq Segments /\ Len(out[t]) <= 1
  /\ stops \in [Participants -> 0 .. MaxStops]
  /\ \A i \in DOMAIN pipes : pipes[i] \in Pipelines
  /\ reg \in [Participants -> 0 .. Len(pipes)]
  /\ flush \in [1 .. MaxPipes -> {"no", "partial", "final", "over", "raised"}]
  /\ cleaning \in 0 .. MaxPipes
  /\ Range(stream) \subseteq Segments

Init ==
  /\ room = "open"
  /\ task = [t \in Tracks |-> "none"] /\ out = [t \in Tracks |-> <<>>]
  /\ stops = [p \in Participants |-> 0]
  /\ pipes = <<>> /\ reg = [p \in Participants |-> 0]
  /\ flush = [i \in 1 .. MaxPipes |-> "no"] /\ tail = [i \in 1 .. MaxPipes |-> <<>>]
  /\ cleaning = 0
  /\ stream = <<>> /\ cut = {} /\ bursts = {}
  /\ heard = {} /\ lost = {}
  /\ units = 0 /\ failures = 0

-----------------------------------------------------------------------------
(* The pipeline *)

NewPipe(p) ==
  [who |-> p, buf |-> 0, clock |-> 0, ring |-> 0, on |-> FALSE, start |-> 0, end |-> 0,
   len |-> 0, silence |-> 0, speech |-> {}, voiced |-> 0]

\* A frame is what the watermark detector and the VAD take it for.
Kinds == {"speech", "quiet", "marked"}

Smaller(m, n) == IF m <= n THEN m ELSE n

Larger(m, n) == IF m <= n THEN n ELSE m

NextFrame == Cardinality(heard) + 1

\* int((samples / rate) * 1000): the float product may lie just below the time.
Stamp(c) == IF c \in Short THEN Unit * c - 1 ELSE Unit * c

\* end_ms - start_ms of the next n units, which process_frame takes as max(1, it).
Lasts(q, n) == Larger(1, Stamp(q.clock + n) - Stamp(q.clock))

\* An onset dated back by the padding, whether or not there was that much quiet.
OnsetBackdated(q, n) ==
  [q EXCEPT !.on = TRUE, !.silence = 0, !.start = Stamp(q.clock - Smaller(q.clock, Pad)),
            !.end = Stamp(q.clock + n), !.len = q.ring + n, !.ring = 0, !.speech = {NextFrame}]

\* Speech begins: the utterance opens with the quiet that came before.
Onset(q, n) ==
  [q EXCEPT !.on = TRUE, !.silence = 0, !.start = Stamp(q.clock),
            !.end = Stamp(q.clock + n), !.len = q.ring + n, !.ring = 0, !.speech = {NextFrame}]

Continue(q, n, kind) ==
  [q EXCEPT !.end = Stamp(q.clock + n), !.len = @ + n,
            !.silence = IF kind = "speech" THEN 0 ELSE @ + Lasts(q, n),
            !.speech = IF kind = "speech" THEN @ \cup {NextFrame} ELSE @]

\* The pipeline once n units of a kind went through the detector and into the
\* segmenter: the clock advances in any case.
Framed(q, n, kind) ==
  LET r == CASE kind = "marked"                -> q
             [] kind # "marked" /\ q.on        -> Continue(q, n, kind)
             [] kind = "speech" /\ ~ q.on      -> Onset(q, n)
             [] kind = "quiet" /\ ~ q.on       -> [q EXCEPT !.ring = Smaller(@ + n, Pad)]
  IN  [r EXCEPT !.buf = 0, !.clock = @ + n]

\* Whether the frame that came last ends the utterance.
Ends(q) == q.on /\ (q.len >= MaxSpeech \/ q.silence >= SilenceTimeout)

\* The segmenter without its utterance; the times of an utterance are set when
\* the next one begins.
Cleared(q) == [q EXCEPT !.on = FALSE, !.start = 0, !.end = 0, !.len = 0, !.silence = 0,
                        !.speech = {}]

Counted(q) == [q EXCEPT !.voiced = @ + 1]

\* Padding and trailing silence count towards the minimum.
TooShort(q) == q.len < MinSpeech

SegmentOf(i, q, number) ==
  [pipe |-> i, start |-> q.start, end |-> q.end, len |-> q.len, speech |-> q.speech,
   number |-> number]

\* The frames taken for speech get the next number, whatever becomes of them.
Hear(kind) == heard' = IF kind = "speech" THEN heard \cup {NextFrame} ELSE heard

SetPipe(i, q) ==
  pipes' = IF i <= Len(pipes) THEN [pipes EXCEPT ![i] = q] ELSE Append(pipes, q)

-----------------------------------------------------------------------------
(* Flushing a pipeline that has been taken out of the dictionary *)

\* The utterance under way becomes a segment, is too short for one, or is none.
\* The counter moves before the segment takes its number from it.
FlushUtterance(i, q) ==
  \/ q.len > 0 /\ ~ TooShort(q)
     /\ tail' = [tail EXCEPT ![i] = <<SegmentOf(i, q, q.voiced + 1)>>]
     /\ flush' = [flush EXCEPT ![i] = "final"]
     /\ SetPipe(i, Counted(Cleared(q)))
     /\ UNCHANGED bursts
  \/ q.len > 0 /\ TooShort(q)
     /\ bursts' = bursts \cup {SegmentOf(i, q, 0)}
     /\ tail' = [tail EXCEPT ![i] = <<>>]
     /\ flush' = [flush EXCEPT ![i] = "over"]
     /\ SetPipe(i, Cleared(q))
  \/ q.len = 0
     /\ tail' = [tail EXCEPT ![i] = <<>>]
     /\ flush' = [flush EXCEPT ![i] = "over"]
     /\ SetPipe(i, Cleared(q))
     /\ UNCHANGED bursts

\* The samples that make no whole frame end the utterance.  Its segment is
\* published with the number of the one before, since the counter does not move;
\* without one before that is 0, no event is made of it, and the flush raises.
FlushPartial(i, r) ==
  /\ SetPipe(i, Cleared(r))
  /\ UNCHANGED bursts
  /\ \/ r.voiced > 0
        /\ tail' = [tail EXCEPT ![i] = <<SegmentOf(i, r, r.voiced)>>]
        /\ flush' = [flush EXCEPT ![i] = "partial"]
        /\ UNCHANGED lost
     \/ r.voiced = 0
        /\ tail' = [tail EXCEPT ![i] = <<>>]
        /\ flush' = [flush EXCEPT ![i] = "raised"]
        /\ lost' = lost \cup r.speech

\* The samples that make no whole frame go first.
Flush(i, q) ==
  \/ q.buf = 0 /\ FlushUtterance(i, q) /\ UNCHANGED <<heard, lost>>
  \/ /\ q.buf > 0
     /\ \E kind \in Kinds :
          LET r == Framed(q, q.buf, kind)
          IN  /\ Hear(kind)
              /\ IF Ends(r) /\ ~ TooShort(r)
                   THEN FlushPartial(i, r)
                   ELSE FlushUtterance(i, r) /\ UNCHANGED lost

-----------------------------------------------------------------------------
(* Tracks and their consumers *)

Subscribe(t) ==
  /\ room = "open" /\ task[t] = "none"
  /\ task' = [task EXCEPT ![t] = "reading"]
  /\ UNCHANGED <<room, out, stops, reg, cleaning, stream, cut, lost, units, failures, pipeVars>>

\* The utterance that ended becomes a segment to publish, or was a burst.
Emit(t, i, q) ==
  \/ ~ TooShort(q)
     /\ SetPipe(i, Counted(Cleared(q)))
     /\ task' = [task EXCEPT ![t] = "publishing"]
     /\ out' = [out EXCEPT ![t] = <<SegmentOf(i, q, q.voiced + 1)>>]
     /\ UNCHANGED bursts
  \/ TooShort(q)
     /\ SetPipe(i, Cleared(q))
     /\ bursts' = bursts \cup {SegmentOf(i, q, 0)}
     /\ UNCHANGED <<task, out>>

\* ingest_audio_pcm: a unit of a track goes to the pipeline of its participant,
\* provisioned on demand, whichever of the participant's tracks it comes from.
Ingest(t) ==
  /\ task[t] = "reading" /\ units < MaxUnits
  /\ units' = units + 1
  /\ LET p == Owner[t]
         i == IF reg[p] # 0 THEN reg[p] ELSE Len(pipes) + 1
         q == IF reg[p] # 0 THEN pipes[i] ELSE NewPipe(p)
     IN  /\ i <= MaxPipes
         /\ reg' = [reg EXCEPT ![p] = i]
         /\ \/ q.buf + 1 < Chunk
               /\ SetPipe(i, [q EXCEPT !.buf = @ + 1])
               /\ UNCHANGED <<task, out, bursts, heard>>
            \/ q.buf + 1 = Chunk
               /\ \E kind \in Kinds :
                    LET r == Framed(q, Chunk, kind)
                    IN  /\ Hear(kind)
                        /\ \/ Ends(r) /\ Emit(t, i, r)
                           \/ ~ Ends(r) /\ SetPipe(i, r) /\ UNCHANGED <<task, out, bursts>>
  /\ UNCHANGED <<room, stops, flush, tail, cleaning, stream, cut, lost, failures>>

Publish(t) ==
  /\ task[t] = "publishing"
  /\ stream' = stream \o out[t]
  /\ task' = [task EXCEPT ![t] = "reading"]
  /\ out' = [out EXCEPT ![t] = <<>>]
  /\ UNCHANGED <<room, stops, reg, cleaning, cut, lost, units, failures, pipeVars>>

\* A publication that fails, before or after it took effect.
Fails(segments) ==
  /\ failures < MaxFailures
  /\ failures' = failures + 1
  /\ \/ stream' = stream \o segments /\ UNCHANGED lost
     \/ lost' = lost \cup UNION {s.speech : s \in Range(segments)} /\ UNCHANGED stream

\* The exception ends the consumer: nothing reads the track any more.
PublishFails(t) ==
  /\ task[t] = "publishing"
  /\ Fails(out[t])
  /\ task' = [task EXCEPT ![t] = "ended"]
  /\ out' = [out EXCEPT ![t] = <<>>]
  /\ UNCHANGED <<room, stops, reg, cleaning, cut, units, pipeVars>>

\* Consumers are cancelled; what they were publishing is on its way.
Cancel(ts) ==
  /\ task' = [t \in Tracks |-> IF t \in ts THEN "none" ELSE task[t]]
  /\ out' = [t \in Tracks |-> IF t \in ts THEN <<>> ELSE out[t]]
  /\ cut' = cut \cup UNION {Range(out[t]) : t \in ts}

ScheduleStop(p) ==
  /\ stops[p] < MaxStops
  /\ stops' = [stops EXCEPT ![p] = @ + 1]

Unsubscribe(t) ==
  /\ room = "open" /\ task[t] # "none"
  /\ Cancel({t})
  /\ ScheduleStop(Owner[t])
  /\ UNCHANGED <<room, reg, cleaning, stream, lost, units, failures, pipeVars>>

\* track_unsubscribed asks for no kind of track: the end of a video track, or of an
\* audio track that was never consumed, stops its participant's pipeline too.
UnsubscribeOther(p) ==
  /\ room = "open"
  /\ ScheduleStop(p)
  /\ UNCHANGED <<room, task, out, reg, cleaning, stream, cut, lost, units, failures, pipeVars>>

TracksOf(p) == {t \in Tracks : Owner[t] = p}

\* A handler that leaves the pipeline to the ends of the tracks.
LeaveUnstopped(p) ==
  /\ room = "open"
  /\ Cancel(TracksOf(p))
  /\ UNCHANGED <<room, stops, reg, cleaning, stream, lost, units, failures, pipeVars>>

\* participant_disconnected, whether or not its tracks were unsubscribed before.
Leave(p) ==
  /\ room = "open"
  /\ Cancel(TracksOf(p))
  /\ ScheduleStop(p)
  /\ UNCHANGED <<room, reg, cleaning, stream, lost, units, failures, pipeVars>>

\* The command of a cancelled publication is executed after all, or never.
Settle(s) ==
  /\ s \in cut
  /\ cut' = cut \ {s}
  /\ \/ stream' = Append(stream, s) /\ UNCHANGED lost
     \/ lost' = lost \cup s.speech /\ UNCHANGED stream
  /\ UNCHANGED <<room, task, out, stops, reg, cleaning, units, failures, pipeVars>>

-----------------------------------------------------------------------------
(* Stops, flushes and the end *)

\* A stop that drops the pipeline as it is.
StopUnflushed(p) ==
  /\ stops[p] > 0 /\ room \in {"open", "draining", "closed"}
  /\ stops' = [stops EXCEPT ![p] = @ - 1]
  /\ reg' = [reg EXCEPT ![p] = 0]
  /\ UNCHANGED <<room, task, out, cleaning, stream, cut, lost, units, failures, pipeVars>>

\* stop_track takes the participant's pipeline, whichever track it was started
\* for, and flushes it.  The service's lock is held by a cleanup throughout.
Stop(p) ==
  /\ stops[p] > 0 /\ room \in {"open", "draining", "closed"}
  /\ stops' = [stops EXCEPT ![p] = @ - 1]
  /\ reg' = [reg EXCEPT ![p] = 0]
  /\ IF reg[p] # 0 THEN Flush(reg[p], pipes[reg[p]]) ELSE UNCHANGED <<lost, pipeVars>>
  /\ UNCHANGED <<room, task, out, cleaning, stream, cut, units, failures>>

Running == {i \in 1 .. MaxPipes : flush[i] \in {"partial", "final"}}

FlushPublishes(i) ==
  /\ i \in Running /\ room # "gone"
  /\ stream' = stream \o tail[i]
  /\ IF flush[i] = "partial"
       THEN FlushUtterance(i, pipes[i])
       ELSE /\ tail' = [tail EXCEPT ![i] = <<>>]
            /\ flush' = [flush EXCEPT ![i] = "over"]
            /\ UNCHANGED <<pipes, bursts>>
  /\ UNCHANGED <<room, task, out, stops, reg, cleaning, cut, lost, units, failures, heard>>

\* The exception ends the flush, and the cleanup that awaits it.
FlushFails(i) ==
  /\ i \in Running /\ room # "gone"
  /\ Fails(tail[i])
  /\ tail' = [tail EXCEPT ![i] = <<>>]
  /\ flush' = [flush EXCEPT ![i] = "raised"]
  /\ IF cleaning = i THEN room' = "closed" /\ cleaning' = 0 ELSE UNCHANGED <<room, cleaning>>
  /\ UNCHANGED <<task, out, stops, reg, cut, units, pipes, bursts, heard>>

\* unsubscribe_from_room cancels the consumers and disconnects.
Shutdown ==
  /\ room = "open"
  /\ room' = "draining"
  /\ Cancel(Tracks)
  /\ UNCHANGED <<stops, reg, cleaning, stream, lost, units, failures, pipeVars>>

Disconnected ==
  /\ room = "draining"
  /\ room' = "cleaning"
  /\ UNCHANGED <<task, out, stops, reg, cleaning, stream, cut, lost, units, failures, pipeVars>>

\* cleanup_meeting flushes one pipeline after the other, until one flush raises.
CleanNext(p) ==
  /\ room = "cleaning" /\ cleaning \notin Running
  /\ reg[p] # 0
  /\ reg' = [reg EXCEPT ![p] = 0]
  /\ Flush(reg[p], pipes[reg[p]])
  /\ IF flush'[reg[p]] = "raised"
       THEN room' = "closed" /\ cleaning' = 0
       ELSE cleaning' = reg[p] /\ UNCHANGED room
  /\ UNCHANGED <<task, out, stops, stream, cut, units, failures>>

Cleaned ==
  /\ room = "cleaning" /\ cleaning \notin Running
  /\ \A p \in Participants : reg[p] = 0
  /\ room' = "closed" /\ cleaning' = 0
  /\ UNCHANGED <<task, out, stops, reg, stream, cut, lost, units, failures, pipeVars>>

\* The process ends; stops and flushes of others are cut off.
Exit ==
  /\ room = "closed"
  /\ room' = "gone"
  /\ UNCHANGED <<task, out, stops, reg, cleaning, stream, cut, lost, units, failures, pipeVars>>

-----------------------------------------------------------------------------
Next ==
  \/ \E t \in Tracks : Subscribe(t) \/ Ingest(t) \/ Publish(t) \/ PublishFails(t) \/ Unsubscribe(t)
  \/ \E p \in Participants : Leave(p) \/ UnsubscribeOther(p) \/ Stop(p) \/ CleanNext(p)
  \/ \E s \in cut : Settle(s)
  \/ \E i \in 1 .. MaxPipes : FlushPublishes(i) \/ FlushFails(i)
  \/ Shutdown \/ Disconnected \/ Cleaned \/ Exit

Spec == Init /\ [][Next]_vars

\* The event loop runs every task that can go on; Redis answers, and LiveKit
\* completes a disconnection.  Nobody has to speak, come or leave.
Fairness ==
  /\ \A t \in Tracks : WF_vars(Publish(t) \/ PublishFails(t))
  /\ \A p \in Participants : WF_vars(Stop(p)) /\ WF_vars(CleanNext(p))
  /\ \A i \in 1 .. MaxPipes : WF_vars(FlushPublishes(i) \/ FlushFails(i))
  /\ WF_vars(Disconnected) /\ WF_vars(Cleaned)

FairSpec == Spec /\ Fairness

-----------------------------------------------------------------------------
(* Properties *)

Count(S) == Cardinality(S)

Says(segments, f) == \E s \in Range(segments) : f \in s.speech

\* How often a frame exists: in the utterance of a registered pipeline, in a
\* segment on its way or on the stream, among the bursts, or lost.
Copies(f) ==
  Count({i \in DOMAIN pipes : f \in pipes[i].speech /\ reg[pipes[i].who] = i})
  + Count({k \in DOMAIN stream : f \in stream[k].speech})
  + Count({t \in Tracks : Says(out[t], f)})
  + Count({i \in 1 .. MaxPipes : Says(tail[i], f)})
  + Count({s \in cut \cup bursts : f \in s.speech})
  + IF f \in lost THEN 1 ELSE 0

\* No speech is said twice and none vanishes, however tracks that share a
\* pipeline, stops and the cleanup overlap with publications: what is missing
\* was in a publication that failed or was cancelled, in a segment that a flush
\* could not number, or in a burst.
SpeechAccounted == \A f \in heard : Copies(f) = 1

AllSegments ==
  Range(stream) \cup cut
    \cup (UNION {Range(out[t]) : t \in Tracks})
    \cup (UNION {Range(tail[i]) : i \in 1 .. MaxPipes})

\* The last segment of a pipeline that was flushed.
LastOfFlushed(s) ==
  /\ flush[s.pipe] # "no"
  /\ \A c \in AllSegments : c.pipe = s.pipe => c.end <= s.end

\* The segments of a pipeline do not overlap in time and their numbers count up
\* from 1 in the order spoken, whichever of its tracks they come from and
\* whatever cut them: silence, the maximal length, a stop or the cleanup.  One
\* thing is left to the rounding of the times: the last segment of a flush may
\* bear the number of the one before.
SegmentsAdvance ==
  /\ \A a \in AllSegments : a.number >= 1
  /\ \A a, b \in AllSegments :
       a.pipe = b.pipe /\ a # b =>
         /\ a.end <= b.start \/ b.end <= a.start
         /\ a.end <= b.start =>
              a.number < b.number \/ (a.number = b.number /\ LastOfFlushed(b))

Silent(p) == \A t \in TracksOf(p) : task[t] = "none"

Settled(p) ==
  /\ reg[p] = 0
  /\ \A i \in DOMAIN pipes : pipes[i].who = p => i \notin Running

\* Once the tracks of a participant are gone its pipeline is released and
\* flushed out, unless a track comes back, the cleanup fails or the process ends.
PipelineReleased ==
  \A p \in Participants :
    Silent(p) ~> (Settled(p) \/ ~ Silent(p) \/ room = "gone"
                    \/ (room = "closed" /\ \E i \in DOMAIN pipes : flush[i] = "raised"))

\* database/models/source_segment.py:40, unique: no two segments of a
\* participant on the stream bear the same id, which is made of the start.
SegmentIdsUnique ==
  \A a, b \in Range(stream) :
    pipes[a.pipe].who = pipes[b.pipe].who /\ a.start = b.start => a = b

\* events.py:36-39, "Monotonic sequence number within stream": the segments of one
\* pipeline, at the least, have different numbers.
NumbersAdvance ==
  \A a, b \in Range(stream) : a.pipe = b.pipe /\ a.number = b.number => a = b

\* vad.py:233, "Filter out transient bursts shorter than min_speech_samples",
\* and tests/unit/test_vad.py:119, "Short acoustic pop must be rejected".
BurstsRejected ==
  \A s \in AllSegments : Cardinality(s.speech) * Chunk >= MinSpeech

\* subscriber.py:222, "Streams raw 16-bit PCM frames from native LiveKit
\* AudioStream into AudioIngressService": a subscribed track is being read.
TracksAreRead == \A t \in Tracks : task[t] # "ended"
=============================================================================
