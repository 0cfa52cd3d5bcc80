-------------------------- MODULE SpeechFlowProofs --------------------------
(***************************************************************************)
(* Proofs about the two ends of the speech pipeline: AudioIngress, which   *)
(* feeds it, for any tracks, participants, thresholds and number of        *)
(* pipelines; and Degradation, the flow control that judges it, for any    *)
(* meetings, workers and thresholds.  They share no state.                 *)
(*                                                                         *)
(* AudioIngress: a step either turns one pipeline, whose utterance goes    *)
(* on, becomes a segment or a burst, or is lost, or moves segments on; so  *)
(* no speech frame is ever in two places.  A pipeline a flush has begun on *)
(* is never registered again, so the number a flush may repeat is the last *)
(* one.  Degradation: a tier that worker health does not impose is left    *)
(* for a better one only after the cooldown, as the clock the controller   *)
(* consults starts over with every change.                                 *)
(***************************************************************************)
EXTENDS AudioIngress, Degradation, FiniteSetTheorems, TLAPS

\* What is being published: nothing, or one segment.
Single == {<< >>} \cup {<<s>> : s \in Segments}

\* The state with the shape of what its sequences hold.
Types ==
  /\ room \in {"open", "draining", "cleaning", "closed", "gone"}
  /\ task \in [Tracks -> {"none", "reading", "publishing", "ended"}]
  /\ out \in [Tracks -> Single]
  /\ stops \in [Participants -> 0 .. MaxStops]
  /\ pipes \in Seq(Pipelines) /\ Len(pipes) <= MaxPipes
  /\ reg \in [Participants -> 0 .. Len(pipes)]
  /\ flush \in [1 .. MaxPipes -> {"no", "partial", "final", "over", "raised"}]
  /\ tail \in [1 .. MaxPipes -> Single]
  /\ cleaning \in 0 .. MaxPipes
  /\ stream \in Seq(Segments)
  /\ cut \subseteq Segments /\ bursts \subseteq Segments
  /\ heard \in SUBSET Nat

-----------------------------------------------------------------------------
(* Times, rounded down *)

\* A time is never a whole tick off.
LEMMA StampParts ==
  ASSUME NEW c \in Nat
  PROVE  /\ Unit * c \in Nat /\ Stamp(c) \in Nat
         /\ Stamp(c) <= Unit * c /\ Unit * c <= Stamp(c) + 1
<1> USE IngressAssumption
<1>1. Unit * c \in Nat
  OBVIOUS
<1>2. CASE c \in Short
  <2>1. c >= 1
    BY <1>2
  <2>2. Unit * c >= Unit
    BY <2>1
  <2>3. Stamp(c) = Unit * c - 1
    BY <1>2 DEF Stamp
  <2>4. QED
    BY <1>1, <2>2, <2>3
<1>3. CASE c \notin Short
  BY <1>1, <1>3 DEF Stamp
<1> QED BY <1>2, <1>3, <1>1

\* Later is later, however the two times are rounded: a unit has two ticks.
LEMMA StampGrows ==
  ASSUME NEW c \in Nat, NEW n \in Nat \ {0}
  PROVE  Stamp(c) < Stamp(c + n)
<1> DEFINE a == Unit * c
           b == Unit * n
           d == Unit * (c + n)
<1>1. d = a + b /\ b \in Nat /\ b >= 2
  BY IngressAssumption
<1>2. /\ Stamp(c) \in Nat /\ a \in Nat /\ Stamp(c) <= a
      /\ Stamp(c + n) \in Nat /\ d <= Stamp(c + n) + 1
  BY StampParts
<1> HIDE DEF a, b, d
<1> QED BY <1>1, <1>2

\* What a frame adds to the silence is a number of ticks.
LEMMA LastsTyped ==
  ASSUME NEW q \in Pipelines, NEW n \in Nat \ {0}
  PROVE  Lasts(q, n) \in Nat
<1>1. q.clock \in Nat /\ q.clock + n \in Nat
  BY DEF Pipelines
<1>2. Stamp(q.clock) \in Nat /\ Stamp(q.clock + n) \in Nat
  BY <1>1, StampParts
<1>3. Stamp(q.clock) < Stamp(q.clock + n)
  BY <1>1, StampGrows
<1> QED BY <1>2, <1>3 DEF Lasts, Larger

-----------------------------------------------------------------------------
(* What a frame does to a pipeline *)

\* An utterance has a length and takes time; without one there is nothing of it,
\* and none reaches beyond the clock.
Sound(q) ==
  /\ q.on => q.len > 0 /\ q.start < q.end
  /\ ~ q.on => q.len = 0 /\ q.speech = {}
  /\ q.end <= Stamp(q.clock)

\* The speech an utterance has once a frame of a kind has come.
Grown(S, kind) == IF kind = "speech" THEN S \cup {NextFrame} ELSE S

LEMMA Typed ==
  ASSUME NEW q \in Pipelines
  PROVE  /\ q.who \in Participants /\ q.buf \in 0 .. Chunk - 1 /\ q.clock \in Nat
         /\ q.ring \in 0 .. Pad /\ q.on \in BOOLEAN /\ q.start \in Nat /\ q.end \in Nat
         /\ q.len \in Nat /\ q.silence \in Nat /\ q.speech \in SUBSET Nat /\ q.voiced \in Nat
BY DEF Pipelines

\* What r has of q, after a frame of n units.
Advanced(q, n, kind, r) ==
  /\ r \in Pipelines /\ Sound(r)
  /\ r.who = q.who /\ r.voiced = q.voiced /\ r.clock = q.clock + n
  /\ r.speech = Grown(q.speech, kind)
  /\ r.on => r.start = IF q.on THEN q.start ELSE Stamp(q.clock)
  /\ ~ r.on => ~ q.on

LEMMA FramedParts ==
  ASSUME NEW q \in Pipelines, Sound(q), NEW n \in 1 .. Chunk, NEW kind \in Kinds,
         NextFrame \in Nat
  PROVE  Advanced(q, n, kind, Framed(q, n, kind))
<1> USE IngressAssumption
<1> DEFINE r == Framed(q, n, kind)
           now == Stamp(q.clock + n)
<1>1. /\ q.who \in Participants /\ q.buf \in 0 .. Chunk - 1 /\ q.clock \in Nat
      /\ q.ring \in 0 .. Pad /\ q.on \in BOOLEAN /\ q.start \in Nat /\ q.end \in Nat
      /\ q.len \in Nat /\ q.silence \in Nat /\ q.speech \in SUBSET Nat /\ q.voiced \in Nat
      /\ n \in Nat \ {0} /\ q.clock + n \in Nat /\ 0 \in 0 .. Chunk - 1
  BY Typed
<1>2. now \in Nat /\ Stamp(q.clock) \in Nat /\ Stamp(q.clock) < now /\ Lasts(q, n) \in Nat
  BY <1>1, StampParts, StampGrows, LastsTyped
<1>3. /\ q.on => q.len > 0 /\ q.start < q.end
      /\ ~ q.on => q.len = 0 /\ q.speech = {}
      /\ q.end < now
  BY <1>1, <1>2 DEF Sound
<1>4. ASSUME kind = "marked"
      PROVE  Advanced(q, n, kind, r)
  <2>1. r = [q EXCEPT !.buf = 0, !.clock = q.clock + n]
    BY <1>4 DEF Framed
  <2>2. r = [who |-> q.who, buf |-> 0, clock |-> q.clock + n, ring |-> q.ring, on |-> q.on,
             start |-> q.start, end |-> q.end, len |-> q.len, silence |-> q.silence,
             speech |-> q.speech, voiced |-> q.voiced]
    BY <2>1 DEF Pipelines
  <2> HIDE DEF r
  <2>3. r \in Pipelines
    BY <1>1, <2>2 DEF Pipelines
  <2>4. r.clock = q.clock + n /\ r.end = q.end /\ r.end < now
    BY <1>3, <2>2
  <2>5. Sound(r)
    BY <1>1, <1>2, <1>3, <2>2, <2>4 DEF Sound
  <2>6. r.start = q.start /\ r.on = q.on /\ Grown(q.speech, kind) = q.speech
    BY <1>4, <2>2 DEF Grown
  <2>7. ~ r.on \/ q.on
    BY <2>6
  <2>8. QED
    BY <2>2, <2>3, <2>5, <2>6, <2>7 DEF Advanced
<1>5. ASSUME kind # "marked" /\ q.on
      PROVE  Advanced(q, n, kind, r)
  <2> DEFINE s == IF kind = "speech" THEN 0 ELSE q.silence + Lasts(q, n)
  <2>1. r = [Continue(q, n, kind) EXCEPT !.buf = 0, !.clock = @ + n]
    BY <1>5 DEF Framed
  <2>2. r = [who |-> q.who, buf |-> 0, clock |-> q.clock + n, ring |-> q.ring, on |-> q.on,
             start |-> q.start, end |-> now, len |-> q.len + n, silence |-> s,
             speech |-> Grown(q.speech, kind), voiced |-> q.voiced]
    BY <2>1 DEF Pipelines, Continue, Grown
  <2>3. s \in Nat /\ Grown(q.speech, kind) \in SUBSET Nat /\ q.len + n \in Nat
    BY <1>1, <1>2 DEF Grown
  <2>4. q.len + n > 0 /\ q.start < now
    BY <1>1, <1>2, <1>3, <1>5
  <2> HIDE DEF r, s, now
  <2>5. r \in Pipelines
    BY <1>1, <1>2, <2>2, <2>3 DEF Pipelines
  <2>6. r.on /\ r.len > 0 /\ r.start < r.end /\ r.end = now /\ r.clock = q.clock + n
        /\ r.start = q.start
    BY <1>5, <2>2, <2>4
  <2>7. Sound(r)
    BY <1>2, <2>6 DEF Sound, now
  <2>8. QED
    BY <1>5, <2>2, <2>5, <2>6, <2>7 DEF Advanced
<1>6. ASSUME kind = "speech" /\ ~ q.on
      PROVE  Advanced(q, n, kind, r)
  <2>1. r = [Onset(q, n) EXCEPT !.buf = 0, !.clock = @ + n]
    BY <1>6 DEF Framed
  <2>2. r = [who |-> q.who, buf |-> 0, clock |-> q.clock + n, ring |-> 0, on |-> TRUE,
             start |-> Stamp(q.clock), end |-> now, len |-> q.ring + n, silence |-> 0,
             speech |-> {NextFrame}, voiced |-> q.voiced]
    BY <2>1 DEF Pipelines, Onset
  <2>3. q.ring + n \in Nat /\ q.ring + n > 0 /\ 0 \in 0 .. Pad
    BY <1>1
  <2> HIDE DEF r, now
  <2>4. r \in Pipelines
    BY <1>1, <1>2, <2>2, <2>3 DEF Pipelines
  <2>5. Grown(q.speech, kind) = {NextFrame}
    BY <1>3, <1>6 DEF Grown
  <2>6. r.on /\ r.len > 0 /\ r.start < r.end /\ r.end = now /\ r.clock = q.clock + n
        /\ r.start = Stamp(q.clock)
    BY <1>2, <2>2, <2>3
  <2>7. Sound(r)
    BY <1>2, <2>6 DEF Sound, now
  <2>8. QED
    BY <1>6, <2>2, <2>4, <2>5, <2>6, <2>7 DEF Advanced
<1>7. ASSUME kind = "quiet" /\ ~ q.on
      PROVE  Advanced(q, n, kind, r)
  <2> DEFINE m == Smaller(q.ring + n, Pad)
  <2>1. r = [[q EXCEPT !.ring = m] EXCEPT !.buf = 0, !.clock = @ + n]
    BY <1>7 DEF Framed
  <2>2. r = [who |-> q.who, buf |-> 0, clock |-> q.clock + n, ring |-> m, on |-> q.on,
             start |-> q.start, end |-> q.end, len |-> q.len, silence |-> q.silence,
             speech |-> q.speech, voiced |-> q.voiced]
    BY <2>1 DEF Pipelines
  <2>3. m \in 0 .. Pad
    BY <1>1 DEF Smaller
  <2> HIDE DEF r, m
  <2>4. r \in Pipelines
    BY <1>1, <2>2, <2>3 DEF Pipelines
  <2>5. ~ r.on /\ r.len = 0 /\ r.speech = {} /\ r.end = q.end /\ r.clock = q.clock + n
    BY <1>3, <1>7, <2>2
  <2>6. Sound(r)
    BY <1>1, <1>2, <1>3, <2>5 DEF Sound
  <2>7. Grown(q.speech, kind) = q.speech
    BY <1>7 DEF Grown
  <2>8. QED
    BY <1>7, <2>2, <2>4, <2>5, <2>6, <2>7 DEF Advanced
<1>8. Advanced(q, n, kind, r)
  BY <1>1, <1>4, <1>5, <1>6, <1>7 DEF Kinds
<1> QED BY <1>8

\* The pipeline without its utterance, whether or not the utterance is counted.
LEMMA ClearedParts ==
  ASSUME NEW q \in Pipelines, NEW c \in {Cleared(q), Counted(Cleared(q))}
  PROVE  /\ c \in Pipelines
         /\ c.who = q.who /\ c.buf = q.buf /\ c.clock = q.clock /\ c.ring = q.ring
         /\ ~ c.on /\ c.len = 0 /\ c.silence = 0 /\ c.speech = {} /\ c.start = 0 /\ c.end = 0
         /\ c = Cleared(q) => c.voiced = q.voiced
         /\ c = Counted(Cleared(q)) => c.voiced = q.voiced + 1
         /\ c.voiced \in {q.voiced, q.voiced + 1}
<1>1. /\ q.who \in Participants /\ q.buf \in 0 .. Chunk - 1 /\ q.clock \in Nat
      /\ q.ring \in 0 .. Pad /\ q.voiced \in Nat
  BY Typed
<1> DEFINE R(v) == [who |-> q.who, buf |-> q.buf, clock |-> q.clock, ring |-> q.ring,
                    on |-> FALSE, start |-> 0, end |-> 0, len |-> 0, silence |-> 0,
                    speech |-> {}, voiced |-> v]
<1>2. Cleared(q) = R(q.voiced)
  <2> DEFINE d == Cleared(q)
  <2>1. d = [q EXCEPT !.on = FALSE, !.start = 0, !.end = 0, !.len = 0, !.silence = 0,
                      !.speech = {}]
    BY DEF Cleared
  <2> HIDE DEF d
  <2>2. d = R(q.voiced)
    BY <2>1 DEF Pipelines
  <2>3. QED
    BY <2>2 DEF d
<1>3. Counted(Cleared(q)) = R(q.voiced + 1)
  <2> DEFINE d == Counted(Cleared(q))
  <2>1. d = [R(q.voiced) EXCEPT !.voiced = q.voiced + 1]
    BY <1>2 DEF Counted
  <2> HIDE DEF d
  <2>2. d = R(q.voiced + 1)
    BY <2>1
  <2>3. QED
    BY <2>2 DEF d
<1>4. \A v \in Nat : R(v) \in Pipelines
  BY <1>1 DEF Pipelines
<1>5. /\ \A v : R(v).voiced = v
      /\ \A v : R(v).who = q.who /\ R(v).buf = q.buf /\ R(v).clock = q.clock
                /\ R(v).ring = q.ring /\ ~ R(v).on /\ R(v).len = 0 /\ R(v).silence = 0
                /\ R(v).speech = {} /\ R(v).start = 0 /\ R(v).end = 0
  OBVIOUS
<1> HIDE DEF R
<1>6. c = R(q.voiced) \/ c = R(q.voiced + 1)
  BY <1>2, <1>3
<1> QED BY <1>1, <1>2, <1>3, <1>4, <1>5, <1>6

\* There is nothing to be cleared twice.
LEMMA ClearedTwice ==
  ASSUME NEW q \in Pipelines
  PROVE  Cleared(Cleared(q)) = Cleared(q) /\ Cleared(q).len = 0
BY DEF Cleared, Pipelines

\* A pipeline that was just provisioned.
LEMMA NewPipeParts ==
  ASSUME NEW p \in Participants
  PROVE  /\ NewPipe(p) \in Pipelines /\ Sound(NewPipe(p))
         /\ NewPipe(p).who = p /\ NewPipe(p).speech = {} /\ NewPipe(p).clock = 0
         /\ NewPipe(p).voiced = 0 /\ ~ NewPipe(p).on /\ NewPipe(p).buf = 0
<1>1. NewPipe(p) \in Pipelines
  BY IngressAssumption DEF NewPipe, Pipelines
<1>2. Sound(NewPipe(p))
  BY StampParts DEF NewPipe, Sound
<1> QED BY <1>1, <1>2 DEF NewPipe

\* The segment made of an utterance.
LEMMA SegmentParts ==
  ASSUME NEW q \in Pipelines, NEW i \in 1 .. MaxPipes, NEW number \in Nat
  PROVE  LET s == SegmentOf(i, q, number) IN
         /\ s \in Segments
         /\ s.pipe = i /\ s.start = q.start /\ s.end = q.end /\ s.speech = q.speech
         /\ s.number = number
BY Typed DEF SegmentOf, Segments

\* A pipeline is put into its place, or after the last.
LEMMA SetPipeParts ==
  ASSUME pipes \in Seq(Pipelines), NEW i \in 1 .. Len(pipes) + 1, NEW q \in Pipelines,
         SetPipe(i, q)
  PROVE  /\ pipes' \in Seq(Pipelines)
         /\ Len(pipes') = IF i <= Len(pipes) THEN Len(pipes) ELSE Len(pipes) + 1
         /\ i \in 1 .. Len(pipes') /\ pipes'[i] = q
         /\ \A j \in 1 .. Len(pipes') : j # i => j \in 1 .. Len(pipes) /\ pipes'[j] = pipes[j]
<1>1. Len(pipes) \in Nat
  OBVIOUS
<1>2. CASE i <= Len(pipes)
  <2>1. pipes' = [pipes EXCEPT ![i] = q]
    BY <1>2 DEF SetPipe
  <2>2. QED
    BY <1>1, <1>2, <2>1
<1>3. CASE ~ (i <= Len(pipes))
  <2>1. pipes' = Append(pipes, q) /\ i = Len(pipes) + 1
    BY <1>1, <1>3 DEF SetPipe
  <2>2. QED
    BY <1>1, <2>1
<1> QED BY <1>2, <1>3

-----------------------------------------------------------------------------
(* The inductive invariant *)

Live(i) == reg[pipes[i].who] = i

\* The service's dictionary leads to the participant's own pipeline, which no
\* flush has begun on; a flush that published what the partial frame ended has
\* left nothing; what is being published is so by somebody.
RegInv ==
  /\ \A p \in Participants :
       reg[p] # 0 => pipes[reg[p]].who = p /\ flush[reg[p]] = "no"
  /\ \A i \in 1 .. MaxPipes : i > Len(pipes) => flush[i] = "no"
  /\ \A i \in 1 .. Len(pipes) : flush[i] = "partial" => \E r \in Pipelines : pipes[i] = Cleared(r)
  /\ \A i \in 1 .. MaxPipes : flush[i] \notin {"partial", "final"} => tail[i] = << >>
  /\ \A t \in Tracks : task[t] # "publishing" => out[t] = << >>

\* A registered pipeline is sound.
PipeInv == \A i \in 1 .. Len(pipes) : Live(i) => Sound(pipes[i])

\* A segment is from its pipeline's past.
Known(s) ==
  /\ s.pipe \in 1 .. Len(pipes)
  /\ s.number \in 1 .. pipes[s.pipe].voiced
  /\ s.start < s.end /\ s.end <= Stamp(pipes[s.pipe].clock)
  /\ pipes[s.pipe].on => s.end <= pipes[s.pipe].start

SegInv == (\A s \in AllSegments : Known(s)) /\ SegmentsAdvance

\* The frames heard are numbered from 1, and nothing else is in any utterance.
HeardInv ==
  /\ \E n \in Nat : heard = 1 .. n
  /\ \A i \in 1 .. Len(pipes) : pipes[i].speech \subseteq heard
  /\ \A s \in AllSegments \cup bursts : s.speech \subseteq heard
  /\ \A s \in bursts : s.number = 0
  /\ lost \subseteq heard

-----------------------------------------------------------------------------
(* What comes in *)

\* The pipeline q once samples have come, and r what it is then, with the
\* frames taken for speech.
Comes(q, r) ==
  /\ r \in Pipelines /\ Sound(r) /\ r.who = q.who /\ r.voiced = q.voiced
  /\ Stamp(q.clock) <= Stamp(r.clock)
  /\ r.on => r.start = IF q.on THEN q.start ELSE Stamp(q.clock)
  /\ ~ r.on => ~ q.on
  /\ \/ heard' = heard /\ r.speech = q.speech
     \/ heard' = heard \cup {NextFrame} /\ r.speech = q.speech \cup {NextFrame}

LEMMA NextFrameIs ==
  ASSUME NEW n \in Nat, heard = 1 .. n
  PROVE  NextFrame = n + 1 /\ heard \cup {NextFrame} = 1 .. n + 1 /\ NextFrame \notin heard
<1>1. Cardinality(1 .. n) = n
  BY FS_Interval
<1>2. NextFrame = n + 1
  BY <1>1 DEF NextFrame
<1> QED BY <1>2

\* A frame is something that comes.
LEMMA FrameComes ==
  ASSUME NEW q \in Pipelines, Sound(q), NEW n \in 1 .. Chunk, NEW kind \in Kinds,
         NextFrame \in Nat, Hear(kind)
  PROVE  Comes(q, Framed(q, n, kind))
<1> DEFINE r == Framed(q, n, kind)
<1>1. Advanced(q, n, kind, r)
  BY FramedParts
<1> HIDE DEF r
<1>2. Stamp(q.clock) <= Stamp(r.clock)
  <2>1. q.clock \in Nat /\ n \in Nat \ {0} /\ q.clock + n \in Nat
    BY Typed, IngressAssumption
  <2>2. r.clock = q.clock + n
    BY <1>1 DEF Advanced
  <2>3. Stamp(q.clock) \in Nat /\ Stamp(r.clock) \in Nat /\ Stamp(q.clock) < Stamp(r.clock)
    BY <2>1, <2>2, StampParts, StampGrows
  <2>4. QED
    BY <2>3
<1>3. \/ heard' = heard /\ r.speech = q.speech
      \/ heard' = heard \cup {NextFrame} /\ r.speech = q.speech \cup {NextFrame}
  BY <1>1 DEF Hear, Advanced, Grown
<1>4. Comes(q, r)
  BY <1>1, <1>2, <1>3 DEF Advanced, Comes
<1> QED BY <1>4 DEF r

\* The pipeline the samples of p go to.
IsOf(p, i, q) ==
  \/ reg[p] # 0 /\ i = reg[p] /\ q = pipes[i]
  \/ reg[p] = 0 /\ i = Len(pipes) + 1 /\ q = NewPipe(p)

\* A step of ingest_audio_pcm.
Ingests(t, i, q, r) ==
  /\ i \in 1 .. Len(pipes) + 1 /\ i \in 1 .. MaxPipes
  /\ IsOf(Owner[t], i, q) /\ q \in Pipelines /\ Sound(q) /\ q.who = Owner[t]
  /\ reg' = [reg EXCEPT ![Owner[t]] = i]
  /\ Comes(q, r)
  /\ \/ SetPipe(i, r) /\ UNCHANGED <<task, out, bursts>>
     \/ r.on /\ Emit(t, i, r)

LEMMA IngestShape ==
  ASSUME Types, RegInv, PipeInv, NextFrame \in Nat, NEW t \in Tracks, Ingest(t)
  PROVE  \E i, q, r : Ingests(t, i, q, r)
<1> USE IngressAssumption
<1> DEFINE p == Owner[t]
           i == IF reg[p] # 0 THEN reg[p] ELSE Len(pipes) + 1
           q == IF reg[p] # 0 THEN pipes[i] ELSE NewPipe(p)
<1>1. p \in Participants /\ reg[p] \in 0 .. Len(pipes) /\ Len(pipes) \in Nat
  BY DEF Types
<1>2. /\ i <= MaxPipes
      /\ reg' = [reg EXCEPT ![p] = i]
      /\ \/ q.buf + 1 < Chunk
            /\ SetPipe(i, [q EXCEPT !.buf = @ + 1])
            /\ UNCHANGED <<task, out, bursts, heard>>
         \/ q.buf + 1 = Chunk
            /\ \E kind \in Kinds :
                 LET r == Framed(q, Chunk, kind)
                 IN  /\ Hear(kind)
                     /\ \/ Ends(r) /\ Emit(t, i, r)
                        \/ ~ Ends(r) /\ SetPipe(i, r) /\ UNCHANGED <<task, out, bursts>>
  BY DEF Ingest
<1>3. i \in 1 .. Len(pipes) + 1 /\ i \in 1 .. MaxPipes
  <2>1. CASE reg[p] # 0
    <3>1. i = reg[p]
      BY <2>1
    <3>2. QED
      BY <1>1, <1>2, <2>1, <3>1
  <2>2. CASE reg[p] = 0
    <3>1. i = Len(pipes) + 1
      BY <2>2
    <3>2. QED
      BY <1>1, <1>2, <3>1
  <2>3. QED
    BY <2>1, <2>2
<1>4. IsOf(p, i, q)
  BY DEF IsOf
<1>5. q \in Pipelines /\ Sound(q) /\ q.who = p
  <2>1. CASE reg[p] # 0
    <3>1. i \in 1 .. Len(pipes) /\ q = pipes[i] /\ i = reg[p]
      BY <1>1, <2>1
    <3>2. pipes[i] \in Pipelines
      BY <3>1 DEF Types
    <3>3. pipes[i].who = p
      BY <1>1, <2>1, <3>1 DEF RegInv
    <3>4. QED
      BY <3>1, <3>2, <3>3 DEF PipeInv, Live
  <2>2. CASE reg[p] = 0
    BY <1>1, <2>2, NewPipeParts
  <2>3. QED
    BY <2>1, <2>2
<1> HIDE DEF p, i, q
<1>6. CASE /\ q.buf + 1 < Chunk
           /\ SetPipe(i, [q EXCEPT !.buf = @ + 1])
           /\ UNCHANGED <<task, out, bursts, heard>>
  <2> DEFINE r == [q EXCEPT !.buf = @ + 1]
  <2>1. r = [q EXCEPT !.buf = q.buf + 1] /\ q.buf \in 0 .. Chunk - 1
    BY <1>5, Typed
  <2> HIDE DEF r
  <2>2. /\ r.who = q.who /\ r.voiced = q.voiced /\ r.clock = q.clock /\ r.end = q.end
        /\ r.on = q.on /\ r.len = q.len /\ r.start = q.start /\ r.speech = q.speech
        /\ r \in Pipelines
    BY <1>5, <1>6, <2>1 DEF Pipelines
  <2>3. Sound(r)
    BY <1>5, <2>2 DEF Sound
  <2>4. Comes(q, r)
    <3>1. Stamp(q.clock) <= Stamp(r.clock)
      BY <1>5, <2>2, StampParts, Typed
    <3>2. heard' = heard
      BY <1>6
    <3>3. r.on => r.start = IF q.on THEN q.start ELSE Stamp(q.clock)
      BY <2>2
    <3>4. ~ r.on => ~ q.on
      BY <2>2
    <3>5. QED
      BY <2>2, <2>3, <3>1, <3>2, <3>3, <3>4 DEF Comes
  <2>5. SetPipe(i, r) /\ UNCHANGED <<task, out, bursts>>
    BY <1>6 DEF r
  <2>6. Ingests(t, i, q, r)
    BY <1>2, <1>3, <1>4, <1>5, <2>4, <2>5 DEF Ingests, p
  <2>7. QED
    BY <2>6
<1>7. ASSUME NEW kind \in Kinds, Hear(kind),
             \/ Ends(Framed(q, Chunk, kind)) /\ Emit(t, i, Framed(q, Chunk, kind))
             \/ /\ ~ Ends(Framed(q, Chunk, kind)) /\ SetPipe(i, Framed(q, Chunk, kind))
                /\ UNCHANGED <<task, out, bursts>>
      PROVE  \E j, o, r : Ingests(t, j, o, r)
  <2> DEFINE r == Framed(q, Chunk, kind)
  <2>1. Comes(q, r)
    <3>1. Chunk \in 1 .. Chunk
      OBVIOUS
    <3>2. QED
      BY <1>5, <1>7, <3>1, FrameComes
  <2>2. \/ Ends(r) /\ Emit(t, i, r)
        \/ ~ Ends(r) /\ SetPipe(i, r) /\ UNCHANGED <<task, out, bursts>>
    BY <1>7
  <2> HIDE DEF r
  <2>3. \/ SetPipe(i, r) /\ UNCHANGED <<task, out, bursts>>
        \/ r.on /\ Emit(t, i, r)
    BY <2>2 DEF Ends
  <2>4. Ingests(t, i, q, r)
    BY <1>2, <1>3, <1>4, <1>5, <2>1, <2>3 DEF Ingests, p
  <2>5. QED
    BY <2>4
<1>8. CASE \E kind \in Kinds :
             LET r == Framed(q, Chunk, kind)
             IN  /\ Hear(kind)
                 /\ \/ Ends(r) /\ Emit(t, i, r)
                    \/ ~ Ends(r) /\ SetPipe(i, r) /\ UNCHANGED <<task, out, bursts>>
  BY <1>7, <1>8
<1> QED BY <1>2, <1>6, <1>8

\* What a flush does once the samples short of a frame have come: these end the
\* utterance, or the flush does.
FlushOf(i, r) ==
  \/ r.on /\ FlushPartial(i, r)
  \/ FlushUtterance(i, r) /\ UNCHANGED lost

LEMMA FlushShape ==
  ASSUME NEW q \in Pipelines, Sound(q), NextFrame \in Nat, NEW i, Flush(i, q)
  PROVE  \E r : Comes(q, r) /\ FlushOf(i, r)
<1> USE IngressAssumption
<1>1. CASE q.buf = 0
  <2>1. FlushUtterance(i, q) /\ heard' = heard /\ lost' = lost
    BY <1>1 DEF Flush
  <2>2. Stamp(q.clock) <= Stamp(q.clock)
    BY StampParts, Typed
  <2>3. Comes(q, q)
    BY <2>1, <2>2 DEF Comes
  <2>4. QED
    BY <2>1, <2>3 DEF FlushOf
<1>2. CASE q.buf # 0
  <2>1. PICK kind \in Kinds :
          /\ Hear(kind)
          /\ IF Ends(Framed(q, q.buf, kind)) /\ ~ TooShort(Framed(q, q.buf, kind))
               THEN FlushPartial(i, Framed(q, q.buf, kind))
               ELSE FlushUtterance(i, Framed(q, q.buf, kind)) /\ UNCHANGED lost
    BY <1>2 DEF Flush
  <2> DEFINE r == Framed(q, q.buf, kind)
  <2>2. q.buf \in 1 .. Chunk
    BY <1>2, Typed
  <2>3. Comes(q, r)
    BY <2>1, <2>2, FrameComes
  <2>4. FlushOf(i, r)
    BY <2>1 DEF FlushOf, Ends
  <2>5. QED
    BY <2>3, <2>4
<1> QED BY <1>1, <1>2

-----------------------------------------------------------------------------
(* Types *)

\* What is being published, and what it adds to the stream.
LEMMA SingleParts ==
  ASSUME NEW x \in Single
  PROVE  /\ x = << >> \/ \E s \in Segments : x = <<s>>
         /\ x \in Seq(Segments) /\ Range(x) \subseteq Segments
         /\ x = << >> => Range(x) = {}
         /\ \A s : x = <<s>> => Range(x) = {s}
<1>1. CASE x = << >>
  BY <1>1 DEF Range
<1>2. ASSUME NEW s \in Segments, x = <<s>>
      PROVE  x \in Seq(Segments) /\ Range(x) = {s} /\ x # << >> /\ \A u : x = <<u>> => u = s
  BY <1>2 DEF Range
<1> QED BY <1>1, <1>2 DEF Single

LEMMA JoinedParts ==
  ASSUME NEW a \in Seq(Segments), NEW b \in Seq(Segments)
  PROVE  /\ a \o b \in Seq(Segments) /\ Len(a \o b) = Len(a) + Len(b)
         /\ \A k \in 1 .. Len(a) : (a \o b)[k] = a[k]
         /\ \A k \in Len(a) + 1 .. Len(a) + Len(b) : (a \o b)[k] = b[k - Len(a)]
         /\ Range(a \o b) = Range(a) \cup Range(b)
<1>1. /\ a \o b \in Seq(Segments) /\ Len(a \o b) = Len(a) + Len(b)
      /\ Len(a) \in Nat /\ Len(b) \in Nat
  OBVIOUS
<1>2. \A k \in 1 .. Len(a) : (a \o b)[k] = a[k]
  OBVIOUS
<1>3. ASSUME NEW k \in Len(a) + 1 .. Len(a) + Len(b)
      PROVE  (a \o b)[k] = b[k - Len(a)]
  OBVIOUS
<1> DEFINE c == a \o b
<1>4. DOMAIN c = 1 .. Len(a) + Len(b) /\ DOMAIN a = 1 .. Len(a) /\ DOMAIN b = 1 .. Len(b)
  BY <1>1
<1>5. \A j \in 1 .. Len(b) : c[Len(a) + j] = b[j]
  <2> TAKE j \in 1 .. Len(b)
  <2>1. Len(a) + j \in Len(a) + 1 .. Len(a) + Len(b) /\ (Len(a) + j) - Len(a) = j
    BY <1>1
  <2>2. QED
    BY <1>3, <2>1
<1>6. \A k \in 1 .. Len(a) : c[k] = a[k]
  BY <1>2
<1>7. \A k \in Len(a) + 1 .. Len(a) + Len(b) : c[k] = b[k - Len(a)]
  BY <1>3
<1> HIDE DEF c
<1>8. Range(a) \cup Range(b) \subseteq Range(c)
  <2>1. \A k \in DOMAIN a : k \in DOMAIN c /\ c[k] = a[k]
    BY <1>1, <1>4, <1>6
  <2>2. \A j \in DOMAIN b : Len(a) + j \in DOMAIN c /\ c[Len(a) + j] = b[j]
    BY <1>1, <1>4, <1>5
  <2>3. QED
    BY <2>1, <2>2 DEF Range
<1>9. Range(c) \subseteq Range(a) \cup Range(b)
  <2>1. ASSUME NEW k \in DOMAIN c
        PROVE  c[k] \in Range(a) \cup Range(b)
    <3>1. CASE k \in 1 .. Len(a)
      BY <1>4, <1>6, <3>1 DEF Range
    <3>2. CASE k \in Len(a) + 1 .. Len(a) + Len(b)
      <4>1. k - Len(a) \in DOMAIN b
        BY <1>1, <1>4, <3>2
      <4>2. QED
        BY <1>7, <3>2, <4>1 DEF Range
    <3>3. QED
      BY <1>1, <1>4, <3>1, <3>2
  <2>2. QED
    BY <2>1 DEF Range
<1> QED BY <1>1, <1>2, <1>3, <1>8, <1>9 DEF c

\* A consumer's segment in place of what it was publishing.
LEMMA EmitTyped ==
  ASSUME Types, NEW t \in Tracks, NEW i \in 1 .. Len(pipes) + 1, i \in 1 .. MaxPipes,
         NEW r \in Pipelines, Emit(t, i, r)
  PROVE  /\ \E c \in {Cleared(r), Counted(Cleared(r))} : c \in Pipelines /\ SetPipe(i, c)
         /\ out' \in [Tracks -> Single]
         /\ task' \in [Tracks -> {"none", "reading", "publishing", "ended"}]
         /\ bursts' \in SUBSET Segments
<1>1. r.voiced + 1 \in Nat /\ 0 \in Nat
  BY Typed
<1>2. CASE ~ TooShort(r)
  <2>1. /\ SetPipe(i, Counted(Cleared(r)))
        /\ task' = [task EXCEPT ![t] = "publishing"]
        /\ out' = [out EXCEPT ![t] = <<SegmentOf(i, r, r.voiced + 1)>>]
        /\ bursts' = bursts
    BY <1>2 DEF Emit
  <2>2. <<SegmentOf(i, r, r.voiced + 1)>> \in Single
    BY <1>1, SegmentParts DEF Single
  <2>3. Counted(Cleared(r)) \in Pipelines
    BY ClearedParts
  <2> QED
    BY <2>1, <2>2, <2>3 DEF Types
<1>3. CASE TooShort(r)
  <2>1. /\ SetPipe(i, Cleared(r))
        /\ bursts' = bursts \cup {SegmentOf(i, r, 0)}
        /\ task' = task /\ out' = out
    BY <1>3 DEF Emit
  <2>2. SegmentOf(i, r, 0) \in Segments
    BY SegmentParts
  <2>3. Cleared(r) \in Pipelines
    BY ClearedParts
  <2> QED
    BY <2>1, <2>2, <2>3 DEF Types
<1> QED BY <1>2, <1>3

\* What a flush makes of a pipeline, and what it publishes.
LEMMA FlushTyped ==
  ASSUME Types, NEW i \in 1 .. Len(pipes), i \in 1 .. MaxPipes,
         NEW r \in Pipelines, FlushOf(i, r)
  PROVE  /\ \E c \in {Cleared(r), Counted(Cleared(r))} : c \in Pipelines /\ SetPipe(i, c)
         /\ \E x \in Single, f \in {"partial", "final", "over", "raised"} :
              /\ tail' = [tail EXCEPT ![i] = x]
              /\ flush' = [flush EXCEPT ![i] = f]
              /\ f \notin {"partial", "final"} => x = << >>
              /\ f = "partial" => SetPipe(i, Cleared(r))
         /\ bursts' \in SUBSET Segments
<1>1. r.voiced + 1 \in Nat /\ 0 \in Nat /\ r.voiced \in Nat
  BY Typed
<1>2. /\ << >> \in Single /\ <<SegmentOf(i, r, r.voiced + 1)>> \in Single
      /\ <<SegmentOf(i, r, r.voiced)>> \in Single
  BY <1>1, SegmentParts DEF Single
<1>3. SegmentOf(i, r, 0) \in Segments
  BY <1>1, SegmentParts
<1>4. Cleared(r) \in Pipelines /\ Counted(Cleared(r)) \in Pipelines
  BY ClearedParts
<1>5. bursts \subseteq Segments
  BY DEF Types
<1>6. CASE /\ tail' = [tail EXCEPT ![i] = <<SegmentOf(i, r, r.voiced + 1)>>]
           /\ flush' = [flush EXCEPT ![i] = "final"]
           /\ SetPipe(i, Counted(Cleared(r)))
           /\ UNCHANGED bursts
  BY <1>2, <1>4, <1>5, <1>6
<1>7. CASE /\ bursts' = bursts \cup {SegmentOf(i, r, 0)}
           /\ tail' = [tail EXCEPT ![i] = <<>>]
           /\ flush' = [flush EXCEPT ![i] = "over"]
           /\ SetPipe(i, Cleared(r))
  BY <1>2, <1>3, <1>4, <1>5, <1>7
<1>8. CASE /\ tail' = [tail EXCEPT ![i] = <<>>]
           /\ flush' \in {[flush EXCEPT ![i] = "over"], [flush EXCEPT ![i] = "raised"]}
           /\ SetPipe(i, Cleared(r))
           /\ UNCHANGED bursts
  BY <1>2, <1>4, <1>5, <1>8
<1>9. CASE /\ tail' = [tail EXCEPT ![i] = <<SegmentOf(i, r, r.voiced)>>]
           /\ flush' = [flush EXCEPT ![i] = "partial"]
           /\ SetPipe(i, Cleared(r))
           /\ UNCHANGED bursts
  BY <1>2, <1>4, <1>5, <1>9
<1> QED BY <1>6, <1>7, <1>8, <1>9 DEF FlushOf, FlushPartial, FlushUtterance

\* After what the partial frame ended there is nothing left to flush.
LEMMA PartialIsEmpty ==
  ASSUME Types, RegInv, NEW i \in 1 .. MaxPipes, flush[i] = "partial",
         FlushUtterance(i, pipes[i])
  PROVE  /\ UNCHANGED <<pipes, bursts>>
         /\ tail' = [tail EXCEPT ![i] = << >>] /\ flush' = [flush EXCEPT ![i] = "over"]
<1>1. i \in 1 .. Len(pipes) /\ pipes \in Seq(Pipelines) /\ i <= Len(pipes)
  BY DEF RegInv, Types
<1>2. PICK r \in Pipelines : pipes[i] = Cleared(r)
  BY <1>1 DEF RegInv
<1>3. pipes[i].len = 0 /\ Cleared(pipes[i]) = pipes[i]
  BY <1>2, ClearedTwice
<1>4. /\ SetPipe(i, pipes[i]) /\ UNCHANGED bursts
      /\ tail' = [tail EXCEPT ![i] = << >>] /\ flush' = [flush EXCEPT ![i] = "over"]
  BY <1>3 DEF FlushUtterance
<1>5. pipes' = [pipes EXCEPT ![i] = pipes[i]]
  BY <1>1, <1>4 DEF SetPipe
<1>6. pipes' = pipes
  BY <1>1, <1>5
<1> QED BY <1>4, <1>6

\* A registered pipeline that is flushed by stop_track or cleanup_meeting.
Flushes(p, i, r) ==
  /\ p \in Participants /\ reg[p] # 0 /\ i = reg[p]
  /\ i \in 1 .. Len(pipes) /\ i \in 1 .. MaxPipes
  /\ pipes[i] \in Pipelines /\ Sound(pipes[i]) /\ pipes[i].who = p
  /\ reg' = [reg EXCEPT ![p] = 0]
  /\ Comes(pipes[i], r)
  /\ FlushOf(i, r)

LEMMA FlushesShape ==
  ASSUME Types, RegInv, PipeInv, NextFrame \in Nat, NEW p \in Participants, reg[p] # 0,
         Flush(reg[p], pipes[reg[p]]), reg' = [reg EXCEPT ![p] = 0]
  PROVE  \E i, r : Flushes(p, i, r)
<1> DEFINE i == reg[p]
<1>1. i \in 1 .. Len(pipes) /\ i \in 1 .. MaxPipes
  <2>1. /\ reg[p] \in 0 .. Len(pipes) /\ Len(pipes) \in Nat /\ Len(pipes) <= MaxPipes
        /\ MaxPipes \in Nat
    BY IngressAssumption DEF Types
  <2>2. QED
    BY <2>1
<1>2. pipes[i] \in Pipelines
  BY <1>1 DEF Types
<1>3. pipes[i].who = p
  BY DEF RegInv
<1>4. Sound(pipes[i])
  BY <1>1, <1>3 DEF PipeInv, Live
<1>5. Flush(i, pipes[i])
  OBVIOUS
<1> HIDE DEF i
<1>6. PICK r : Comes(pipes[i], r) /\ FlushOf(i, r)
  BY <1>2, <1>4, <1>5, FlushShape
<1>7. Flushes(p, i, r)
  BY <1>1, <1>2, <1>3, <1>4, <1>6 DEF Flushes, i
<1> QED BY <1>7

\* A publication that fails.
LEMMA FailsTyped ==
  ASSUME Types, NEW x \in Single, Fails(x)
  PROVE  /\ stream' \in Seq(Segments)
         /\ Range(stream') \subseteq Range(stream) \cup Range(x)
         /\ lost' \subseteq lost \cup UNION {s.speech : s \in Range(x)}
<1>1. stream \in Seq(Segments) /\ x \in Seq(Segments)
  BY SingleParts DEF Types
<1>2. CASE stream' = stream \o x /\ lost' = lost
  BY <1>1, <1>2, JoinedParts
<1>3. CASE lost' = lost \cup UNION {s.speech : s \in Range(x)} /\ stream' = stream
  BY <1>1, <1>3
<1> QED BY <1>2, <1>3 DEF Fails

\* Consumers that are cancelled.
LEMMA CancelTyped ==
  ASSUME Types, NEW ts \in SUBSET Tracks, Cancel(ts)
  PROVE  /\ task' \in [Tracks -> {"none", "reading", "publishing", "ended"}]
         /\ out' \in [Tracks -> Single]
         /\ cut' \in SUBSET Segments
         /\ \A t \in Tracks : out'[t] \in {<< >>, out[t]} /\ task'[t] \in {"none", task[t]}
         /\ \A t \in Tracks : task'[t] = "none" /\ task[t] # "none" => out'[t] = << >>
         /\ \A t \in Tracks : task'[t] # task[t] => out'[t] = << >>
<1>1. \A t \in Tracks : out[t] \in Single
  BY DEF Types
<1>2. UNION {Range(out[t]) : t \in ts} \subseteq Segments
  BY <1>1, SingleParts
<1>3. << >> \in Single
  BY DEF Single
<1> QED BY <1>1, <1>2, <1>3 DEF Cancel, Types

\* The variables no action but a few touches.
LEMMA TypesStep ==
  ASSUME Types, RegInv, PipeInv, NextFrame \in Nat, [Next]_vars
  PROVE  Types'
<1> USE IngressAssumption
<1>1. ASSUME NEW t \in Tracks, Subscribe(t)
      PROVE  Types'
  BY <1>1 DEF Subscribe, Types, pipeVars
<1>2. ASSUME NEW t \in Tracks, Ingest(t)
      PROVE  Types'
  <2>1. PICK i, q, r : Ingests(t, i, q, r)
    BY <1>2, IngestShape
  <2>2. /\ i \in 1 .. Len(pipes) + 1 /\ i \in 1 .. MaxPipes /\ r \in Pipelines
        /\ reg' = [reg EXCEPT ![Owner[t]] = i] /\ Owner[t] \in Participants
    BY <2>1 DEF Ingests, Comes
  <2>3. /\ \E c \in Pipelines : SetPipe(i, c)
        /\ out' \in [Tracks -> Single]
        /\ task' \in [Tracks -> {"none", "reading", "publishing", "ended"}]
        /\ bursts' \in SUBSET Segments
    <3>1. CASE SetPipe(i, r) /\ UNCHANGED <<task, out, bursts>>
      BY <2>2, <3>1 DEF Types
    <3>2. CASE Emit(t, i, r)
      BY <2>2, <3>2, EmitTyped
    <3>3. QED
      BY <2>1, <3>1, <3>2 DEF Ingests
  <2>4. /\ pipes' \in Seq(Pipelines) /\ i \in 1 .. Len(pipes')
        /\ Len(pipes') = IF i <= Len(pipes) THEN Len(pipes) ELSE Len(pipes) + 1
    BY <2>2, <2>3, SetPipeParts DEF Types
  <2>5. Len(pipes') <= MaxPipes /\ Len(pipes') >= Len(pipes) /\ Len(pipes) \in Nat
    BY <2>2, <2>4 DEF Types
  <2>6. reg' \in [Participants -> 0 .. Len(pipes')]
    BY <2>2, <2>4, <2>5 DEF Types
  <2>7. heard' \in SUBSET Nat
    BY <2>1 DEF Ingests, Comes, Types
  <2>8. UNCHANGED <<room, stops, flush, tail, cleaning, stream, cut, lost, failures>>
    BY <1>2 DEF Ingest
  <2>9. QED
    BY <2>3, <2>4, <2>5, <2>6, <2>7, <2>8 DEF Types
<1>3. ASSUME NEW t \in Tracks, Publish(t)
      PROVE  Types'
  <2>1. /\ stream' = stream \o out[t]
        /\ task' = [task EXCEPT ![t] = "reading"]
        /\ out' = [out EXCEPT ![t] = <<>>]
        /\ UNCHANGED <<room, stops, reg, cleaning, cut, pipeVars>>
    BY <1>3 DEF Publish
  <2>2. stream' \in Seq(Segments)
    <3>1. out[t] \in Single
      BY DEF Types
    <3>2. QED
      BY <2>1, <3>1, SingleParts, JoinedParts DEF Types
  <2>3. << >> \in Single
    BY DEF Single
  <2>4. QED
    BY <2>1, <2>2, <2>3 DEF Types, pipeVars
<1>4. ASSUME NEW t \in Tracks, PublishFails(t)
      PROVE  Types'
  <2>1. /\ Fails(out[t])
        /\ task' = [task EXCEPT ![t] = "ended"]
        /\ out' = [out EXCEPT ![t] = <<>>]
        /\ UNCHANGED <<room, stops, reg, cleaning, cut, pipeVars>>
    BY <1>4 DEF PublishFails
  <2>2. stream' \in Seq(Segments)
    <3>1. out[t] \in Single
      BY DEF Types
    <3>2. QED
      BY <2>1, <3>1, FailsTyped
  <2>3. << >> \in Single
    BY DEF Single
  <2>4. QED
    BY <2>1, <2>2, <2>3 DEF Types, pipeVars
<1>5. ASSUME NEW ts \in SUBSET Tracks, Cancel(ts), stops' \in [Participants -> 0 .. MaxStops],
             room' \in {"open", "draining"}, UNCHANGED <<reg, cleaning, stream, lost, pipeVars>>
      PROVE  Types'
  <2>1. /\ task' \in [Tracks -> {"none", "reading", "publishing", "ended"}]
        /\ out' \in [Tracks -> Single]
        /\ cut' \in SUBSET Segments
    BY <1>5, CancelTyped
  <2>2. QED
    BY <1>5, <2>1 DEF Types, pipeVars
<1>6. ASSUME NEW t \in Tracks, Unsubscribe(t)
      PROVE  Types'
  <2>1. /\ Cancel({t}) /\ {t} \in SUBSET Tracks /\ ScheduleStop(Owner[t])
        /\ UNCHANGED <<room, reg, cleaning, stream, lost, pipeVars>> /\ room = "open"
    BY <1>6 DEF Unsubscribe
  <2>2. stops' \in [Participants -> 0 .. MaxStops]
    BY <2>1 DEF ScheduleStop, Types
  <2>3. QED
    BY <1>5, <2>1, <2>2
<1>7. ASSUME NEW p \in Participants, Leave(p)
      PROVE  Types'
  <2>1. /\ Cancel(TracksOf(p)) /\ TracksOf(p) \in SUBSET Tracks /\ ScheduleStop(p)
        /\ UNCHANGED <<room, reg, cleaning, stream, lost, pipeVars>> /\ room = "open"
    BY <1>7 DEF Leave, TracksOf
  <2>2. stops' \in [Participants -> 0 .. MaxStops]
    BY <2>1 DEF ScheduleStop, Types
  <2>3. QED
    BY <1>5, <2>1, <2>2
<1>7a. ASSUME NEW p \in Participants, UnsubscribeOther(p)
       PROVE  Types'
  <2>1. ScheduleStop(p) /\ UNCHANGED <<room, task, out, reg, cleaning, stream, cut, pipeVars>>
    BY <1>7a DEF UnsubscribeOther
  <2>2. stops' \in [Participants -> 0 .. MaxStops]
    BY <2>1 DEF ScheduleStop, Types
  <2>3. QED
    BY <2>1, <2>2 DEF Types, pipeVars
<1>8. CASE Shutdown
  <2>1. /\ Cancel(Tracks) /\ room' = "draining"
        /\ UNCHANGED <<stops, reg, cleaning, stream, lost, pipeVars>>
    BY <1>8 DEF Shutdown
  <2>2. stops' \in [Participants -> 0 .. MaxStops]
    BY <2>1 DEF Types
  <2>3. QED
    BY <1>5, <2>1, <2>2
<1>9. ASSUME NEW s \in cut, Settle(s)
      PROVE  Types'
  <2>1. cut' \subseteq cut /\ s \in Segments
    BY <1>9 DEF Settle, Types
  <2>2. stream' \in Seq(Segments)
    <3>1. stream \in Seq(Segments)
      BY DEF Types
    <3>2. stream' = Append(stream, s) \/ stream' = stream
      BY <1>9 DEF Settle
    <3>3. QED
      BY <2>1, <3>1, <3>2
  <2>3. QED
    BY <1>9, <2>1, <2>2 DEF Settle, Types, pipeVars
<1>10. ASSUME NEW p, NEW i, NEW r, Flushes(p, i, r), room' \in {room, "closed"},
              cleaning' \in 0 .. MaxPipes, stops' \in [Participants -> 0 .. MaxStops],
              UNCHANGED <<task, out, stream, cut>>
       PROVE  Types'
  <2>1. /\ i \in 1 .. Len(pipes) /\ i \in 1 .. MaxPipes /\ r \in Pipelines
        /\ reg' = [reg EXCEPT ![p] = 0] /\ FlushOf(i, r)
    BY <1>10 DEF Flushes, Comes
  <2>2. PICK c \in Pipelines : SetPipe(i, c)
    BY <2>1, FlushTyped
  <2>3. pipes' \in Seq(Pipelines) /\ Len(pipes') = Len(pipes)
    <3>1. pipes \in Seq(Pipelines) /\ Len(pipes) \in Nat
      BY DEF Types
    <3>2. i \in 1 .. Len(pipes) + 1 /\ i <= Len(pipes)
      BY <2>1, <3>1
    <3>3. QED
      BY <2>2, <3>1, <3>2, SetPipeParts
  <2>4. /\ tail' \in [1 .. MaxPipes -> Single]
        /\ flush' \in [1 .. MaxPipes -> {"no", "partial", "final", "over", "raised"}]
        /\ bursts' \in SUBSET Segments
    <3>1. PICK x \in Single, f \in {"partial", "final", "over", "raised"} :
              /\ tail' = [tail EXCEPT ![i] = x]
              /\ flush' = [flush EXCEPT ![i] = f]
      BY <2>1, FlushTyped
    <3>2. bursts' \in SUBSET Segments
      BY <2>1, FlushTyped
    <3>3. QED
      BY <3>1, <3>2 DEF Types
  <2>5. heard' \in SUBSET Nat
    BY <1>10 DEF Flushes, Comes, Types
  <2>6. reg' \in [Participants -> 0 .. Len(pipes')]
    <3>1. Len(pipes) \in Nat /\ reg \in [Participants -> 0 .. Len(pipes)]
      BY DEF Types
    <3>2. 0 \in 0 .. Len(pipes)
      BY <3>1
    <3>3. QED
      BY <2>1, <2>3, <3>1, <3>2
  <2>7. room' \in {"open", "draining", "cleaning", "closed", "gone"}
    BY <1>10 DEF Types
  <2>8. QED
    BY <1>10, <2>3, <2>4, <2>5, <2>6, <2>7 DEF Types
<1>11. ASSUME NEW p \in Participants, Stop(p)
       PROVE  Types'
  <2>1. /\ stops' = [stops EXCEPT ![p] = @ - 1] /\ stops[p] > 0
        /\ reg' = [reg EXCEPT ![p] = 0]
        /\ UNCHANGED <<room, task, out, cleaning, stream, cut>>
    BY <1>11 DEF Stop
  <2>2. stops' \in [Participants -> 0 .. MaxStops] /\ cleaning' \in 0 .. MaxPipes
    BY <2>1 DEF Types
  <2>3. CASE reg[p] # 0
    <3>1. Flush(reg[p], pipes[reg[p]])
      BY <1>11, <2>3 DEF Stop
    <3>2. PICK i, r : Flushes(p, i, r)
      BY <2>1, <2>3, <3>1, FlushesShape
    <3>3. QED
      BY <1>10, <2>1, <2>2, <3>2
  <2>4. CASE reg[p] = 0
    <3>1. UNCHANGED <<pipes, flush, tail, bursts, heard>>
      BY <1>11, <2>4 DEF Stop, pipeVars
    <3>2. reg \in [Participants -> 0 .. Len(pipes)]
      BY DEF Types
    <3>3. reg' = reg
      BY <2>1, <2>4, <3>2
    <3>4. QED
      BY <2>1, <2>2, <3>1, <3>3 DEF Types
  <2>5. QED
    BY <2>3, <2>4
<1>12. ASSUME NEW p \in Participants, CleanNext(p)
       PROVE  Types'
  <2>1. /\ reg[p] # 0 /\ reg' = [reg EXCEPT ![p] = 0]
        /\ Flush(reg[p], pipes[reg[p]])
        /\ room' \in {room, "closed"} /\ cleaning' \in {0, reg[p]}
        /\ UNCHANGED <<task, out, stops, stream, cut>>
    BY <1>12 DEF CleanNext
  <2>2. PICK i, r : Flushes(p, i, r)
    BY <2>1, FlushesShape
  <2>3. cleaning' \in 0 .. MaxPipes
    BY <2>1, <2>2 DEF Flushes
  <2>4. stops' \in [Participants -> 0 .. MaxStops]
    BY <2>1 DEF Types
  <2>5. QED
    BY <1>10, <2>1, <2>2, <2>3, <2>4
<1>13. ASSUME NEW i \in 1 .. MaxPipes, FlushPublishes(i) \/ FlushFails(i)
       PROVE  Types'
  <2>1. flush[i] \in {"partial", "final"} /\ tail[i] \in Single
    BY <1>13 DEF FlushPublishes, FlushFails, Running, Types
  <2>2. stream' \in Seq(Segments)
    <3>1. CASE stream' = stream \o tail[i]
      BY <2>1, <3>1, SingleParts, JoinedParts DEF Types
    <3>2. CASE Fails(tail[i])
      BY <2>1, <3>2, FailsTyped
    <3>3. QED
      BY <1>13, <3>1, <3>2 DEF FlushPublishes, FlushFails
  <2>3. /\ tail' = [tail EXCEPT ![i] = <<>>]
        /\ flush' \in {[flush EXCEPT ![i] = "over"], [flush EXCEPT ![i] = "raised"]}
        /\ UNCHANGED <<task, out, stops, reg, cut, pipes, bursts, heard>>
    BY <1>13, PartialIsEmpty DEF FlushPublishes, FlushFails
  <2>4. room' \in {room, "closed"} /\ cleaning' \in {cleaning, 0}
    BY <1>13 DEF FlushPublishes, FlushFails
  <2>5. << >> \in Single
    BY DEF Single
  <2>6. cleaning' \in 0 .. MaxPipes /\ room' \in {"open", "draining", "cleaning", "closed", "gone"}
    BY <2>4 DEF Types
  <2>7. flush' \in [1 .. MaxPipes -> {"no", "partial", "final", "over", "raised"}]
    BY <2>3 DEF Types
  <2>8. QED
    BY <2>2, <2>3, <2>5, <2>6, <2>7 DEF Types
<1>14. CASE Disconnected \/ Cleaned \/ Exit
  <2>1. /\ room' \in {"open", "draining", "cleaning", "closed", "gone"}
        /\ cleaning' \in {cleaning, 0}
        /\ UNCHANGED <<task, out, stops, reg, stream, cut, lost, pipeVars>>
    BY <1>14 DEF Disconnected, Cleaned, Exit
  <2>2. cleaning' \in 0 .. MaxPipes
    BY <2>1 DEF Types
  <2>3. QED
    BY <2>1, <2>2 DEF Types, pipeVars
<1>15. CASE UNCHANGED vars
  BY <1>15 DEF vars, Types, pipeVars
<1> QED BY <1>1, <1>2, <1>3, <1>4, <1>6, <1>7, <1>8, <1>9, <1>11, <1>12, <1>13, <1>14, <1>15,
      <1>7a DEF Next

-----------------------------------------------------------------------------
(* The shape of a step *)

\* A flush that has begun has always begun.
FlushesGoOn == \A i \in 1 .. MaxPipes : flush[i] # "no" => flush'[i] # "no"

\* The pipeline q at i is turned into another: samples come, r is what they
\* make of it, and its utterance goes on, is published with the number that
\* follows or, by a flush, with the last one, is too short, is lost, or is none.
Turn(i, q, r) ==
  /\ i \in 1 .. Len(pipes) + 1 /\ i \in 1 .. MaxPipes /\ q \in Pipelines
  /\ i <= Len(pipes) => q = pipes[i] /\ Live(i)
  /\ i = Len(pipes) + 1 => q.speech = {}
  /\ flush[i] = "no" /\ FlushesGoOn
  /\ Comes(q, r)
  /\ \A j \in 1 .. Len(pipes') : j # i => (Live(j)' <=> Live(j))
  /\ UNCHANGED <<stream, cut>>
  /\ \/ SetPipe(i, r) /\ Live(i)' /\ UNCHANGED <<out, tail, bursts, lost>>
     \/ /\ r.on /\ SetPipe(i, Counted(Cleared(r))) /\ UNCHANGED <<bursts, lost>>
        /\ \/ \E t \in Tracks :
                /\ out[t] = << >> /\ out' = [out EXCEPT ![t] = <<SegmentOf(i, r, r.voiced + 1)>>]
                /\ UNCHANGED tail
           \/ /\ tail[i] = << >> /\ tail' = [tail EXCEPT ![i] = <<SegmentOf(i, r, r.voiced + 1)>>]
              /\ UNCHANGED out
     \/ /\ r.on /\ r.voiced > 0 /\ SetPipe(i, Cleared(r)) /\ flush'[i] # "no"
        /\ tail[i] = << >> /\ tail' = [tail EXCEPT ![i] = <<SegmentOf(i, r, r.voiced)>>]
        /\ UNCHANGED <<out, bursts, lost>>
     \/ /\ SetPipe(i, Cleared(r)) /\ bursts' = bursts \cup {SegmentOf(i, r, 0)}
        /\ UNCHANGED <<out, tail, lost>>
     \/ /\ SetPipe(i, Cleared(r)) /\ lost' = lost \cup r.speech
        /\ UNCHANGED <<out, tail, bursts>>
     \/ SetPipe(i, Cleared(r)) /\ r.speech = {} /\ UNCHANGED <<out, tail, bursts, lost>>

\* Segments reach the stream, or their speech is lost.
Sent(x) ==
  \/ stream' = stream \o x /\ UNCHANGED lost
  \/ lost' = lost \cup UNION {s.speech : s \in Range(x)} /\ UNCHANGED stream

\* No pipeline is touched: segments move on.
Moves ==
  /\ UNCHANGED <<pipes, reg, heard, bursts>> /\ FlushesGoOn
  /\ \/ UNCHANGED <<out, tail, stream, cut, lost>>
     \/ \E t \in Tracks :
          out' = [out EXCEPT ![t] = << >>] /\ Sent(out[t]) /\ UNCHANGED <<tail, cut>>
     \/ \E i \in 1 .. MaxPipes :
          tail' = [tail EXCEPT ![i] = << >>] /\ Sent(tail[i]) /\ UNCHANGED <<out, cut>>
     \/ \E ts \in SUBSET Tracks : Cancel(ts) /\ UNCHANGED <<tail, stream, lost>>
     \/ \E s \in cut : cut' = cut \ {s} /\ Sent(<<s>>) /\ UNCHANGED <<out, tail>>

\* An ingested unit turns its participant's pipeline, which stays registered.
LEMMA IngestTurns ==
  ASSUME Types, RegInv, PipeInv, NextFrame \in Nat, NEW t \in Tracks, Ingest(t)
  PROVE  RegInv' /\ PipeInv' /\ \E i, q, r : Turn(i, q, r)
<1> USE IngressAssumption
<1> DEFINE p == Owner[t]
<1>1. PICK i, q, r : Ingests(t, i, q, r)
  BY IngestShape
<1>2. /\ i \in 1 .. Len(pipes) + 1 /\ i \in 1 .. MaxPipes
      /\ IsOf(p, i, q) /\ q \in Pipelines /\ q.who = p /\ p \in Participants
      /\ reg' = [reg EXCEPT ![p] = i] /\ Comes(q, r)
      /\ r \in Pipelines /\ Sound(r) /\ r.who = p
  BY <1>1 DEF Ingests, Comes
<1>3. /\ task[t] = "reading" /\ out[t] = << >>
      /\ UNCHANGED <<flush, tail, stream, cut, lost>>
  BY DEF Ingest, RegInv
<1>4. /\ reg \in [Participants -> 0 .. Len(pipes)] /\ Len(pipes) \in Nat
      /\ pipes \in Seq(Pipelines) /\ Len(pipes) <= MaxPipes
  BY DEF Types
<1>5. PICK c \in Pipelines :
        /\ SetPipe(i, c) /\ c.who = p /\ Sound(c)
        /\ \/ c = r /\ UNCHANGED <<task, out, bursts>>
           \/ c = Counted(Cleared(r)) /\ Emit(t, i, r) /\ ~ TooShort(r) /\ r.on
           \/ c = Cleared(r) /\ Emit(t, i, r) /\ TooShort(r) /\ r.on
  <2>1. CASE SetPipe(i, r) /\ UNCHANGED <<task, out, bursts>>
    BY <1>2, <2>1
  <2>2. CASE r.on /\ Emit(t, i, r)
    <3>1. \A c \in {Cleared(r), Counted(Cleared(r))} : c \in Pipelines /\ c.who = p /\ Sound(c)
      <4> TAKE c \in {Cleared(r), Counted(Cleared(r))}
      <4>1. /\ c \in Pipelines /\ c.who = r.who
            /\ ~ c.on /\ c.len = 0 /\ c.speech = {} /\ c.end = 0
        BY <1>2, ClearedParts
      <4>2. Stamp(c.clock) \in Nat
        BY <4>1, Typed, StampParts
      <4>3. Sound(c)
        BY <4>1, <4>2 DEF Sound
      <4>4. QED
        BY <1>2, <4>1, <4>3
    <3>2. \/ SetPipe(i, Counted(Cleared(r))) /\ ~ TooShort(r)
          \/ SetPipe(i, Cleared(r)) /\ TooShort(r)
      BY <2>2 DEF Emit
    <3>3. QED
      BY <2>2, <3>1, <3>2
  <2>3. QED
    BY <1>1, <2>1, <2>2 DEF Ingests
<1>6. /\ pipes' \in Seq(Pipelines) /\ Len(pipes') \in Nat /\ i \in 1 .. Len(pipes')
      /\ pipes'[i] = c
      /\ Len(pipes') = IF i <= Len(pipes) THEN Len(pipes) ELSE Len(pipes) + 1
      /\ \A j \in 1 .. Len(pipes') : j # i => j \in 1 .. Len(pipes) /\ pipes'[j] = pipes[j]
  BY <1>2, <1>4, <1>5, SetPipeParts
<1>7. i <= Len(pipes) => q = pipes[i] /\ reg[p] = i
  BY <1>2, <1>4 DEF IsOf
<1>8. i > Len(pipes) => reg[p] = 0 /\ q = NewPipe(p) /\ i = Len(pipes) + 1
  BY <1>2, <1>4 DEF IsOf
<1>9. flush[i] = "no"
  <2>1. CASE i <= Len(pipes)
    BY <1>2, <1>7, <2>1 DEF RegInv
  <2>2. CASE i > Len(pipes)
    BY <1>2, <2>2 DEF RegInv
  <2>3. QED
    BY <1>2, <1>4, <2>1, <2>2
<1>10. \A o \in Participants : o # p => reg'[o] = reg[o] /\ reg[o] # i
  <2> TAKE o \in Participants
  <2> HAVE o # p
  <2>1. reg'[o] = reg[o]
    BY <1>2, <1>4
  <2>2. reg[o] # i
    <3>1. CASE i <= Len(pipes)
      <4>1. i # 0 /\ pipes[i].who = p
        BY <1>2, <1>7, <3>1
      <4>2. QED
        BY <4>1 DEF RegInv
    <3>2. CASE i > Len(pipes)
      BY <1>4, <3>2
    <3>3. QED
      BY <1>2, <1>4, <3>1, <3>2
  <2>3. QED
    BY <2>1, <2>2
<1>11. reg'[p] = i /\ Live(i)'
  BY <1>2, <1>4, <1>5, <1>6 DEF Live
<1>12. ASSUME NEW j \in 1 .. Len(pipes'), j # i
       PROVE  Live(j)' <=> Live(j)
  <2>1. j \in 1 .. Len(pipes) /\ pipes'[j] = pipes[j]
    BY <1>6, <1>12
  <2>2. pipes[j].who \in Participants
    BY <1>4, <2>1, Typed
  <2>3. CASE pipes[j].who = p
    <3>1. reg[p] # j
      <4>1. i <= Len(pipes) \/ i > Len(pipes)
        BY <1>2, <1>4
      <4>2. j # 0
        BY <1>4, <2>1
      <4>3. QED
        BY <1>7, <1>8, <1>12, <4>1, <4>2
    <3>2. QED
      BY <1>11, <1>12, <2>1, <2>3, <3>1 DEF Live
  <2>4. CASE pipes[j].who # p
    BY <1>10, <2>1, <2>2, <2>4 DEF Live
  <2>5. QED
    BY <2>3, <2>4
<1>13. PipeInv'
  <2>1. ASSUME NEW j \in 1 .. Len(pipes'), Live(j)'
        PROVE  Sound(pipes'[j])
    <3>1. CASE j = i
      BY <1>5, <1>6, <3>1
    <3>2. CASE j # i
      <4>1. Live(j) /\ j \in 1 .. Len(pipes) /\ pipes'[j] = pipes[j]
        BY <1>6, <1>12, <2>1, <3>2
      <4>2. QED
        BY <4>1 DEF PipeInv
    <3>3. QED
      BY <3>1, <3>2
  <2>2. QED
    BY <2>1 DEF PipeInv
<1>14. RegInv'
  <2>1. ASSUME NEW o \in Participants, reg'[o] # 0
        PROVE  pipes'[reg'[o]].who = o /\ flush'[reg'[o]] = "no"
    <3>1. CASE o = p
      BY <1>3, <1>5, <1>6, <1>9, <1>11, <3>1
    <3>2. CASE o # p
      <4>1. reg'[o] = reg[o] /\ reg[o] # i
        BY <1>10, <3>2
      <4>2. reg[o] \in 1 .. Len(pipes')
        BY <1>2, <1>4, <1>6, <2>1, <4>1
      <4>3. pipes'[reg[o]] = pipes[reg[o]]
        BY <1>6, <4>1, <4>2
      <4>4. QED
        BY <1>3, <2>1, <4>1, <4>3 DEF RegInv
    <3>3. QED
      BY <3>1, <3>2
  <2>2. ASSUME NEW j \in 1 .. MaxPipes, j > Len(pipes')
        PROVE  flush'[j] = "no"
    <3>1. j > Len(pipes)
      BY <1>4, <1>6, <2>2
    <3>2. QED
      BY <1>3, <3>1 DEF RegInv
  <2>3. \A j \in 1 .. MaxPipes : flush'[j] \notin {"partial", "final"} => tail'[j] = << >>
    BY <1>3 DEF RegInv
  <2>3a. ASSUME NEW j \in 1 .. Len(pipes'), flush'[j] = "partial"
         PROVE  \E o \in Pipelines : pipes'[j] = Cleared(o)
    <3>1. j # i /\ flush[j] = "partial"
      BY <1>3, <1>9, <2>3a
    <3>2. j \in 1 .. Len(pipes) /\ pipes'[j] = pipes[j]
      BY <1>6, <3>1
    <3>3. QED
      BY <3>1, <3>2 DEF RegInv
  <2>4. ASSUME NEW u \in Tracks, task'[u] # "publishing"
        PROVE  out'[u] = << >>
    <3>1. CASE UNCHANGED <<task, out>>
      BY <2>4, <3>1 DEF RegInv
    <3>2. CASE /\ task' = [task EXCEPT ![t] = "publishing"]
               /\ out' = [out EXCEPT ![t] = <<SegmentOf(i, r, r.voiced + 1)>>]
      <4>1. u # t
        BY <2>4, <3>2 DEF Types
      <4>2. QED
        BY <2>4, <3>2, <4>1 DEF RegInv, Types
    <3>3. QED
      BY <1>5, <3>1, <3>2 DEF Emit
  <2>5. QED
    BY <2>1, <2>2, <2>3, <2>3a, <2>4 DEF RegInv
<1>15. Turn(i, q, r)
  <2>1. i <= Len(pipes) => q = pipes[i] /\ Live(i)
    BY <1>2, <1>7 DEF Live
  <2>2. i = Len(pipes) + 1 => q.speech = {}
    BY <1>2, <1>4, <1>8, NewPipeParts
  <2>3. \A j \in 1 .. Len(pipes') : j # i => (Live(j)' <=> Live(j))
    BY <1>12
  <2>4. \/ SetPipe(i, r) /\ UNCHANGED <<out, tail, bursts>>
        \/ /\ r.on /\ SetPipe(i, Counted(Cleared(r))) /\ UNCHANGED bursts
           /\ out[t] = << >> /\ out' = [out EXCEPT ![t] = <<SegmentOf(i, r, r.voiced + 1)>>]
           /\ UNCHANGED tail
        \/ /\ SetPipe(i, Cleared(r)) /\ bursts' = bursts \cup {SegmentOf(i, r, 0)}
           /\ UNCHANGED <<out, tail>>
    BY <1>3, <1>5 DEF Emit
  <2>5. FlushesGoOn
    BY <1>3 DEF FlushesGoOn
  <2>6. QED
    BY <1>2, <1>3, <1>9, <1>11, <2>1, <2>2, <2>3, <2>4, <2>5 DEF Turn
<1> QED BY <1>13, <1>14, <1>15

\* A flush turns a pipeline that has just been taken out of the dictionary.
LEMMA FlushTurns ==
  ASSUME Types, RegInv, PipeInv, NEW p, NEW i, NEW r, Flushes(p, i, r),
         UNCHANGED <<task, out, stream, cut>>
  PROVE  RegInv' /\ PipeInv' /\ \E q : Turn(i, q, r)
<1> USE IngressAssumption
<1> DEFINE q == pipes[i]
<1>1. /\ p \in Participants /\ i = reg[p] /\ i \in 1 .. Len(pipes) /\ i \in 1 .. MaxPipes
      /\ q \in Pipelines /\ q.who = p /\ reg' = [reg EXCEPT ![p] = 0]
      /\ Comes(q, r) /\ r \in Pipelines /\ r.who = p /\ FlushOf(i, r) /\ Live(i)
  BY DEF Flushes, Comes, Live
<1>2. /\ reg \in [Participants -> 0 .. Len(pipes)] /\ Len(pipes) \in Nat
      /\ pipes \in Seq(Pipelines) /\ Len(pipes) <= MaxPipes
      /\ tail \in [1 .. MaxPipes -> Single]
      /\ flush \in [1 .. MaxPipes -> {"no", "partial", "final", "over", "raised"}]
  BY DEF Types
<1>3. flush[i] = "no" /\ tail[i] = << >>
  BY <1>1 DEF RegInv
<1>4. PICK c \in {Cleared(r), Counted(Cleared(r))} : SetPipe(i, c)
  BY <1>1, FlushTyped
<1>5. c \in Pipelines /\ c.who = p
  BY <1>1, ClearedParts
<1>6. /\ pipes' \in Seq(Pipelines) /\ Len(pipes') = Len(pipes) /\ pipes'[i] = c
      /\ \A j \in 1 .. Len(pipes) : j # i => pipes'[j] = pipes[j]
  <2>1. i \in 1 .. Len(pipes) + 1 /\ i <= Len(pipes)
    BY <1>1, <1>2
  <2>2. QED
    BY <1>2, <1>4, <1>5, <2>1, SetPipeParts
<1>7. \A o \in Participants : o # p => reg'[o] = reg[o] /\ reg[o] # i
  BY <1>1, <1>2 DEF RegInv
<1>8. reg'[p] = 0
  BY <1>1, <1>2
<1>9. ASSUME NEW j \in 1 .. Len(pipes'), j # i
      PROVE  Live(j)' <=> Live(j)
  <2>1. j \in 1 .. Len(pipes) /\ pipes'[j] = pipes[j] /\ j # 0
    BY <1>2, <1>6, <1>9
  <2>2. pipes[j].who \in Participants
    BY <1>2, <2>1, Typed
  <2>3. CASE pipes[j].who = p
    BY <1>1, <1>8, <1>9, <2>1, <2>3 DEF Live
  <2>4. CASE pipes[j].who # p
    BY <1>7, <2>1, <2>2, <2>4 DEF Live
  <2>5. QED
    BY <2>3, <2>4
<1>10. PipeInv'
  <2>1. ASSUME NEW j \in 1 .. Len(pipes'), Live(j)'
        PROVE  Sound(pipes'[j])
    <3>1. j # i
      BY <1>1, <1>5, <1>6, <1>8, <2>1 DEF Live
    <3>2. Live(j) /\ j \in 1 .. Len(pipes) /\ pipes'[j] = pipes[j]
      BY <1>6, <1>9, <2>1, <3>1
    <3>3. QED
      BY <3>2 DEF PipeInv
  <2>2. QED
    BY <2>1 DEF PipeInv
<1>11. PICK x \in Single, f \in {"partial", "final", "over", "raised"} :
         /\ tail' = [tail EXCEPT ![i] = x]
         /\ flush' = [flush EXCEPT ![i] = f]
         /\ f \notin {"partial", "final"} => x = << >>
         /\ f = "partial" => SetPipe(i, Cleared(r))
  BY <1>1, FlushTyped
<1>12. RegInv'
  <2>1. ASSUME NEW o \in Participants, reg'[o] # 0
        PROVE  pipes'[reg'[o]].who = o /\ flush'[reg'[o]] = "no"
    <3>1. o # p /\ reg'[o] = reg[o] /\ reg[o] # i
      BY <1>7, <1>8, <2>1
    <3>2. reg[o] \in 1 .. Len(pipes) /\ reg[o] \in 1 .. MaxPipes
      BY <1>2, <2>1, <3>1
    <3>3. pipes[reg[o]].who = o /\ flush[reg[o]] = "no"
      BY <2>1, <3>1 DEF RegInv
    <3>4. QED
      BY <1>2, <1>6, <1>11, <3>1, <3>2, <3>3
  <2>2. ASSUME NEW j \in 1 .. MaxPipes, j > Len(pipes')
        PROVE  flush'[j] = "no"
    <3>1. j > Len(pipes) /\ j # i
      BY <1>1, <1>2, <1>6, <2>2
    <3>2. QED
      BY <1>2, <1>11, <3>1 DEF RegInv
  <2>3. \A j \in 1 .. MaxPipes : flush'[j] \notin {"partial", "final"} => tail'[j] = << >>
    BY <1>2, <1>11 DEF RegInv
  <2>3a. ASSUME NEW j \in 1 .. Len(pipes'), flush'[j] = "partial"
         PROVE  \E o \in Pipelines : pipes'[j] = Cleared(o)
    <3>1. CASE j = i
      <4>1. SetPipe(i, Cleared(r))
        BY <1>1, <1>2, <1>11, <2>3a, <3>1
      <4>2. pipes' = [pipes EXCEPT ![i] = Cleared(r)]
        BY <1>1, <1>2, <4>1 DEF SetPipe
      <4>3. pipes'[i] = Cleared(r)
        BY <1>1, <1>2, <4>2
      <4>4. QED
        BY <1>1, <3>1, <4>3
    <3>2. CASE j # i
      <4>1. j \in 1 .. Len(pipes) /\ pipes'[j] = pipes[j] /\ j \in 1 .. MaxPipes
        BY <1>2, <1>6, <3>2, IngressAssumption
      <4>2. flush[j] = "partial"
        BY <1>2, <1>11, <2>3a, <3>2, <4>1
      <4>3. QED
        BY <4>1, <4>2 DEF RegInv
    <3>3. QED
      BY <3>1, <3>2
  <2>4. \A u \in Tracks : task'[u] # "publishing" => out'[u] = << >>
    BY DEF RegInv
  <2>5. QED
    BY <2>1, <2>2, <2>3, <2>3a, <2>4 DEF RegInv
<1>13. Turn(i, q, r)
  <2>1. r.len > 0 => r.on
    BY <1>1, Typed DEF Comes, Sound
  <2>2. r.len = 0 => r.speech = {}
    BY <1>1, Typed DEF Comes, Sound
  <2>3. tail' = [tail EXCEPT ![i] = << >>] => tail' = tail
    BY <1>2, <1>3
  <2>4. \/ /\ r.on /\ SetPipe(i, Counted(Cleared(r))) /\ UNCHANGED <<bursts, lost>>
           /\ tail[i] = << >> /\ tail' = [tail EXCEPT ![i] = <<SegmentOf(i, r, r.voiced + 1)>>]
        \/ /\ r.on /\ r.voiced > 0 /\ SetPipe(i, Cleared(r)) /\ flush' = [flush EXCEPT ![i] = "partial"]
           /\ tail[i] = << >> /\ tail' = [tail EXCEPT ![i] = <<SegmentOf(i, r, r.voiced)>>]
           /\ UNCHANGED <<bursts, lost>>
        \/ /\ SetPipe(i, Cleared(r)) /\ bursts' = bursts \cup {SegmentOf(i, r, 0)}
           /\ UNCHANGED <<tail, lost>>
        \/ SetPipe(i, Cleared(r)) /\ lost' = lost \cup r.speech /\ UNCHANGED <<tail, bursts>>
        \/ SetPipe(i, Cleared(r)) /\ r.speech = {} /\ UNCHANGED <<tail, bursts, lost>>
    <3>1. CASE FlushUtterance(i, r) /\ UNCHANGED lost
      BY <1>3, <2>1, <2>2, <2>3, <3>1 DEF FlushUtterance
    <3>2. CASE r.on /\ FlushPartial(i, r)
      BY <1>3, <2>3, <3>2 DEF FlushPartial
    <3>3. QED
      BY <1>1, <3>1, <3>2 DEF FlushOf
  <2>5. i \in 1 .. Len(pipes) + 1 /\ i # Len(pipes) + 1
    BY <1>1, <1>2
  <2>6. \A j \in 1 .. Len(pipes') : j # i => (Live(j)' <=> Live(j))
    BY <1>9
  <2>7. FlushesGoOn
    BY <1>1, <1>2, <1>3, <1>11 DEF FlushesGoOn
  <2>8. flush' = [flush EXCEPT ![i] = "partial"] => flush'[i] # "no"
    BY <1>1, <1>2
  <2> HIDE DEF q
  <2>9. QED
    BY <1>1, <1>3, <2>4, <2>5, <2>6, <2>7, <2>8 DEF Turn, q
<1> QED BY <1>10, <1>12, <1>13

LEMMA StepShape ==
  ASSUME Types, RegInv, PipeInv, NextFrame \in Nat, [Next]_vars
  PROVE  RegInv' /\ PipeInv' /\ (Moves \/ \E i, q, r : Turn(i, q, r))
<1> USE IngressAssumption
<1> DEFINE Goal == RegInv' /\ PipeInv' /\ (Moves \/ \E i, q, r : Turn(i, q, r))
<1>1. ASSUME UNCHANGED <<pipes, reg>>
      PROVE  PipeInv'
  BY <1>1 DEF PipeInv, Live
<1>2. ASSUME UNCHANGED <<pipes, reg, flush, tail>>,
             \A t \in Tracks : \/ out'[t] = << >>
                               \/ out'[t] = out[t] /\ task'[t] = task[t]
      PROVE  RegInv'
  BY <1>2 DEF RegInv
<1>2a. ASSUME UNCHANGED flush
       PROVE  FlushesGoOn
  BY <1>2a DEF FlushesGoOn
<1>3. ASSUME UNCHANGED <<task, out, stream, cut, lost, pipeVars, reg>>
      PROVE  Goal
  <2>1. UNCHANGED <<pipes, reg, flush, tail, heard, bursts>>
    BY <1>3 DEF pipeVars
  <2>2. RegInv'
    BY <1>2, <1>3, <2>1
  <2>3. Moves
    BY <1>2a, <1>3, <2>1 DEF Moves
  <2>4. QED
    BY <1>1, <2>1, <2>2, <2>3
<1>4. ASSUME NEW t \in Tracks, Subscribe(t)
      PROVE  Goal
  <2>1. UNCHANGED <<pipes, reg, flush, tail, heard, bursts, out, stream, cut, lost>>
    BY <1>4 DEF Subscribe, pipeVars
  <2>2. task[t] = "none" /\ task' = [task EXCEPT ![t] = "reading"]
    BY <1>4 DEF Subscribe
  <2>3. \A u \in Tracks : \/ out'[u] = << >>
                          \/ out'[u] = out[u] /\ task'[u] = task[u]
    BY <2>1, <2>2 DEF RegInv, Types
  <2>4. Moves
    BY <1>2a, <2>1 DEF Moves
  <2>5. QED
    BY <1>1, <1>2, <2>1, <2>3, <2>4
<1>5. ASSUME NEW t \in Tracks, Ingest(t)
      PROVE  Goal
  BY <1>5, IngestTurns
<1>6. ASSUME NEW t \in Tracks, Publish(t) \/ PublishFails(t)
      PROVE  Goal
  <2>1. /\ UNCHANGED <<pipes, reg, flush, tail, heard, bursts, cut>>
        /\ out' = [out EXCEPT ![t] = << >>]
        /\ \E a : task' = [task EXCEPT ![t] = a]
    BY <1>6 DEF Publish, PublishFails, pipeVars
  <2>2. Sent(out[t])
    BY <1>6 DEF Publish, PublishFails, Fails, Sent
  <2>3. \A u \in Tracks : \/ out'[u] = << >>
                          \/ out'[u] = out[u] /\ task'[u] = task[u]
    BY <2>1 DEF Types
  <2>4. Moves
    BY <1>2a, <2>1, <2>2 DEF Moves
  <2>5. QED
    BY <1>1, <1>2, <2>1, <2>3, <2>4
<1>7. ASSUME NEW ts \in SUBSET Tracks, Cancel(ts), UNCHANGED <<reg, stream, lost, pipeVars>>
      PROVE  Goal
  <2>1. UNCHANGED <<pipes, reg, flush, tail, heard, bursts, stream, lost>>
    BY <1>7 DEF pipeVars
  <2>2. \A u \in Tracks : \/ out'[u] = << >>
                          \/ out'[u] = out[u] /\ task'[u] = task[u]
    BY <1>7 DEF Cancel
  <2>3. Moves
    BY <1>2a, <1>7, <2>1 DEF Moves
  <2>4. QED
    BY <1>1, <1>2, <2>1, <2>2, <2>3
<1>8. ASSUME NEW t \in Tracks, Unsubscribe(t)
      PROVE  Goal
  <2>1. Cancel({t}) /\ UNCHANGED <<reg, stream, lost, pipeVars>>
    BY <1>8 DEF Unsubscribe
  <2>2. QED
    BY <1>7, <2>1
<1>9. ASSUME NEW p \in Participants, Leave(p)
      PROVE  Goal
  <2>1. Cancel(TracksOf(p)) /\ UNCHANGED <<reg, stream, lost, pipeVars>>
    BY <1>9 DEF Leave
  <2>2. TracksOf(p) \in SUBSET Tracks
    BY DEF TracksOf
  <2>3. QED
    BY <1>7, <2>1, <2>2
<1>9a. ASSUME NEW p \in Participants, UnsubscribeOther(p)
       PROVE  Goal
  <2>1. UNCHANGED <<task, out, stream, cut, lost, pipeVars, reg>>
    BY <1>9a DEF UnsubscribeOther
  <2>2. QED
    BY <1>3, <2>1
<1>10. ASSUME Shutdown
       PROVE  Goal
  <2>1. Cancel(Tracks) /\ UNCHANGED <<reg, stream, lost, pipeVars>>
    BY <1>10 DEF Shutdown
  <2>2. QED
    BY <1>7, <2>1
<1>11. ASSUME NEW s \in cut, Settle(s)
       PROVE  Goal
  <2>1. UNCHANGED <<pipes, reg, flush, tail, heard, bursts, out, task>> /\ cut' = cut \ {s}
    BY <1>11 DEF Settle, pipeVars
  <2>2. Sent(<<s>>)
    <3>1. stream \in Seq(Segments) /\ s \in Segments
      BY DEF Types
    <3>2. Append(stream, s) = stream \o <<s>>
      BY <3>1
    <3>3. UNION {x.speech : x \in Range(<<s>>)} = s.speech
      <4>1. Range(<<s>>) = {s}
        BY <3>1 DEF Range
      <4>2. QED
        BY <4>1
    <3>4. QED
      BY <1>11, <3>2, <3>3 DEF Settle, Sent
  <2>3. Moves
    BY <1>2a, <2>1, <2>2 DEF Moves
  <2>4. RegInv'
    BY <1>2, <2>1
  <2>5. QED
    BY <1>1, <2>1, <2>3, <2>4
<1>12. ASSUME NEW p \in Participants, reg[p] # 0, Flush(reg[p], pipes[reg[p]]),
              reg' = [reg EXCEPT ![p] = 0], UNCHANGED <<task, out, stream, cut>>
       PROVE  Goal
  <2>1. PICK i, r : Flushes(p, i, r)
    BY <1>12, FlushesShape
  <2>2. RegInv' /\ PipeInv' /\ \E q : Turn(i, q, r)
    BY <1>12, <2>1, FlushTurns
  <2>3. QED
    BY <2>2
<1>13. ASSUME NEW p \in Participants, Stop(p)
       PROVE  Goal
  <2>1. reg' = [reg EXCEPT ![p] = 0] /\ UNCHANGED <<task, out, stream, cut>>
    BY <1>13 DEF Stop
  <2>2. CASE reg[p] # 0
    <3>1. Flush(reg[p], pipes[reg[p]])
      BY <1>13, <2>2 DEF Stop
    <3>2. QED
      BY <1>12, <2>1, <2>2, <3>1
  <2>3. CASE reg[p] = 0
    <3>1. UNCHANGED pipeVars /\ UNCHANGED lost
      BY <1>13, <2>3 DEF Stop
    <3>2. reg' = reg
      BY <2>1, <2>3 DEF Types
    <3>3. QED
      BY <1>3, <2>1, <3>1, <3>2
  <2>4. QED
    BY <2>2, <2>3
<1>14. ASSUME NEW p \in Participants, CleanNext(p)
       PROVE  Goal
  <2>1. /\ reg[p] # 0 /\ reg' = [reg EXCEPT ![p] = 0] /\ Flush(reg[p], pipes[reg[p]])
        /\ UNCHANGED <<task, out, stream, cut>>
    BY <1>14 DEF CleanNext
  <2>2. QED
    BY <1>12, <2>1
<1>15. ASSUME NEW i \in 1 .. MaxPipes, FlushPublishes(i) \/ FlushFails(i)
       PROVE  Goal
  <2>1. flush[i] \in {"partial", "final"}
    BY <1>15 DEF FlushPublishes, FlushFails, Running
  <2>2. /\ tail' = [tail EXCEPT ![i] = <<>>]
        /\ flush' \in {[flush EXCEPT ![i] = "over"], [flush EXCEPT ![i] = "raised"]}
        /\ UNCHANGED <<task, out, reg, cut, pipes, bursts, heard>>
    BY <1>15, <2>1, PartialIsEmpty DEF FlushPublishes, FlushFails
  <2>3. Sent(tail[i])
    BY <1>15 DEF FlushPublishes, FlushFails, Fails, Sent
  <2>4. flush \in [1 .. MaxPipes -> {"no", "partial", "final", "over", "raised"}]
        /\ tail \in [1 .. MaxPipes -> Single]
    BY DEF Types
  <2>5. FlushesGoOn
    BY <2>2, <2>4 DEF FlushesGoOn
  <2>6. Moves
    BY <2>2, <2>3, <2>5 DEF Moves
  <2>7. RegInv'
    <3>1. \A o \in Participants : reg[o] # 0 => reg[o] # i
      BY <2>1 DEF RegInv
    <3>2. ASSUME NEW o \in Participants, reg'[o] # 0
          PROVE  pipes'[reg'[o]].who = o /\ flush'[reg'[o]] = "no"
      <4>1. pipes[reg[o]].who = o /\ flush[reg[o]] = "no" /\ reg[o] # i /\ reg' = reg
        BY <2>2, <3>1, <3>2 DEF RegInv
      <4>2. reg[o] \in 1 .. MaxPipes
        BY <2>2, <3>2 DEF Types
      <4>3. flush'[reg[o]] = flush[reg[o]]
        BY <2>2, <2>4, <4>1, <4>2
      <4>4. QED
        BY <2>2, <4>1, <4>3
    <3>3. ~ (i > Len(pipes))
      BY <2>1 DEF RegInv
    <3>4. \A j \in 1 .. MaxPipes : j > Len(pipes') => flush'[j] = "no"
      BY <2>2, <2>4, <3>3 DEF RegInv
    <3>5. \A j \in 1 .. MaxPipes : flush'[j] \notin {"partial", "final"} => tail'[j] = << >>
      BY <2>2, <2>4 DEF RegInv
    <3>6. \A j \in 1 .. MaxPipes : flush'[j] = "partial" => flush[j] = "partial"
      BY <2>2, <2>4
    <3>7. Len(pipes) \in Nat /\ Len(pipes) <= MaxPipes /\ MaxPipes \in Nat
      BY DEF Types
    <3>8. \A j \in 1 .. Len(pipes') :
            flush'[j] = "partial" => \E r \in Pipelines : pipes'[j] = Cleared(r)
      BY <2>2, <3>6, <3>7 DEF RegInv
    <3>9. \A u \in Tracks : task'[u] # "publishing" => out'[u] = << >>
      BY <2>2 DEF RegInv
    <3>10. QED
      BY <3>2, <3>4, <3>5, <3>8, <3>9 DEF RegInv
  <2>8. QED
    BY <1>1, <2>2, <2>6, <2>7
<1>16. ASSUME Disconnected \/ Cleaned \/ Exit
       PROVE  Goal
  <2>1. UNCHANGED <<task, out, stream, cut, lost, pipeVars, reg>>
    BY <1>16 DEF Disconnected, Cleaned, Exit
  <2>2. QED
    BY <1>3, <2>1
<1>17. ASSUME UNCHANGED vars
       PROVE  Goal
  <2>1. UNCHANGED <<task, out, stream, cut, lost, pipeVars, reg>>
    BY <1>17 DEF vars
  <2>2. QED
    BY <1>3, <2>1
<1>18. Goal
  <2> HIDE DEF Goal
  <2>1. QED
    BY <1>4, <1>5, <1>6, <1>8, <1>9, <1>9a, <1>10, <1>11, <1>13, <1>14, <1>15, <1>16, <1>17 DEF Next
<1> QED BY <1>18

-----------------------------------------------------------------------------
(* Segments and what was heard *)

\* The segment a turn may publish: with the number that follows, or, by a flush,
\* with the last one.
NewSegment(i, r) == SegmentOf(i, r, r.voiced + 1)
LastSegment(i, r) == SegmentOf(i, r, r.voiced)

LEMMA SegmentPlaces ==
  \A s : s \in AllSegments <=> \/ s \in Range(stream) \/ s \in cut
                               \/ \E t \in Tracks : s \in Range(out[t])
                               \/ \E i \in 1 .. MaxPipes : s \in Range(tail[i])
BY DEF AllSegments

LEMMA SegmentsTyped ==
  ASSUME Types
  PROVE  AllSegments \subseteq Segments
<1>1. \A t \in Tracks : Range(out[t]) \subseteq Segments
  BY SingleParts DEF Types
<1>2. \A i \in 1 .. MaxPipes : Range(tail[i]) \subseteq Segments
  BY SingleParts DEF Types
<1>3. Range(stream) \subseteq Segments
  BY DEF Types, Range
<1>4. cut \subseteq Segments
  BY DEF Types
<1> QED BY <1>1, <1>2, <1>3, <1>4, SegmentPlaces

\* Segments that move on are no others.
LEMMA MovesSegments ==
  ASSUME Types, Moves
  PROVE  /\ AllSegments' \subseteq AllSegments
         /\ lost' \subseteq lost \cup UNION {s.speech : s \in AllSegments}
<1>1. ASSUME NEW x \in Single, Range(x) \subseteq AllSegments, Sent(x)
      PROVE  /\ Range(stream') \subseteq AllSegments
             /\ lost' \subseteq lost \cup UNION {s.speech : s \in AllSegments}
  <2>1. stream \in Seq(Segments) /\ x \in Seq(Segments) /\ Range(stream) \subseteq AllSegments
    BY SingleParts, SegmentPlaces DEF Types
  <2>2. Range(stream') \subseteq Range(stream) \cup Range(x)
    BY <1>1, <2>1, JoinedParts DEF Sent
  <2>3. QED
    BY <1>1, <2>1, <2>2 DEF Sent
<1>2. /\ out \in [Tracks -> Single] /\ tail \in [1 .. MaxPipes -> Single]
      /\ Range(<< >>) = {} /\ cut \subseteq Segments
  BY DEF Types, Range
<1>3. \A s : s \in AllSegments' <=> \/ s \in Range(stream') \/ s \in cut'
                                    \/ \E t \in Tracks : s \in Range(out'[t])
                                    \/ \E i \in 1 .. MaxPipes : s \in Range(tail'[i])
  BY DEF AllSegments
<1>4. CASE UNCHANGED <<out, tail, stream, cut, lost>>
  BY <1>4 DEF AllSegments
<1>5. ASSUME NEW t \in Tracks, out' = [out EXCEPT ![t] = << >>], Sent(out[t]),
             UNCHANGED <<tail, cut>>
      PROVE  /\ AllSegments' \subseteq AllSegments
             /\ lost' \subseteq lost \cup UNION {s.speech : s \in AllSegments}
  <2>1. out[t] \in Single /\ Range(out[t]) \subseteq AllSegments
    BY <1>2, SegmentPlaces
  <2>2. /\ Range(stream') \subseteq AllSegments
        /\ lost' \subseteq lost \cup UNION {s.speech : s \in AllSegments}
    BY <1>1, <1>5, <2>1
  <2>3. \A u \in Tracks : Range(out'[u]) \subseteq Range(out[u])
    BY <1>2, <1>5
  <2>4. AllSegments' \subseteq AllSegments
    BY <1>3, <1>5, <2>2, <2>3, SegmentPlaces
  <2>5. QED
    BY <2>2, <2>4
<1>6. ASSUME NEW i \in 1 .. MaxPipes, tail' = [tail EXCEPT ![i] = << >>], Sent(tail[i]),
             UNCHANGED <<out, cut>>
      PROVE  /\ AllSegments' \subseteq AllSegments
             /\ lost' \subseteq lost \cup UNION {s.speech : s \in AllSegments}
  <2>1. tail[i] \in Single /\ Range(tail[i]) \subseteq AllSegments
    BY <1>2, SegmentPlaces
  <2>2. /\ Range(stream') \subseteq AllSegments
        /\ lost' \subseteq lost \cup UNION {s.speech : s \in AllSegments}
    BY <1>1, <1>6, <2>1
  <2>3. \A u \in 1 .. MaxPipes : Range(tail'[u]) \subseteq Range(tail[u])
    BY <1>2, <1>6
  <2>4. AllSegments' \subseteq AllSegments
    BY <1>3, <1>6, <2>2, <2>3, SegmentPlaces
  <2>5. QED
    BY <2>2, <2>4
<1>7. ASSUME NEW ts \in SUBSET Tracks, Cancel(ts), UNCHANGED <<tail, stream, lost>>
      PROVE  /\ AllSegments' \subseteq AllSegments
             /\ lost' \subseteq lost \cup UNION {s.speech : s \in AllSegments}
  <2>1. \A u \in Tracks : Range(out'[u]) \subseteq Range(out[u])
    BY <1>2, <1>7 DEF Cancel
  <2>2. cut' \subseteq AllSegments
    BY <1>7, SegmentPlaces DEF Cancel
  <2>3. AllSegments' \subseteq AllSegments
    BY <1>3, <1>7, <2>1, <2>2, SegmentPlaces
  <2>4. QED
    BY <1>7, <2>3
<1>8. ASSUME NEW s \in cut, cut' = cut \ {s}, Sent(<<s>>), UNCHANGED <<out, tail>>
      PROVE  /\ AllSegments' \subseteq AllSegments
             /\ lost' \subseteq lost \cup UNION {x.speech : x \in AllSegments}
  <2>1. <<s>> \in Single /\ s \in AllSegments
    BY <1>2, SegmentPlaces DEF Single
  <2>2. Range(<<s>>) \subseteq AllSegments
    BY <2>1, SingleParts
  <2>3. /\ Range(stream') \subseteq AllSegments
        /\ lost' \subseteq lost \cup UNION {x.speech : x \in AllSegments}
    BY <1>1, <1>8, <2>1, <2>2
  <2>4. AllSegments' \subseteq AllSegments
    BY <1>3, <1>8, <2>3, SegmentPlaces
  <2>5. QED
    BY <2>3, <2>4
<1> QED BY <1>4, <1>5, <1>6, <1>7, <1>8 DEF Moves

\* What a turn makes of the pipeline, and where what it publishes goes.
Makes(i, r, c) ==
  /\ SetPipe(i, c)
  /\ c.clock = r.clock /\ c.voiced >= r.voiced /\ c.speech \subseteq r.speech
  /\ c.on => c = r
  /\ bursts' \subseteq bursts \cup {SegmentOf(i, r, 0)}
  /\ lost' \subseteq lost \cup r.speech
  /\ \/ AllSegments' \subseteq AllSegments
     \/ /\ AllSegments' \subseteq AllSegments \cup {NewSegment(i, r)}
        /\ r.on /\ c.voiced = r.voiced + 1
     \/ /\ AllSegments' \subseteq AllSegments \cup {LastSegment(i, r)}
        /\ r.on /\ r.voiced > 0 /\ ~ c.on /\ flush'[i] # "no"

LEMMA TurnParts ==
  ASSUME Types, NEW i, NEW q, NEW r, Turn(i, q, r)
  PROVE  \E c \in Pipelines : Makes(i, r, c)
<1>1. r \in Pipelines /\ r.voiced \in Nat
  BY Typed DEF Turn, Comes
<1>2. /\ out \in [Tracks -> Single] /\ tail \in [1 .. MaxPipes -> Single]
      /\ UNCHANGED <<stream, cut>> /\ i \in 1 .. MaxPipes
  BY DEF Types, Turn
<1>3. \A s : s \in AllSegments' <=> \/ s \in Range(stream') \/ s \in cut'
                                    \/ \E t \in Tracks : s \in Range(out'[t])
                                    \/ \E j \in 1 .. MaxPipes : s \in Range(tail'[j])
  BY DEF AllSegments
<1>4. ASSUME UNCHANGED <<out, tail>>
      PROVE  AllSegments' = AllSegments
  BY <1>2, <1>4 DEF AllSegments
<1>5. ASSUME NEW n \in {NewSegment(i, r), LastSegment(i, r)}
      PROVE  n \in Segments /\ Range(<<n>>) = {n}
  <2>1. n \in Segments
    BY <1>1, <1>2, SegmentParts DEF NewSegment, LastSegment
  <2>2. <<n>> \in Single
    BY <2>1 DEF Single
  <2>3. QED
    BY <2>1, <2>2, SingleParts
<1>6. ASSUME NEW t \in Tracks, out' = [out EXCEPT ![t] = <<NewSegment(i, r)>>], UNCHANGED tail
      PROVE  AllSegments' \subseteq AllSegments \cup {NewSegment(i, r)}
  <2>1. \A u \in Tracks : Range(out'[u]) \subseteq Range(out[u]) \cup {NewSegment(i, r)}
    BY <1>2, <1>5, <1>6
  <2>2. QED
    BY <1>2, <1>3, <1>6, <2>1, SegmentPlaces
<1>7. ASSUME NEW n \in {NewSegment(i, r), LastSegment(i, r)},
             tail' = [tail EXCEPT ![i] = <<n>>], UNCHANGED out
      PROVE  AllSegments' \subseteq AllSegments \cup {n}
  <2>1. \A u \in 1 .. MaxPipes : Range(tail'[u]) \subseteq Range(tail[u]) \cup {n}
    BY <1>2, <1>5, <1>7
  <2>2. QED
    BY <1>2, <1>3, <1>7, <2>1, SegmentPlaces
<1>8. CASE SetPipe(i, r) /\ UNCHANGED <<out, tail, bursts, lost>>
  BY <1>1, <1>4, <1>8 DEF Makes
<1>9. CASE /\ r.on /\ SetPipe(i, Counted(Cleared(r))) /\ UNCHANGED <<bursts, lost>>
           /\ AllSegments' \subseteq AllSegments \cup {NewSegment(i, r)}
  <2> DEFINE c == Counted(Cleared(r))
  <2>1. /\ c \in Pipelines /\ c.clock = r.clock /\ ~ c.on /\ c.speech = {}
        /\ c.voiced = r.voiced + 1
    BY <1>1, ClearedParts
  <2>2. SetPipe(i, c)
    BY <1>9
  <2> HIDE DEF c
  <2>3. c.voiced >= r.voiced
    BY <1>1, <2>1
  <2>4. QED
    BY <1>9, <2>1, <2>2, <2>3 DEF Makes
<1>10. CASE /\ SetPipe(i, Cleared(r))
            /\ bursts' \in {bursts, bursts \cup {SegmentOf(i, r, 0)}}
            /\ lost' \in {lost, lost \cup r.speech}
            /\ \/ UNCHANGED <<out, tail>>
               \/ /\ AllSegments' \subseteq AllSegments \cup {LastSegment(i, r)}
                  /\ r.on /\ r.voiced > 0 /\ flush'[i] # "no"
  <2> DEFINE c == Cleared(r)
  <2>1. /\ c \in Pipelines /\ c.clock = r.clock /\ ~ c.on /\ c.speech = {}
        /\ c.voiced = r.voiced
    BY <1>1, ClearedParts
  <2>2. SetPipe(i, c)
    BY <1>10
  <2> HIDE DEF c
  <2>3. c.voiced >= r.voiced
    BY <1>1, <2>1
  <2>4. QED
    BY <1>4, <1>10, <2>1, <2>2, <2>3 DEF Makes
<1>11. CASE /\ r.on /\ r.voiced > 0 /\ SetPipe(i, Cleared(r)) /\ flush'[i] # "no"
            /\ tail' = [tail EXCEPT ![i] = <<LastSegment(i, r)>>]
            /\ UNCHANGED <<out, bursts, lost>>
  <2>1. AllSegments' \subseteq AllSegments \cup {LastSegment(i, r)}
    BY <1>7, <1>11
  <2>2. QED
    BY <1>10, <1>11, <2>1
<1> QED BY <1>6, <1>7, <1>8, <1>9, <1>10, <1>11 DEF Turn, NewSegment, LastSegment

\* Segments stay in order, and in number but for the last of a flush.
LEMMA SegStep ==
  ASSUME Types, SegInv, Types', Moves \/ \E i, q, r : Turn(i, q, r)
  PROVE  SegInv'
<1> USE IngressAssumption
<1>1. FlushesGoOn
  BY DEF Moves, Turn
\* The last segment of a flush stays the last.
<1>2. ASSUME NEW b \in AllSegments, LastOfFlushed(b), b.pipe \in 1 .. MaxPipes,
             \A s \in AllSegments' : s.pipe = b.pipe => s \in AllSegments
      PROVE  LastOfFlushed(b)'
  BY <1>1, <1>2 DEF LastOfFlushed, FlushesGoOn
<1>3. \A s \in AllSegments : s.pipe \in 1 .. Len(pipes) /\ s.pipe \in 1 .. MaxPipes
  BY DEF SegInv, Known, Types
<1>4. ASSUME AllSegments' \subseteq AllSegments
      PROVE  SegmentsAdvance'
  <2>1. \A b \in AllSegments : LastOfFlushed(b) => LastOfFlushed(b)'
    BY <1>2, <1>3, <1>4
  <2>2. QED
    BY <1>4, <2>1 DEF SegInv, SegmentsAdvance
<1>5. CASE Moves
  <2>1. AllSegments' \subseteq AllSegments /\ UNCHANGED pipes
    BY <1>5, MovesSegments DEF Moves
  <2>2. \A s \in AllSegments' : Known(s)'
    BY <2>1 DEF SegInv, Known
  <2>3. QED
    BY <1>4, <2>1, <2>2 DEF SegInv
<1>6. ASSUME NEW i, NEW q, NEW r, Turn(i, q, r)
      PROVE  SegInv'
  <2>1. PICK c \in Pipelines : Makes(i, r, c)
    BY <1>6, TurnParts
  <2>2. /\ SetPipe(i, c) /\ c.clock = r.clock /\ c.voiced >= r.voiced
        /\ c.on => c = r
        /\ \/ AllSegments' \subseteq AllSegments
           \/ /\ AllSegments' \subseteq AllSegments \cup {NewSegment(i, r)}
              /\ r.on /\ c.voiced = r.voiced + 1
           \/ /\ AllSegments' \subseteq AllSegments \cup {LastSegment(i, r)}
              /\ r.on /\ r.voiced > 0 /\ ~ c.on /\ flush'[i] # "no"
    BY <2>1 DEF Makes
  <2>3. /\ i \in 1 .. Len(pipes) + 1 /\ i \in 1 .. MaxPipes /\ q \in Pipelines
        /\ i <= Len(pipes) => q = pipes[i]
        /\ r \in Pipelines /\ Comes(q, r) /\ pipes \in Seq(Pipelines)
        /\ Len(pipes) \in Nat /\ flush[i] = "no"
    <3>1. r \in Pipelines /\ pipes \in Seq(Pipelines) /\ Len(pipes) \in Nat
      BY <1>6 DEF Turn, Comes, Types
    <3>2. QED
      BY <1>6, <3>1 DEF Turn
  <2>4. /\ pipes' \in Seq(Pipelines) /\ Len(pipes') >= Len(pipes)
        /\ Len(pipes') \in Nat
        /\ i \in 1 .. Len(pipes') /\ pipes'[i] = c
        /\ \A j \in 1 .. Len(pipes') : j # i => j \in 1 .. Len(pipes) /\ pipes'[j] = pipes[j]
    BY <2>2, <2>3, SetPipeParts
  <2>5. /\ q.clock \in Nat /\ q.start \in Nat /\ q.voiced \in Nat /\ q.on \in BOOLEAN
        /\ r.clock \in Nat /\ r.start \in Nat /\ r.voiced \in Nat /\ r.on \in BOOLEAN
        /\ r.end \in Nat /\ c.clock \in Nat /\ c.start \in Nat /\ c.voiced \in Nat
        /\ Stamp(q.clock) \in Nat /\ Stamp(r.clock) \in Nat
    BY <2>1, <2>3, Typed, StampParts
  \* What is already known of the pipeline comes before r's utterance.
  <2>6. ASSUME NEW s \in AllSegments, s.pipe = i
        PROVE  /\ s.number \in 1 .. r.voiced /\ s.end <= Stamp(r.clock) /\ s.start < s.end
               /\ s.end \in Nat /\ s.start \in Nat
               /\ r.on => s.end <= r.start
    <3>1. Known(s) /\ s \in Segments
      BY SegmentsTyped DEF SegInv
    <3>2. i \in 1 .. Len(pipes) /\ q = pipes[i]
      BY <2>3, <2>6, <3>1 DEF Known
    <3>3. /\ s.number \in 1 .. q.voiced /\ s.end <= Stamp(q.clock) /\ s.end \in Nat
          /\ s.start < s.end /\ s.start \in Nat
          /\ q.on => s.end <= q.start
      BY <2>6, <3>1, <3>2 DEF Known, Segments
    <3>4. /\ r.voiced = q.voiced /\ Stamp(r.clock) >= Stamp(q.clock)
          /\ r.on => r.start = IF q.on THEN q.start ELSE Stamp(q.clock)
      BY <2>3, <2>5 DEF Comes
    <3>5. QED
      BY <2>5, <3>3, <3>4
  <2>7. ASSUME NEW s \in AllSegments
        PROVE  Known(s)'
    <3>1. CASE s.pipe = i
      <4>1. /\ s.number \in 1 .. r.voiced /\ s.end <= Stamp(r.clock) /\ s.start < s.end
            /\ r.on => s.end <= r.start
        BY <2>6, <3>1
      <4>2. s.number \in 1 .. c.voiced
        BY <2>2, <2>5, <4>1
      <4>3. c.on => s.end <= c.start
        BY <2>2, <4>1
      <4>4. QED
        BY <2>2, <2>4, <3>1, <4>1, <4>2, <4>3 DEF Known
    <3>2. CASE s.pipe # i
      <4>1. Known(s)
        BY DEF SegInv
      <4>2. s.pipe \in 1 .. Len(pipes')
        BY <2>3, <2>4, <4>1 DEF Known
      <4>3. pipes'[s.pipe] = pipes[s.pipe]
        BY <2>4, <3>2, <4>2
      <4>4. QED
        BY <4>1, <4>2, <4>3 DEF Known
    <3>3. QED
      BY <3>1, <3>2
  <2>8. CASE AllSegments' \subseteq AllSegments
    BY <1>4, <2>7, <2>8 DEF SegInv
  \* A segment that comes in after those of its pipeline.
  <2>9. ASSUME NEW n, AllSegments' \subseteq AllSegments \cup {n}, r.on, ~ c.on,
               n.pipe = i, n.start = r.start, n.end = r.end, n.number \in 1 .. c.voiced,
               n.number > r.voiced \/ (n.number = r.voiced /\ flush'[i] # "no")
        PROVE  SegInv'
    <3>1. r.end <= Stamp(r.clock) /\ r.start < r.end
      BY <2>3, <2>9 DEF Comes, Sound
    <3>2. Known(n)'
      BY <2>2, <2>4, <2>9, <3>1 DEF Known
    <3>3. \A s \in AllSegments' : Known(s)'
      BY <2>7, <2>9, <3>2
    \* The older segments of any pipeline still follow one another.
    <3>4. ASSUME NEW a \in AllSegments, NEW b \in AllSegments, a.pipe = b.pipe, a # b
          PROVE  /\ a.end <= b.start \/ b.end <= a.start
                 /\ a.end <= b.start =>
                      a.number < b.number \/ (a.number = b.number /\ LastOfFlushed(b)')
      <4>1. /\ a.end <= b.start \/ b.end <= a.start
            /\ a.end <= b.start =>
                 a.number < b.number \/ (a.number = b.number /\ LastOfFlushed(b))
        BY <3>4 DEF SegInv, SegmentsAdvance
      <4>2. LastOfFlushed(b) => b.pipe # i
        BY <2>3 DEF LastOfFlushed
      <4>3. b.pipe # i => \A s \in AllSegments' : s.pipe = b.pipe => s \in AllSegments
        BY <2>9
      <4>4. LastOfFlushed(b) => LastOfFlushed(b)'
        BY <1>2, <1>3, <4>2, <4>3
      <4>5. QED
        BY <4>1, <4>4
    \* The new one comes after those of its pipeline.
    <3>5. ASSUME NEW a \in AllSegments, a.pipe = i
          PROVE  /\ a.end <= n.start /\ ~ (n.end <= a.start)
                 /\ a.number < n.number \/ (a.number = n.number /\ LastOfFlushed(n)')
      <4>1. /\ a.number \in 1 .. r.voiced /\ a.end <= r.start /\ a.start < a.end
            /\ a.end \in Nat /\ a.start \in Nat
        BY <2>6, <2>9, <3>5
      <4>2. a.end <= n.start /\ ~ (n.end <= a.start)
        BY <2>5, <2>9, <3>1, <4>1
      <4>3. ASSUME flush'[i] # "no"
            PROVE  LastOfFlushed(n)'
        <5>1. ASSUME NEW s \in AllSegments', s.pipe = n.pipe
              PROVE  s.end <= n.end
          <6>1. CASE s = n
            BY <2>5, <2>9, <6>1
          <6>2. CASE s \in AllSegments
            <7>1. s.end <= r.start /\ s.end \in Nat
              BY <2>6, <2>9, <5>1, <6>2
            <7>2. QED
              BY <2>5, <2>9, <3>1, <7>1
          <6>3. QED
            BY <2>9, <6>1, <6>2
        <5>2. QED
          BY <2>9, <4>3, <5>1 DEF LastOfFlushed
      <4>4. n.number > r.voiced => a.number < n.number
        BY <2>5, <2>9, <4>1
      <4>5. n.number = r.voiced => a.number < n.number \/ a.number = n.number
        BY <2>5, <2>9, <4>1
      <4>6. QED
        BY <2>9, <4>2, <4>3, <4>4, <4>5
    <3>6. \A a \in AllSegments' : a.number >= 1
      BY <2>5, <2>9 DEF SegInv, SegmentsAdvance
    <3>7. ASSUME NEW a \in AllSegments', NEW b \in AllSegments', a.pipe = b.pipe, a # b
          PROVE  /\ a.end <= b.start \/ b.end <= a.start
                 /\ a.end <= b.start =>
                      a.number < b.number \/ (a.number = b.number /\ LastOfFlushed(b)')
      <4>1. CASE a \in AllSegments /\ b \in AllSegments
        BY <3>4, <3>7, <4>1
      <4>2. CASE a \in AllSegments /\ b = n
        BY <2>9, <3>5, <3>7, <4>2
      <4>3. CASE a = n /\ b \in AllSegments
        BY <2>9, <3>5, <3>7, <4>3
      <4>4. QED
        BY <2>9, <3>7, <4>1, <4>2, <4>3
    <3>8. SegmentsAdvance'
      BY <3>6, <3>7 DEF SegmentsAdvance
    <3>9. QED
      BY <3>3, <3>8 DEF SegInv
  <2>10. CASE /\ AllSegments' \subseteq AllSegments \cup {NewSegment(i, r)}
              /\ r.on /\ c.voiced = r.voiced + 1
    <3> DEFINE n == NewSegment(i, r)
    <3>1. /\ n.pipe = i /\ n.start = r.start /\ n.end = r.end /\ n.number = r.voiced + 1
      BY DEF NewSegment, SegmentOf
    <3> HIDE DEF n
    <3>2. n.number \in 1 .. c.voiced /\ n.number > r.voiced
      BY <2>5, <2>10, <3>1
    <3>3. c # r
      BY <2>5, <2>10
    <3>4. ~ c.on
      BY <2>2, <3>3
    <3>5. AllSegments' \subseteq AllSegments \cup {n}
      BY <2>10 DEF n
    <3>6. QED
      BY <2>9, <2>10, <3>1, <3>2, <3>4, <3>5
  <2>11. CASE /\ AllSegments' \subseteq AllSegments \cup {LastSegment(i, r)}
              /\ r.on /\ r.voiced > 0 /\ ~ c.on /\ flush'[i] # "no"
    <3> DEFINE n == LastSegment(i, r)
    <3>1. /\ n.pipe = i /\ n.start = r.start /\ n.end = r.end /\ n.number = r.voiced
      BY DEF LastSegment, SegmentOf
    <3> HIDE DEF n
    <3>2. n.number \in 1 .. c.voiced
      BY <2>2, <2>5, <2>11, <3>1
    <3>3. AllSegments' \subseteq AllSegments \cup {n}
      BY <2>11 DEF n
    <3>4. QED
      BY <2>9, <2>11, <3>1, <3>2, <3>3
  <2>12. QED
    BY <2>2, <2>8, <2>10, <2>11
<1> QED BY <1>5, <1>6

\* What was heard stays numbered, and covers what is in any utterance.
LEMMA HeardStep ==
  ASSUME Types, HeardInv, Types', Moves \/ \E i, q, r : Turn(i, q, r)
  PROVE  HeardInv'
<1> USE IngressAssumption
<1>1. CASE Moves
  <2>1. UNCHANGED <<pipes, heard, bursts>> /\ AllSegments' \subseteq AllSegments
        /\ lost' \subseteq lost \cup UNION {s.speech : s \in AllSegments}
    BY <1>1, MovesSegments DEF Moves
  <2>2. lost' \subseteq heard'
    BY <2>1 DEF HeardInv
  <2>3. QED
    BY <2>1, <2>2 DEF HeardInv
<1>2. ASSUME NEW i, NEW q, NEW r, Turn(i, q, r)
      PROVE  HeardInv'
  <2>1. PICK c \in Pipelines :
           /\ SetPipe(i, c) /\ c.speech \subseteq r.speech
           /\ bursts' \subseteq bursts \cup {SegmentOf(i, r, 0)}
           /\ lost' \subseteq lost \cup r.speech
           /\ AllSegments' \subseteq AllSegments \cup {NewSegment(i, r), LastSegment(i, r)}
    BY <1>2, TurnParts DEF Makes
  <2>2. /\ i \in 1 .. Len(pipes) + 1 /\ i \in 1 .. MaxPipes /\ q \in Pipelines
        /\ i <= Len(pipes) => q = pipes[i]
        /\ i = Len(pipes) + 1 => q.speech = {}
        /\ r \in Pipelines /\ Comes(q, r) /\ pipes \in Seq(Pipelines)
        /\ Len(pipes) \in Nat
    <3>1. r \in Pipelines /\ pipes \in Seq(Pipelines) /\ Len(pipes) \in Nat
      BY <1>2 DEF Turn, Comes, Types
    <3>2. QED
      BY <1>2, <3>1 DEF Turn
  <2>3. /\ i \in 1 .. Len(pipes') /\ pipes'[i] = c
        /\ \A j \in 1 .. Len(pipes') : j # i => j \in 1 .. Len(pipes) /\ pipes'[j] = pipes[j]
    BY <2>1, <2>2, SetPipeParts
  <2>4. PICK n \in Nat : heard = 1 .. n
    BY DEF HeardInv
  <2>5. q.speech \subseteq heard
    <3>1. CASE i = Len(pipes) + 1
      BY <2>2, <3>1
    <3>2. CASE i # Len(pipes) + 1
      <4>1. i \in 1 .. Len(pipes) /\ q = pipes[i]
        BY <2>2, <3>2
      <4>2. QED
        BY <4>1 DEF HeardInv
    <3>3. QED
      BY <3>1, <3>2
  <2>6. heard \subseteq heard' /\ r.speech \subseteq heard' /\ \E m \in Nat : heard' = 1 .. m
    <3>1. CASE heard' = heard /\ r.speech = q.speech
      BY <2>4, <2>5, <3>1
    <3>2. CASE heard' = heard \cup {NextFrame} /\ r.speech = q.speech \cup {NextFrame}
      <4>1. heard' = 1 .. n + 1
        BY <2>4, <3>2, NextFrameIs
      <4>2. QED
        BY <2>4, <2>5, <3>2, <4>1
    <3>3. QED
      BY <2>2, <3>1, <3>2 DEF Comes
  <2>7. /\ NewSegment(i, r).speech = r.speech /\ LastSegment(i, r).speech = r.speech
        /\ SegmentOf(i, r, 0).speech = r.speech /\ SegmentOf(i, r, 0).number = 0
    BY DEF NewSegment, LastSegment, SegmentOf
  <2>8. \A j \in 1 .. Len(pipes') : pipes'[j].speech \subseteq heard'
    BY <2>1, <2>3, <2>6 DEF HeardInv
  <2>9. \A s \in AllSegments' \cup bursts' : s.speech \subseteq heard'
    BY <2>1, <2>6, <2>7 DEF HeardInv
  <2>10. \A s \in bursts' : s.number = 0
    BY <2>1, <2>7 DEF HeardInv
  <2>11. lost' \subseteq heard'
    BY <2>1, <2>6 DEF HeardInv
  <2>12. QED
    BY <2>6, <2>8, <2>9, <2>10, <2>11 DEF HeardInv
<1> QED BY <1>1, <1>2

-----------------------------------------------------------------------------
(* Where a frame is *)

Uttered(f) == {i \in DOMAIN pipes : f \in pipes[i].speech /\ reg[pipes[i].who] = i}
OnStream(f) == {k \in DOMAIN stream : f \in stream[k].speech}
Going(f) == {t \in Tracks : Says(out[t], f)}
Ending(f) == {i \in 1 .. MaxPipes : Says(tail[i], f)}
Aside(f) == {s \in cut \cup bursts : f \in s.speech}

Found(f, utterances, places, tracks, flushes, segments, gone) ==
  /\ Uttered(f) = utterances /\ OnStream(f) = places /\ Going(f) = tracks
  /\ Ending(f) = flushes /\ Aside(f) = segments /\ (f \in lost <=> gone)

\* A frame is in one place.
Home(f) ==
  \/ \E x : Found(f, {x}, {}, {}, {}, {}, FALSE)
  \/ \E x : Found(f, {}, {x}, {}, {}, {}, FALSE)
  \/ \E x : Found(f, {}, {}, {x}, {}, {}, FALSE)
  \/ \E x : Found(f, {}, {}, {}, {x}, {}, FALSE)
  \/ \E x : Found(f, {}, {}, {}, {}, {x}, FALSE)
  \/ Found(f, {}, {}, {}, {}, {}, TRUE)

HomeInv == \A f \in heard : Home(f)

\* What one place says of the others.
LEMMA OneHome ==
  ASSUME NEW f, Home(f)
  PROVE  /\ \A x \in Uttered(f) : Found(f, {x}, {}, {}, {}, {}, FALSE)
         /\ \A x \in Going(f) : Found(f, {}, {}, {x}, {}, {}, FALSE)
         /\ \A x \in Ending(f) : Found(f, {}, {}, {}, {x}, {}, FALSE)
         /\ \A x \in Aside(f) : Found(f, {}, {}, {}, {}, {x}, FALSE)
BY DEF Home, Found

\* A frame with one place is there once.
LEMMA HomeIsOne ==
  ASSUME NEW f, Home(f)
  PROVE  Copies(f) = 1
<1>1. Copies(f) = Cardinality(Uttered(f)) + Cardinality(OnStream(f)) + Cardinality(Going(f))
                    + Cardinality(Ending(f)) + Cardinality(Aside(f))
                    + IF f \in lost THEN 1 ELSE 0
  BY DEF Copies, Count, Uttered, OnStream, Going, Ending, Aside
<1>2. Cardinality({}) = 0 /\ \A x : Cardinality({x}) = 1
  BY FS_EmptySet, FS_Singleton
<1>3. ASSUME NEW x, Found(f, {x}, {}, {}, {}, {}, FALSE)
      PROVE  Copies(f) = 1
  <2>1. /\ Cardinality(Uttered(f)) = 1 /\ Cardinality(OnStream(f)) = 0 /\ Cardinality(Going(f)) = 0
        /\ Cardinality(Ending(f)) = 0 /\ Cardinality(Aside(f)) = 0
        /\ f \notin lost
    BY <1>2, <1>3 DEF Found
  <2>2. QED
    BY <1>1, <2>1
<1>4. ASSUME NEW x, Found(f, {}, {x}, {}, {}, {}, FALSE)
      PROVE  Copies(f) = 1
  <2>1. /\ Cardinality(Uttered(f)) = 0 /\ Cardinality(OnStream(f)) = 1 /\ Cardinality(Going(f)) = 0
        /\ Cardinality(Ending(f)) = 0 /\ Cardinality(Aside(f)) = 0
        /\ f \notin lost
    BY <1>2, <1>4 DEF Found
  <2>2. QED
    BY <1>1, <2>1
<1>5. ASSUME NEW x, Found(f, {}, {}, {x}, {}, {}, FALSE)
      PROVE  Copies(f) = 1
  <2>1. /\ Cardinality(Uttered(f)) = 0 /\ Cardinality(OnStream(f)) = 0 /\ Cardinality(Going(f)) = 1
        /\ Cardinality(Ending(f)) = 0 /\ Cardinality(Aside(f)) = 0
        /\ f \notin lost
    BY <1>2, <1>5 DEF Found
  <2>2. QED
    BY <1>1, <2>1
<1>6. ASSUME NEW x, Found(f, {}, {}, {}, {x}, {}, FALSE)
      PROVE  Copies(f) = 1
  <2>1. /\ Cardinality(Uttered(f)) = 0 /\ Cardinality(OnStream(f)) = 0 /\ Cardinality(Going(f)) = 0
        /\ Cardinality(Ending(f)) = 1 /\ Cardinality(Aside(f)) = 0
        /\ f \notin lost
    BY <1>2, <1>6 DEF Found
  <2>2. QED
    BY <1>1, <2>1
<1>7. ASSUME NEW x, Found(f, {}, {}, {}, {}, {x}, FALSE)
      PROVE  Copies(f) = 1
  <2>1. /\ Cardinality(Uttered(f)) = 0 /\ Cardinality(OnStream(f)) = 0 /\ Cardinality(Going(f)) = 0
        /\ Cardinality(Ending(f)) = 0 /\ Cardinality(Aside(f)) = 1
        /\ f \notin lost
    BY <1>2, <1>7 DEF Found
  <2>2. QED
    BY <1>1, <2>1
<1>8. ASSUME Found(f, {}, {}, {}, {}, {}, TRUE)
      PROVE  Copies(f) = 1
  <2>1. /\ Cardinality(Uttered(f)) = 0 /\ Cardinality(OnStream(f)) = 0 /\ Cardinality(Going(f)) = 0
        /\ Cardinality(Ending(f)) = 0 /\ Cardinality(Aside(f)) = 0
        /\ f \in lost
    BY <1>2, <1>8 DEF Found
  <2>2. QED
    BY <1>1, <2>1
<1> QED BY <1>3, <1>4, <1>5, <1>6, <1>7, <1>8 DEF Home

\* What was never heard is nowhere.
LEMMA UnheardIsNowhere ==
  ASSUME Types, HeardInv, NEW f, f \notin heard
  PROVE  Found(f, {}, {}, {}, {}, {}, FALSE)
<1>1. Uttered(f) = {}
  <2>1. DOMAIN pipes = 1 .. Len(pipes)
    BY DEF Types
  <2>2. QED
    BY <2>1 DEF Uttered, HeardInv
<1>2. \A s \in AllSegments \cup bursts : f \notin s.speech
  BY DEF HeardInv
<1>3. OnStream(f) = {}
  BY <1>2, SegmentPlaces DEF OnStream, Range
<1>4. Going(f) = {}
  BY <1>2, SegmentPlaces DEF Going, Says
<1>5. Ending(f) = {}
  BY <1>2, SegmentPlaces DEF Ending, Says
<1>6. Aside(f) = {}
  BY <1>2, SegmentPlaces DEF Aside
<1>7. f \notin lost
  BY DEF HeardInv
<1> QED BY <1>1, <1>3, <1>4, <1>5, <1>6, <1>7 DEF Found

\* What becomes of a frame whose segment reaches the stream or is lost.
LEMMA SentFrame ==
  ASSUME Types, NEW x \in Single, Sent(x), NEW f
  PROVE  /\ ~ Says(x, f) => OnStream(f)' = OnStream(f) /\ (f \in lost' <=> f \in lost)
         /\ Says(x, f) => \/ /\ OnStream(f)' = OnStream(f) \cup {Len(stream) + 1}
                             /\ f \in lost' <=> f \in lost
                          \/ OnStream(f)' = OnStream(f) /\ f \in lost'
<1>1. stream \in Seq(Segments) /\ Len(stream) \in Nat /\ DOMAIN stream = 1 .. Len(stream)
  BY DEF Types
<1>2. CASE lost' = lost \cup UNION {s.speech : s \in Range(x)} /\ stream' = stream
  <2>1. OnStream(f)' = OnStream(f)
    BY <1>2 DEF OnStream
  <2>2. f \in lost' <=> f \in lost \/ Says(x, f)
    BY <1>2 DEF Says
  <2>3. QED
    BY <2>1, <2>2
<1>3. CASE stream' = stream \o x /\ lost' = lost
  <2>1. CASE x = << >>
    <3>1. stream' = stream
      BY <1>1, <1>3, <2>1
    <3>2. ~ Says(x, f)
      BY <2>1, SingleParts DEF Says
    <3>3. QED
      BY <1>3, <3>1, <3>2 DEF OnStream
  <2>2. ASSUME NEW s \in Segments, x = <<s>>
        PROVE  /\ ~ Says(x, f) => OnStream(f)' = OnStream(f)
               /\ Says(x, f) => OnStream(f)' = OnStream(f) \cup {Len(stream) + 1}
    <3>1. Says(x, f) <=> f \in s.speech
      BY <2>2, SingleParts DEF Says
    <3>2. /\ DOMAIN stream' = 1 .. Len(stream) + 1 /\ stream'[Len(stream) + 1] = s
          /\ \A k \in 1 .. Len(stream) : stream'[k] = stream[k]
      BY <1>1, <1>3, <2>2
    <3>3. \A k : k \in 1 .. Len(stream) + 1 <=> k \in 1 .. Len(stream) \/ k = Len(stream) + 1
      BY <1>1
    <3>4. \A k : k \in OnStream(f)' <=> \/ k \in OnStream(f)
                                        \/ k = Len(stream) + 1 /\ f \in s.speech
      BY <1>1, <3>2, <3>3 DEF OnStream
    <3>5. QED
      BY <3>1, <3>4
  <2>3. QED
    BY <1>3, <2>1, <2>2, SingleParts
<1> QED BY <1>2, <1>3 DEF Sent

\* What a track, or a flush, says in place of what it said.
LEMMA TrackFrame ==
  ASSUME Types, NEW t \in Tracks, NEW y, out' = [out EXCEPT ![t] = y], NEW f
  PROVE  Going(f)' = IF Says(y, f) THEN Going(f) \cup {t} ELSE Going(f) \ {t}
<1>1. \A u \in Tracks : out'[u] = IF u = t THEN y ELSE out[u]
  BY DEF Types
<1>2. \A u : u \in Going(f)' <=> u \in Tracks /\ Says(IF u = t THEN y ELSE out[u], f)
  BY <1>1 DEF Going, Says
<1>3. \A u : u \in Going(f) <=> u \in Tracks /\ Says(out[u], f)
  BY DEF Going
<1> QED BY <1>2, <1>3

LEMMA TailFrame ==
  ASSUME Types, NEW i \in 1 .. MaxPipes, NEW y, tail' = [tail EXCEPT ![i] = y], NEW f
  PROVE  Ending(f)' = IF Says(y, f) THEN Ending(f) \cup {i} ELSE Ending(f) \ {i}
<1>1. \A u \in 1 .. MaxPipes : tail'[u] = IF u = i THEN y ELSE tail[u]
  BY DEF Types
<1>2. \A u : u \in Ending(f)' <=> u \in 1 .. MaxPipes /\ Says(IF u = i THEN y ELSE tail[u], f)
  BY <1>1 DEF Ending, Says
<1>3. \A u : u \in Ending(f) <=> u \in 1 .. MaxPipes /\ Says(tail[u], f)
  BY DEF Ending
<1> QED BY <1>2, <1>3

LEMMA NothingSaid ==
  /\ \A f : ~ Says(<< >>, f)
  /\ \A s \in Segments : \A f : Says(<<s>>, f) <=> f \in s.speech
<1>1. << >> \in Single /\ \A s \in Segments : <<s>> \in Single
  BY DEF Single
<1> QED BY <1>1, SingleParts DEF Says

\* A segment that moves on takes its frames to one other place.
LEMMA MovesHome ==
  ASSUME Types, SegInv, HeardInv, HomeInv, Moves
  PROVE  HomeInv'
<1> USE IngressAssumption
<1>1. UNCHANGED <<pipes, reg, heard, bursts>>
  BY DEF Moves
<1> SUFFICES ASSUME NEW f \in heard
             PROVE  Home(f)'
  BY <1>1 DEF HomeInv
<1>2. Home(f)
  BY DEF HomeInv
<1>3. Uttered(f)' = Uttered(f)
  BY <1>1 DEF Uttered
<1>4. /\ out \in [Tracks -> Single] /\ tail \in [1 .. MaxPipes -> Single]
      /\ cut \subseteq Segments /\ << >> \in Single
  BY DEF Types, Single
<1>5. ASSUME UNCHANGED out
      PROVE  Going(f)' = Going(f)
  BY <1>5 DEF Going, Says
<1>6. ASSUME UNCHANGED tail
      PROVE  Ending(f)' = Ending(f)
  BY <1>6 DEF Ending, Says
<1>7. ASSUME UNCHANGED cut
      PROVE  Aside(f)' = Aside(f)
  BY <1>1, <1>7 DEF Aside
<1>8. ASSUME UNCHANGED <<stream, lost>>
      PROVE  OnStream(f)' = OnStream(f) /\ (f \in lost' <=> f \in lost)
  BY <1>8 DEF OnStream
\* Nothing moves that says f.
<1>9. ASSUME /\ OnStream(f)' = OnStream(f) /\ Going(f)' = Going(f) /\ Ending(f)' = Ending(f)
             /\ Aside(f)' = Aside(f) /\ (f \in lost' <=> f \in lost)
      PROVE  Home(f)'
  BY <1>2, <1>3, <1>9 DEF Home, Found
\* What says f is sent: it was nowhere else.
<1>10. ASSUME Uttered(f) = {}, OnStream(f) = {}, f \notin lost,
              Going(f)' = {}, Ending(f)' = {}, Aside(f)' = {},
              \/ /\ OnStream(f)' = OnStream(f) \cup {Len(stream) + 1}
                 /\ f \in lost' <=> f \in lost
              \/ OnStream(f)' = OnStream(f) /\ f \in lost'
       PROVE  Home(f)'
  <2>1. CASE OnStream(f)' = {Len(stream) + 1} /\ f \notin lost'
    <3>1. PICK k : k = Len(stream) + 1
      OBVIOUS
    <3>2. Found(f, {}, {k}, {}, {}, {}, FALSE)'
      BY <1>3, <1>10, <2>1, <3>1 DEF Found
    <3>3. QED
      BY <3>2 DEF Home
  <2>2. CASE OnStream(f)' = {} /\ f \in lost'
    BY <1>3, <1>10, <2>2 DEF Home, Found
  <2>3. QED
    BY <1>10, <2>1, <2>2
<1>11. CASE UNCHANGED <<out, tail, stream, cut, lost>>
  BY <1>5, <1>6, <1>7, <1>8, <1>9, <1>11
<1>12. ASSUME NEW t \in Tracks, out' = [out EXCEPT ![t] = << >>], Sent(out[t]),
              UNCHANGED <<tail, cut>>
       PROVE  Home(f)'
  <2>1. Going(f)' = Going(f) \ {t}
    BY <1>12, TrackFrame, NothingSaid
  <2>2. Ending(f)' = Ending(f) /\ Aside(f)' = Aside(f)
    BY <1>6, <1>7, <1>12
  <2>3. out[t] \in Single
    BY <1>4
  <2>4. CASE ~ Says(out[t], f)
    <3>1. OnStream(f)' = OnStream(f) /\ (f \in lost' <=> f \in lost)
      BY <1>12, <2>3, <2>4, SentFrame
    <3>2. Going(f) \ {t} = Going(f)
      BY <2>4 DEF Going
    <3>3. QED
      BY <1>9, <2>1, <2>2, <3>1, <3>2
  <2>5. CASE Says(out[t], f)
    <3>1. Found(f, {}, {}, {t}, {}, {}, FALSE)
      BY <1>2, <2>5, OneHome DEF Going
    <3>2. \/ /\ OnStream(f)' = OnStream(f) \cup {Len(stream) + 1}
             /\ f \in lost' <=> f \in lost
          \/ OnStream(f)' = OnStream(f) /\ f \in lost'
      BY <1>12, <2>3, <2>5, SentFrame
    <3>3. /\ Uttered(f) = {} /\ OnStream(f) = {} /\ f \notin lost
          /\ Going(f)' = {} /\ Ending(f)' = {} /\ Aside(f)' = {}
      BY <2>1, <2>2, <3>1 DEF Found
    <3>4. QED
      BY <1>10, <3>2, <3>3
  <2>6. QED
    BY <2>4, <2>5
<1>13. ASSUME NEW i \in 1 .. MaxPipes, tail' = [tail EXCEPT ![i] = << >>], Sent(tail[i]),
              UNCHANGED <<out, cut>>
       PROVE  Home(f)'
  <2>1. Ending(f)' = Ending(f) \ {i}
    BY <1>13, TailFrame, NothingSaid
  <2>2. Going(f)' = Going(f) /\ Aside(f)' = Aside(f)
    BY <1>5, <1>7, <1>13
  <2>3. tail[i] \in Single
    BY <1>4
  <2>4. CASE ~ Says(tail[i], f)
    <3>1. OnStream(f)' = OnStream(f) /\ (f \in lost' <=> f \in lost)
      BY <1>13, <2>3, <2>4, SentFrame
    <3>2. Ending(f) \ {i} = Ending(f)
      BY <2>4 DEF Ending
    <3>3. QED
      BY <1>9, <2>1, <2>2, <3>1, <3>2
  <2>5. CASE Says(tail[i], f)
    <3>1. Found(f, {}, {}, {}, {i}, {}, FALSE)
      BY <1>2, <2>5, OneHome DEF Ending
    <3>2. \/ /\ OnStream(f)' = OnStream(f) \cup {Len(stream) + 1}
             /\ f \in lost' <=> f \in lost
          \/ OnStream(f)' = OnStream(f) /\ f \in lost'
      BY <1>13, <2>3, <2>5, SentFrame
    <3>3. /\ Uttered(f) = {} /\ OnStream(f) = {} /\ f \notin lost
          /\ Going(f)' = {} /\ Ending(f)' = {} /\ Aside(f)' = {}
      BY <2>1, <2>2, <3>1 DEF Found
    <3>4. QED
      BY <1>10, <3>2, <3>3
  <2>6. QED
    BY <2>4, <2>5
<1>14. ASSUME NEW ts \in SUBSET Tracks, Cancel(ts), UNCHANGED <<tail, stream, lost>>
       PROVE  Home(f)'
  <2>1. /\ \A t \in Tracks : out'[t] = IF t \in ts THEN << >> ELSE out[t]
        /\ cut' = cut \cup UNION {Range(out[t]) : t \in ts}
    BY <1>14 DEF Cancel
  <2>2. Ending(f)' = Ending(f) /\ OnStream(f)' = OnStream(f) /\ (f \in lost' <=> f \in lost)
    BY <1>6, <1>8, <1>14
  <2>3. \A t : t \in Going(f)' <=> t \in Going(f) /\ t \notin ts
    BY <2>1, NothingSaid DEF Going, Says
  <2>4. \A s : s \in Aside(f)' <=> \/ s \in Aside(f)
                                   \/ f \in s.speech /\ \E t \in ts : s \in Range(out[t])
    BY <1>1, <2>1 DEF Aside
  <2>5. CASE \A t \in ts : ~ Says(out[t], f)
    <3>1. Going(f)' = Going(f)
      BY <2>3, <2>5 DEF Going
    <3>2. Aside(f)' = Aside(f)
      BY <2>4, <2>5 DEF Says
    <3>3. QED
      BY <1>9, <2>2, <3>1, <3>2
  <2>6. ASSUME NEW t \in ts, Says(out[t], f)
        PROVE  Home(f)'
    <3>1. Found(f, {}, {}, {t}, {}, {}, FALSE)
      BY <1>2, <2>6, OneHome DEF Going
    <3>2. PICK s \in Segments : out[t] = <<s>> /\ Range(out[t]) = {s}
      <4>1. out[t] \in Single
        BY <1>4
      <4>2. out[t] # << >>
        BY <2>6, NothingSaid
      <4>3. QED
        BY <4>1, <4>2, SingleParts
    <3>3. f \in s.speech
      BY <2>6, <3>2 DEF Says
    <3>4. \A u \in Tracks : Says(out[u], f) => u = t
      <4>1. Going(f) = {t}
        BY <3>1 DEF Found
      <4>2. QED
        BY <4>1 DEF Going
    <3>5. Aside(f)' = {s}
      <4>1. Aside(f) = {}
        BY <3>1 DEF Found
      <4>2. \A x : x \in Aside(f)' => x = s
        <5> TAKE x
        <5> HAVE x \in Aside(f)'
        <5>1. PICK u \in ts : f \in x.speech /\ x \in Range(out[u])
          BY <2>4, <4>1
        <5>2. u = t
          BY <3>4, <5>1 DEF Says
        <5>3. QED
          BY <3>2, <5>1, <5>2
      <4>3. s \in Aside(f)'
        BY <2>4, <3>2, <3>3
      <4>4. QED
        BY <4>2, <4>3
    <3>6. Going(f)' = {}
      BY <2>3, <3>1 DEF Found
    <3>7. Found(f, {}, {}, {}, {}, {s}, FALSE)'
      BY <1>3, <2>2, <3>1, <3>5, <3>6 DEF Found
    <3>8. QED
      BY <3>7 DEF Home
  <2>7. QED
    BY <2>5, <2>6
<1>15. ASSUME NEW s \in cut, cut' = cut \ {s}, Sent(<<s>>), UNCHANGED <<out, tail>>
       PROVE  Home(f)'
  <2>1. Going(f)' = Going(f) /\ Ending(f)' = Ending(f)
    BY <1>5, <1>6, <1>15
  <2>2. s \in Segments /\ <<s>> \in Single /\ (Says(<<s>>, f) <=> f \in s.speech)
    BY <1>4, NothingSaid DEF Single
  \* A burst has no number, and what is in flight has one.
  <2>3. s \notin bursts
    <3>1. s.number >= 1 /\ s.number \in Nat
      BY <2>2, SegmentPlaces DEF SegInv, SegmentsAdvance, Segments
    <3>2. QED
      BY <3>1 DEF HeardInv
  <2>4. Aside(f)' = Aside(f) \ {s}
    BY <1>1, <1>15, <2>3 DEF Aside
  <2>5. CASE f \notin s.speech
    <3>1. OnStream(f)' = OnStream(f) /\ (f \in lost' <=> f \in lost)
      BY <1>15, <2>2, <2>5, SentFrame
    <3>2. Aside(f) \ {s} = Aside(f)
      BY <2>5 DEF Aside
    <3>3. QED
      BY <1>9, <2>1, <2>4, <3>1, <3>2
  <2>6. CASE f \in s.speech
    <3>1. Found(f, {}, {}, {}, {}, {s}, FALSE)
      BY <1>2, <2>6, OneHome DEF Aside
    <3>2. \/ /\ OnStream(f)' = OnStream(f) \cup {Len(stream) + 1}
             /\ f \in lost' <=> f \in lost
          \/ OnStream(f)' = OnStream(f) /\ f \in lost'
      BY <1>15, <2>2, <2>6, SentFrame
    <3>3. /\ Uttered(f) = {} /\ OnStream(f) = {} /\ f \notin lost
          /\ Going(f)' = {} /\ Ending(f)' = {} /\ Aside(f)' = {}
      BY <2>1, <2>4, <3>1 DEF Found
    <3>4. QED
      BY <1>10, <3>2, <3>3
  <2>7. QED
    BY <2>5, <2>6
<1> QED BY <1>11, <1>12, <1>13, <1>14, <1>15 DEF Moves

\* The frames of the utterance that is turned are nowhere else, the one that
\* has just come included.
LEMMA TurnedFrame ==
  ASSUME Types, HeardInv, HomeInv, NEW i, NEW q, NEW r, Turn(i, q, r), NEW f \in heard'
  PROVE  /\ f \in r.speech => \E U \in SUBSET {i} : Found(f, U, {}, {}, {}, {}, FALSE)
         /\ f \notin r.speech => Home(f) /\ i \notin Uttered(f)
<1>1. /\ i \in 1 .. Len(pipes) + 1 /\ DOMAIN pipes = 1 .. Len(pipes) /\ Len(pipes) \in Nat
      /\ i <= Len(pipes) => q = pipes[i] /\ Live(i)
      /\ i = Len(pipes) + 1 => q.speech = {}
  BY DEF Turn, Types
<1>2. \/ heard' = heard /\ r.speech = q.speech
      \/ heard' = heard \cup {NextFrame} /\ r.speech = q.speech \cup {NextFrame}
  BY DEF Turn, Comes
<1>3. i \in Uttered(f) <=> f \in q.speech
  <2>1. CASE i <= Len(pipes)
    BY <1>1, <2>1 DEF Uttered, Live
  <2>2. CASE ~ (i <= Len(pipes))
    BY <1>1, <2>2 DEF Uttered
  <2>3. QED
    BY <2>1, <2>2
<1>4. CASE f \in q.speech /\ f \in heard
  <2>1. Found(f, {i}, {}, {}, {}, {}, FALSE)
    BY <1>3, <1>4, OneHome DEF HomeInv
  <2>2. QED
    BY <1>2, <1>4, <2>1
<1>5. CASE f \notin heard
  <2>1. Found(f, {}, {}, {}, {}, {}, FALSE)
    BY <1>5, UnheardIsNowhere
  <2>2. f \in r.speech
    BY <1>2, <1>5
  <2>3. {} \in SUBSET {i}
    OBVIOUS
  <2>4. QED
    BY <2>1, <2>2, <2>3
<1>6. CASE f \notin q.speech /\ f \in heard
  <2>1. PICK n \in Nat : heard = 1 .. n
    BY DEF HeardInv
  <2>2. f # NextFrame
    BY <1>6, <2>1, NextFrameIs
  <2>3. f \notin r.speech
    BY <1>2, <1>6, <2>2
  <2>4. QED
    BY <1>3, <1>6, <2>3 DEF HomeInv
<1> QED BY <1>4, <1>5, <1>6

\* A turn keeps the frames of the utterance together.
LEMMA TurnHome ==
  ASSUME Types, HeardInv, HomeInv, NEW i, NEW q, NEW r, Turn(i, q, r)
  PROVE  HomeInv'
<1> USE IngressAssumption
<1> SUFFICES ASSUME NEW f \in heard'
             PROVE  Home(f)'
  BY DEF HomeInv
<1>1. /\ i \in 1 .. Len(pipes) + 1 /\ i \in 1 .. MaxPipes /\ r \in Pipelines
      /\ pipes \in Seq(Pipelines) /\ Len(pipes) \in Nat
      /\ UNCHANGED <<stream, cut>>
      /\ \A j \in 1 .. Len(pipes') : j # i => (Live(j)' <=> Live(j))
  <2>1. r \in Pipelines /\ pipes \in Seq(Pipelines) /\ Len(pipes) \in Nat
    BY DEF Turn, Comes, Types
  <2>2. QED
    BY <2>1 DEF Turn
<1>2. /\ f \in r.speech => \E U \in SUBSET {i} : Found(f, U, {}, {}, {}, {}, FALSE)
      /\ f \notin r.speech => Home(f) /\ i \notin Uttered(f)
  BY TurnedFrame
<1>3. OnStream(f)' = OnStream(f)
  BY <1>1 DEF OnStream
<1>4. ASSUME NEW c \in Pipelines, SetPipe(i, c)
      PROVE  \A j : j \in Uttered(f)' <=> \/ j # i /\ j \in Uttered(f)
                                          \/ j = i /\ f \in c.speech /\ Live(i)'
  <2>1. /\ pipes' \in Seq(Pipelines) /\ i \in 1 .. Len(pipes') /\ pipes'[i] = c
        /\ Len(pipes') = IF i <= Len(pipes) THEN Len(pipes) ELSE Len(pipes) + 1
        /\ \A j \in 1 .. Len(pipes') : j # i => j \in 1 .. Len(pipes) /\ pipes'[j] = pipes[j]
    BY <1>1, <1>4, SetPipeParts
  <2>2. \A j \in 1 .. Len(pipes) : j \in 1 .. Len(pipes')
    BY <1>1, <2>1
  <2>3. DOMAIN pipes = 1 .. Len(pipes) /\ DOMAIN pipes' = 1 .. Len(pipes')
    BY <1>1, <2>1
  <2>4. \A j : j \in Uttered(f) <=> j \in 1 .. Len(pipes) /\ f \in pipes[j].speech /\ Live(j)
    BY <2>3 DEF Uttered, Live
  <2>5. \A j : j \in Uttered(f)' <=> j \in 1 .. Len(pipes') /\ f \in pipes'[j].speech /\ Live(j)'
    BY <2>3 DEF Uttered, Live
  <2>6. QED
    BY <1>1, <2>1, <2>2, <2>4, <2>5
<1>5. Cleared(r) \in Pipelines /\ Counted(Cleared(r)) \in Pipelines
      /\ Cleared(r).speech = {} /\ Counted(Cleared(r)).speech = {}
  BY <1>1, ClearedParts
<1>6. ASSUME SetPipe(i, Cleared(r)) \/ SetPipe(i, Counted(Cleared(r)))
      PROVE  Uttered(f)' = Uttered(f) \ {i}
  BY <1>4, <1>5, <1>6
<1>7. ASSUME UNCHANGED out
      PROVE  Going(f)' = Going(f)
  BY <1>7 DEF Going, Says
<1>8. ASSUME UNCHANGED tail
      PROVE  Ending(f)' = Ending(f)
  BY <1>8 DEF Ending, Says
<1>9. ASSUME UNCHANGED bursts
      PROVE  Aside(f)' = Aside(f)
  BY <1>1, <1>9 DEF Aside
<1>10. /\ \A n \in {NewSegment(i, r), LastSegment(i, r)} : n \in Segments /\ n.speech = r.speech
       /\ SegmentOf(i, r, 0).speech = r.speech
  <2>1. r.voiced + 1 \in Nat /\ r.voiced \in Nat
    BY <1>1, Typed
  <2>2. QED
    BY <1>1, <2>1, SegmentParts DEF NewSegment, LastSegment
\* A frame of another utterance, or of none, stays where it is.
<1>11. ASSUME f \notin r.speech, Uttered(f)' = Uttered(f), Going(f)' = Going(f),
              Ending(f)' = Ending(f), Aside(f)' = Aside(f), f \in lost' <=> f \in lost
       PROVE  Home(f)'
  BY <1>2, <1>3, <1>11 DEF Home, Found
<1>12. ASSUME f \in r.speech
       PROVE  /\ Uttered(f) \subseteq {i} /\ OnStream(f) = {} /\ Going(f) = {}
              /\ Ending(f) = {} /\ Aside(f) = {} /\ f \notin lost
  BY <1>2, <1>12 DEF Found
<1>13. ASSUME f \notin r.speech
       PROVE  Uttered(f) \ {i} = Uttered(f)
  BY <1>2, <1>13
<1>14. CASE SetPipe(i, r) /\ Live(i)' /\ UNCHANGED <<out, tail, bursts, lost>>
  <2>1. Going(f)' = Going(f) /\ Ending(f)' = Ending(f) /\ Aside(f)' = Aside(f)
    BY <1>7, <1>8, <1>9, <1>14
  <2>2. \A j : j \in Uttered(f)' <=> \/ j # i /\ j \in Uttered(f)
                                     \/ j = i /\ f \in r.speech
    BY <1>1, <1>4, <1>14
  <2>3. CASE f \notin r.speech
    BY <1>2, <1>11, <1>14, <2>1, <2>2, <2>3
  <2>4. CASE f \in r.speech
    <3>1. Uttered(f)' = {i}
      BY <1>12, <2>2, <2>4
    <3>2. Found(f, {i}, {}, {}, {}, {}, FALSE)'
      BY <1>3, <1>12, <1>14, <2>1, <2>4, <3>1 DEF Found
    <3>3. QED
      BY <3>2 DEF Home
  <2>5. QED
    BY <2>3, <2>4
<1>15. ASSUME NEW t \in Tracks, out[t] = << >>, out' = [out EXCEPT ![t] = <<NewSegment(i, r)>>],
              UNCHANGED <<tail, bursts, lost>>, SetPipe(i, Counted(Cleared(r)))
       PROVE  Home(f)'
  <2>1. Going(f)' = IF f \in r.speech THEN Going(f) \cup {t} ELSE Going(f) \ {t}
    BY <1>10, <1>15, TrackFrame, NothingSaid
  <2>2. Uttered(f)' = Uttered(f) \ {i} /\ Ending(f)' = Ending(f) /\ Aside(f)' = Aside(f)
    BY <1>6, <1>8, <1>9, <1>15
  <2>3. CASE f \notin r.speech
    <3>1. Going(f)' = Going(f)
      BY <1>15, <2>1, <2>3, NothingSaid DEF Going
    <3>2. QED
      BY <1>11, <1>13, <1>15, <2>2, <2>3, <3>1
  <2>4. CASE f \in r.speech
    <3>1. Found(f, {}, {}, {t}, {}, {}, FALSE)'
      BY <1>3, <1>12, <1>15, <2>1, <2>2, <2>4 DEF Found
    <3>2. QED
      BY <3>1 DEF Home
  <2>5. QED
    BY <2>3, <2>4
<1>16. ASSUME NEW n \in {NewSegment(i, r), LastSegment(i, r)}, tail[i] = << >>,
              tail' = [tail EXCEPT ![i] = <<n>>], UNCHANGED <<out, bursts, lost>>,
              SetPipe(i, Counted(Cleared(r))) \/ SetPipe(i, Cleared(r))
       PROVE  Home(f)'
  <2>1. Ending(f)' = IF f \in r.speech THEN Ending(f) \cup {i} ELSE Ending(f) \ {i}
    BY <1>1, <1>10, <1>16, TailFrame, NothingSaid
  <2>2. Uttered(f)' = Uttered(f) \ {i} /\ Going(f)' = Going(f) /\ Aside(f)' = Aside(f)
    BY <1>6, <1>7, <1>9, <1>16
  <2>3. CASE f \notin r.speech
    <3>1. Ending(f)' = Ending(f)
      BY <1>16, <2>1, <2>3, NothingSaid DEF Ending
    <3>2. QED
      BY <1>11, <1>13, <1>16, <2>2, <2>3, <3>1
  <2>4. CASE f \in r.speech
    <3>1. Found(f, {}, {}, {}, {i}, {}, FALSE)'
      BY <1>3, <1>12, <1>16, <2>1, <2>2, <2>4 DEF Found
    <3>2. QED
      BY <3>1 DEF Home
  <2>5. QED
    BY <2>3, <2>4
<1>17. CASE /\ SetPipe(i, Cleared(r)) /\ bursts' = bursts \cup {SegmentOf(i, r, 0)}
            /\ UNCHANGED <<out, tail, lost>>
  <2>1. \A s : s \in Aside(f)' <=> s \in Aside(f) \/ (s = SegmentOf(i, r, 0) /\ f \in r.speech)
    BY <1>1, <1>10, <1>17 DEF Aside
  <2>2. Uttered(f)' = Uttered(f) \ {i} /\ Going(f)' = Going(f) /\ Ending(f)' = Ending(f)
    BY <1>6, <1>7, <1>8, <1>17
  <2>3. CASE f \notin r.speech
    BY <1>11, <1>13, <1>17, <2>1, <2>2, <2>3
  <2>4. CASE f \in r.speech
    <3>1. Aside(f)' = {SegmentOf(i, r, 0)}
      BY <1>12, <2>1, <2>4
    <3>2. Found(f, {}, {}, {}, {}, {SegmentOf(i, r, 0)}, FALSE)'
      BY <1>3, <1>12, <1>17, <2>2, <2>4, <3>1 DEF Found
    <3>3. QED
      BY <3>2 DEF Home
  <2>5. QED
    BY <2>3, <2>4
<1>18. CASE /\ SetPipe(i, Cleared(r)) /\ UNCHANGED <<out, tail, bursts>>
            /\ lost' = lost \cup r.speech
  <2>1. /\ Uttered(f)' = Uttered(f) \ {i} /\ Going(f)' = Going(f) /\ Ending(f)' = Ending(f)
        /\ Aside(f)' = Aside(f)
    BY <1>6, <1>7, <1>8, <1>9, <1>18
  <2>2. CASE f \notin r.speech
    BY <1>11, <1>13, <1>18, <2>1, <2>2
  <2>3. CASE f \in r.speech
    <3>1. Found(f, {}, {}, {}, {}, {}, TRUE)'
      BY <1>3, <1>12, <1>18, <2>1, <2>3 DEF Found
    <3>2. QED
      BY <3>1 DEF Home
  <2>4. QED
    BY <2>2, <2>3
<1>19. CASE SetPipe(i, Cleared(r)) /\ r.speech = {} /\ UNCHANGED <<out, tail, bursts, lost>>
  BY <1>6, <1>7, <1>8, <1>9, <1>11, <1>13, <1>19
<1> QED BY <1>14, <1>15, <1>16, <1>17, <1>18, <1>19 DEF Turn, NewSegment, LastSegment

-----------------------------------------------------------------------------
(* The theorems *)

IngressInv == Types /\ RegInv /\ PipeInv /\ SegInv /\ HeardInv /\ HomeInv

LEMMA InitIngress == Init => IngressInv
<1> USE IngressAssumption
<1> SUFFICES ASSUME Init PROVE IngressInv
  OBVIOUS
<1>1. << >> \in Single /\ Range(<< >>) = {}
  BY DEF Single, Range
<1>2. /\ pipes \in Seq(Pipelines) /\ Len(pipes) = 0 /\ 0 \in 0 .. Len(pipes)
      /\ stream \in Seq(Segments) /\ 0 \in 0 .. MaxStops /\ 0 \in 0 .. MaxPipes
  BY DEF Init
<1>3. Types
  BY <1>1, <1>2 DEF Init, Types
<1>4. RegInv
  BY DEF Init, RegInv
<1>5. PipeInv
  BY <1>2 DEF PipeInv
<1>6. AllSegments = {}
  <2>1. \A s : s \notin AllSegments
    BY <1>1, SegmentPlaces DEF Init
  <2>2. QED
    BY <2>1
<1>7. SegInv
  BY <1>6 DEF SegInv, SegmentsAdvance
<1>8. HeardInv
  <2>1. heard = 1 .. 0
    BY DEF Init
  <2>2. bursts = {} /\ lost = {}
    BY DEF Init
  <2>3. QED
    BY <1>2, <1>6, <2>1, <2>2 DEF HeardInv
<1>9. HomeInv
  BY DEF Init, HomeInv
<1> QED BY <1>3, <1>4, <1>5, <1>7, <1>8, <1>9 DEF IngressInv

LEMMA StepIngress == IngressInv /\ [Next]_vars => IngressInv'
<1> SUFFICES ASSUME IngressInv, [Next]_vars PROVE IngressInv'
  OBVIOUS
<1>1. Types /\ RegInv /\ PipeInv /\ SegInv /\ HeardInv /\ HomeInv
  BY DEF IngressInv
<1>2. NextFrame \in Nat
  <2>1. PICK n \in Nat : heard = 1 .. n
    BY <1>1 DEF HeardInv
  <2>2. QED
    BY <2>1, NextFrameIs
<1>3. Types'
  BY <1>1, <1>2, TypesStep
<1>4. RegInv' /\ PipeInv' /\ (Moves \/ \E i, q, r : Turn(i, q, r))
  BY <1>1, <1>2, StepShape
<1>5. SegInv'
  BY <1>1, <1>3, <1>4, SegStep
<1>6. HeardInv'
  BY <1>1, <1>3, <1>4, HeardStep
<1>7. HomeInv'
  <2>1. CASE Moves
    BY <1>1, <2>1, MovesHome
  <2>2. ASSUME NEW i, NEW q, NEW r, Turn(i, q, r)
        PROVE  HomeInv'
    BY <1>1, <2>2, TurnHome
  <2>3. QED
    BY <1>4, <2>1, <2>2
<1> QED BY <1>3, <1>4, <1>5, <1>6, <1>7 DEF IngressInv

LEMMA IngressInvariant == Spec => []IngressInv
BY InitIngress, StepIngress, PTL DEF Spec

\* Every state has the shape the model declares: consumers, the service's
\* dictionary, pipelines, flushes and the stream (subscriber.py, service.py).
THEOREM IngressTypes == Spec => []TypeOK
<1>1. Types => TypeOK
  <2> SUFFICES ASSUME Types PROVE TypeOK
    OBVIOUS
  <2>1. \A t \in Tracks : Range(out[t]) \subseteq Segments /\ Len(out[t]) <= 1
    <3> TAKE t \in Tracks
    <3>1. out[t] \in Single
      BY DEF Types
    <3>2. out[t] = << >> \/ \E s \in Segments : out[t] = <<s>>
      BY <3>1, SingleParts
    <3>3. Len(out[t]) <= 1
      <4>1. CASE out[t] = << >>
        BY <4>1
      <4>2. ASSUME NEW s \in Segments, out[t] = <<s>>
            PROVE  Len(out[t]) <= 1
        <5>1. Len(<<s>>) = 1
          OBVIOUS
        <5>2. Len(<<s>>) <= 1
          BY <5>1
        <5>3. QED
          BY <4>2, <5>2
      <4>3. QED
        BY <3>2, <4>1, <4>2
    <3>4. QED
      BY <3>1, <3>3, SingleParts
  <2>2. \A i \in DOMAIN pipes : pipes[i] \in Pipelines
    BY DEF Types
  <2>3. Range(stream) \subseteq Segments
    BY DEF Types, Range
  <2>4. QED
    BY <2>1, <2>2, <2>3 DEF Types, TypeOK
<1>2. IngressInv => TypeOK
  BY <1>1 DEF IngressInv
<1> QED BY <1>2, IngressInvariant, PTL

\* The segments of a pipeline do not overlap and are numbered from 1 in the order
\* spoken (framing.py, vad.py, ingestion.py), for any thresholds, any rounding of
\* the times and any tracks that share it; only the last segment of a flush, which
\* what was short of a frame ended, may repeat the number before it.
THEOREM SegmentsInOrder == Spec => []SegmentsAdvance
<1>1. IngressInv => SegmentsAdvance
  BY DEF IngressInv, SegInv
<1> QED BY <1>1, IngressInvariant, PTL

\* Every frame taken for speech is in one place: an utterance under way, a
\* segment on its way or on the stream, a burst, or lost with a publication or a
\* flush that failed; however tracks, stops and the cleanup overlap (service.py, subscriber.py).
THEOREM SpeechIsAccounted == Spec => []SpeechAccounted
<1>1. IngressInv => SpeechAccounted
  BY HomeIsOne DEF IngressInv, HomeInv, SpeechAccounted
<1> QED BY <1>1, IngressInvariant, PTL

-----------------------------------------------------------------------------
(* Flow control *)

\* The controller's clock tells how long the tier has been what it is.
ClockInv == since = kept

\* An update that was completed under the outage there is has answered it.
AnswerInv == answered /\ Forced # NORMAL => tier = Forced

\* It has been quiet for no longer than the tier, unless it is NORMAL, has stood.
CalmInv ==
  /\ ~ Quiet => calm = 0
  /\ tier # NORMAL => calm <= since

FlowInv == FlowTypeOK /\ ClockInv /\ AnswerInv /\ CalmInv

-----------------------------------------------------------------------------
\* An age that saturates at its bound stays within it.
LEMMA OlderBounded ==
  ASSUME NEW low \in {-1, 0}, NEW bound \in Nat, NEW age \in low .. bound
  PROVE  Older(age, bound) \in low .. bound
BY DEF Older

\* The tiers that worker health and queue depths call for are tiers.
LEMMA CalledFor ==
  /\ Forced \in Tiers
  /\ \A d \in Nat : Target(d) \in Tiers
BY DEF Forced, Target, Tiers, NORMAL, HIGH_LOAD, CRITICAL_LOAD, EMERGENCY

\* What evaluate_queue_depths does to the tier: nothing, or a transition to a
\* tier that was called for, which starts both clocks over.
LEMMA Judged ==
  ASSUME NEW d \in Nat, NEW f \in Tiers, EvaluateQueueDepths(d, f)
  PROVE  \/ UNCHANGED tierVars
         \/ tier' \in Tiers /\ since' = 0 /\ kept' = 0
BY CalledFor
   DEF EvaluateQueueDepths, Raise, Lower, Transition, tierVars, Tiers

\* The initial state satisfies the invariant.
LEMMA InitFlow == FlowInit => FlowInv
<1> SUFFICES ASSUME FlowInit PROVE FlowInv
    OBVIOUS
<1>1. FlowTypeOK
  <2>1. tier \in Tiers /\ answered \in BOOLEAN
      BY DEF FlowInit, Tiers
  <2>2. /\ since \in 0 .. Cooldown /\ kept \in 0 .. Cooldown /\ calm \in 0 .. Cooldown
        /\ readErrors \in 0 .. MaxReadErrors
      BY DegradationAssumption DEF FlowInit
  <2>3. /\ beat \in [Workers -> -1 .. OldBeat] /\ length \in [Meetings -> 0 .. MaxLength]
        /\ depth \in [Meetings -> 0 .. MaxLength]
      BY DegradationAssumption DEF FlowInit, OldBeat
  <2>4. owed \in [Meetings -> BOOLEAN] /\ pc \in [Meetings -> {"idle", "read"}]
      BY DEF FlowInit
  <2> QED
      BY <2>1, <2>2, <2>3, <2>4 DEF FlowTypeOK
<1>2. ClockInv /\ CalmInv
    BY DEF FlowInit, ClockInv, CalmInv
<1>3. AnswerInv
    BY DEF FlowInit, AnswerInv
<1> QED
    BY <1>1, <1>2, <1>3 DEF FlowInv

\* The histories after a step that is not a tick and leaves the tier alone.
LEMMA Watched ==
  ASSUME FlowInv, UNCHANGED tierVars, Watch(FALSE, calm)
  PROVE  AnswerInv' /\ CalmInv' /\ answered' \in BOOLEAN /\ calm' \in 0 .. Cooldown
<1>1. answered' = (Forced' = Forced /\ answered) /\ calm' = (IF Quiet' THEN calm ELSE 0)
    BY DEF Watch
<1>2. calm \in 0 .. Cooldown /\ since \in 0 .. Cooldown
    BY DEF FlowInv, FlowTypeOK
<1>3. calm' \in 0 .. Cooldown /\ calm' <= calm /\ (~ Quiet' => calm' = 0)
    BY <1>1, <1>2, DegradationAssumption
<1>4. AnswerInv'
    BY <1>1 DEF FlowInv, AnswerInv, tierVars
<1>5. CalmInv'
    BY <1>2, <1>3 DEF FlowInv, CalmInv, tierVars
<1> QED
    BY <1>1, <1>3, <1>4, <1>5

\* What a completed update leaves: the tier worker health imposes, if it imposes
\* one; and nothing but NORMAL, or the tier there was, if it was quiet.
LEMMA Evaluated ==
  ASSUME FlowInv, NEW m \in Meetings, Evaluate(m)
  PROVE  /\ \/ UNCHANGED tierVars
            \/ tier' \in Tiers /\ since' = 0 /\ kept' = 0
         /\ Forced # NORMAL => tier' = Forced
         /\ Quiet => UNCHANGED tierVars \/ tier' = NORMAL
         /\ Quiet /\ (tier = NORMAL \/ since >= Cooldown) => tier' = NORMAL
<1>1. depth[m] \in Nat /\ tier \in Tiers /\ EvaluateQueueDepths(depth[m], Forced)
    BY DegradationAssumption DEF FlowInv, FlowTypeOK, Evaluate
<1>2. \/ UNCHANGED tierVars
      \/ tier' \in Tiers /\ since' = 0 /\ kept' = 0
    BY <1>1, CalledFor, Judged
<1>3. ASSUME Forced # NORMAL PROVE tier' = Forced
    BY <1>1, <1>3 DEF EvaluateQueueDepths, Transition, tierVars
<1>4. ASSUME Quiet PROVE /\ UNCHANGED tierVars \/ tier' = NORMAL
                         /\ tier = NORMAL \/ since >= Cooldown => tier' = NORMAL
  <2>1. Forced = NORMAL /\ Target(depth[m]) = NORMAL
      BY <1>1, <1>4, DegradationAssumption DEF Quiet, Target
  <2>2. tier = NORMAL \/ (tier > NORMAL /\ Lower(NORMAL))
      BY <1>1, <2>1 DEF EvaluateQueueDepths, Tiers, NORMAL, HIGH_LOAD, CRITICAL_LOAD, EMERGENCY
  <2>3. tier = NORMAL => UNCHANGED tierVars
      BY <1>1, <2>1 DEF EvaluateQueueDepths, NORMAL
  <2> QED
      BY <2>2, <2>3 DEF Lower, Transition, tierVars, NORMAL
<1> QED
    BY <1>2, <1>3, <1>4

\* Every step preserves it.
LEMMA StepFlow == FlowInv /\ [FlowNext]_flowVars => FlowInv'
<1> USE DegradationAssumption
<1> SUFFICES ASSUME FlowInv, [FlowNext]_flowVars PROVE FlowInv'
    OBVIOUS
<1>a. OldBeat \in Nat
    BY DEF OldBeat
<1>1. ASSUME NEW m \in Meetings, ReadDepths(m) PROVE FlowInv'
  <2>1. UNCHANGED tierVars /\ Watch(FALSE, calm)
      BY <1>1 DEF ReadDepths
  <2> QED
      BY <1>1, <2>1, Watched DEF FlowInv, FlowTypeOK, ClockInv, ReadDepths, tierVars, queueVars
<1>2. ASSUME NEW m \in Meetings, Evaluate(m) PROVE FlowInv'
  <2>1. /\ answered' \in BOOLEAN
        /\ calm' = (IF Quiet' THEN calm ELSE 0)
        /\ beat' = beat
      BY <1>2 DEF Evaluate, Watch
  <2>2. \/ UNCHANGED tierVars
        \/ tier' \in Tiers /\ since' = 0 /\ kept' = 0
      BY <1>2, Evaluated
  <2>3. tier' \in Tiers /\ since' \in 0 .. Cooldown /\ kept' \in 0 .. Cooldown
        /\ since' = kept'
      BY <2>2 DEF FlowInv, FlowTypeOK, ClockInv, tierVars
  <2>4. Forced' = Forced
      BY <2>1 DEF Forced, Dead, DeadWorker, Registered
  <2>5. AnswerInv'
      BY <1>2, <2>4, Evaluated DEF AnswerInv
  <2>6. calm \in 0 .. Cooldown /\ since \in 0 .. Cooldown /\ (~ Quiet => calm = 0)
        /\ (tier # NORMAL => calm <= since)
      BY DEF FlowInv, FlowTypeOK, CalmInv
  <2>7. calm' \in 0 .. Cooldown /\ calm' <= calm /\ (~ Quiet' => calm' = 0)
      BY <2>1, <2>6
  <2>8. CalmInv'
    <3>1. CASE Quiet
        BY <1>2, <2>6, <2>7, <3>1, Evaluated DEF CalmInv, tierVars
    <3>2. CASE ~ Quiet
        BY <2>3, <2>6, <2>7, <3>2 DEF CalmInv
    <3> QED
        BY <3>1, <3>2
  <2>9. /\ pc' \in [Meetings -> {"idle", "read"}] /\ depth' \in [Meetings -> 0 .. MaxLength]
        /\ readErrors' = readErrors /\ length' = length /\ owed' = owed
      BY <1>2 DEF FlowInv, FlowTypeOK, Evaluate, queueVars
  <2> QED
      BY <2>1, <2>3, <2>5, <2>7, <2>8, <2>9 DEF FlowInv, FlowTypeOK, ClockInv
<1>3. ASSUME NEW m \in Meetings, PublishSegment(m) PROVE FlowInv'
  <2>1. length' \in [Meetings -> 0 .. MaxLength] /\ owed' \in [Meetings -> BOOLEAN]
      BY <1>3, OlderBounded DEF FlowInv, FlowTypeOK, PublishSegment
  <2>2. UNCHANGED <<tierVars, beat, updateVars>> /\ Watch(FALSE, calm)
      BY <1>3 DEF PublishSegment
  <2> QED
      BY <2>1, <2>2, Watched DEF FlowInv, FlowTypeOK, ClockInv, tierVars, updateVars
<1>4. ASSUME NEW m \in Meetings, Acknowledge(m) PROVE FlowInv'
  <2>1. owed' \in [Meetings -> BOOLEAN] /\ length' = length
      BY <1>4 DEF FlowInv, FlowTypeOK, Acknowledge
  <2>2. UNCHANGED <<tierVars, beat, updateVars>> /\ Watch(FALSE, calm)
      BY <1>4 DEF Acknowledge
  <2> QED
      BY <2>1, <2>2, Watched DEF FlowInv, FlowTypeOK, ClockInv, tierVars, updateVars
<1>5. ASSUME NEW m \in Meetings, TrimMeetingStreams(m) PROVE FlowInv'
  <2>1. PICK n \in 1 .. length[m], o \in {owed[m], FALSE} :
          length' = [length EXCEPT ![m] = n] /\ owed' = [owed EXCEPT ![m] = o]
      BY <1>5 DEF TrimMeetingStreams
  <2>2. n \in 0 .. MaxLength /\ o \in BOOLEAN
    <3>1. length[m] \in 0 .. MaxLength /\ owed[m] \in BOOLEAN
        BY DEF FlowInv, FlowTypeOK
    <3>2. n \in 0 .. MaxLength
        BY <2>1, <3>1
    <3>3. o \in BOOLEAN
        BY <2>1, <3>1
    <3> QED
        BY <3>2, <3>3
  <2>3. length' \in [Meetings -> 0 .. MaxLength] /\ owed' \in [Meetings -> BOOLEAN]
      BY <2>1, <2>2 DEF FlowInv, FlowTypeOK
  <2>4. UNCHANGED <<tierVars, beat, updateVars>> /\ Watch(FALSE, calm)
      BY <1>5 DEF TrimMeetingStreams
  <2> QED
      BY <2>3, <2>4, Watched DEF FlowInv, FlowTypeOK, ClockInv, tierVars, updateVars
<1>6. ASSUME NEW w \in Workers, Heartbeat(w) PROVE FlowInv'
  <2>1. beat' \in [Workers -> -1 .. OldBeat]
      BY <1>a, <1>6 DEF FlowInv, FlowTypeOK, Heartbeat
  <2>2. UNCHANGED <<tierVars, queueVars, updateVars>> /\ Watch(FALSE, calm)
      BY <1>6 DEF Heartbeat
  <2> QED
      BY <2>1, <2>2, Watched DEF FlowInv, FlowTypeOK, ClockInv, tierVars, queueVars, updateVars
<1>7. CASE Tick
  <2>1. since' \in 0 .. Cooldown /\ kept' \in 0 .. Cooldown /\ since' = kept'
      BY <1>7, OlderBounded DEF FlowInv, FlowTypeOK, ClockInv, Tick
  <2>2. beat' \in [Workers -> -1 .. OldBeat]
    <3>1. ASSUME NEW w \in Workers PROVE Older(beat[w], OldBeat) \in -1 .. OldBeat
        BY <1>a, OlderBounded DEF FlowInv, FlowTypeOK
    <3>2. -1 \in -1 .. OldBeat
        BY <1>a
    <3> QED
        BY <1>7, <3>1, <3>2 DEF Tick
  <2>3. /\ answered' = (Forced' = Forced /\ answered)
        /\ calm' = (IF Quiet' THEN Older(calm, Cooldown) ELSE 0)
        /\ tier' = tier /\ since' = Older(since, Cooldown)
      BY <1>7 DEF Tick, Watch
  <2>4. AnswerInv'
      BY <2>3 DEF FlowInv, AnswerInv
  <2>5. calm \in 0 .. Cooldown /\ since \in 0 .. Cooldown /\ (tier # NORMAL => calm <= since)
      BY DEF FlowInv, FlowTypeOK, CalmInv
  <2>6. calm' \in 0 .. Cooldown /\ (tier # NORMAL => calm' <= since')
      BY <2>3, <2>5 DEF Older
  <2>7. CalmInv'
      BY <2>3, <2>6 DEF CalmInv
  <2> QED
      BY <1>7, <2>1, <2>2, <2>3, <2>4, <2>6, <2>7
      DEF FlowInv, FlowTypeOK, ClockInv, Tick, queueVars, updateVars
<1>8. CASE UNCHANGED flowVars
  <2>1. Forced' = Forced /\ Quiet' = Quiet
      BY <1>8 DEF flowVars, tierVars, queueVars, updateVars, Forced, Dead, DeadWorker, Registered,
         Quiet
  <2> QED
      BY <1>8, <2>1
      DEF FlowInv, FlowTypeOK, ClockInv, AnswerInv, CalmInv, flowVars, tierVars, queueVars,
          updateVars, watchVars
<1> QED
    BY <1>1, <1>2, <1>3, <1>4, <1>5, <1>6, <1>7, <1>8 DEF FlowNext, UpdatePipelineState

\* Every reachable state satisfies it.
LEMMA FlowInvariant == FlowSpec => []FlowInv
<1>1. FlowInv /\ [FlowNext]_flowVars => FlowInv'
    BY StepFlow
<1> QED
    BY InitFlow, <1>1, PTL DEF FlowSpec

-----------------------------------------------------------------------------
\* The state of the flow control has its type, whatever meetings and workers
\* there are and whatever their clocks and queues do.
THEOREM FlowTypes == FlowSpec => []FlowTypeOK
<1>1. FlowInv => FlowTypeOK
    BY DEF FlowInv
<1> QED
    BY FlowInvariant, <1>1, PTL

\* A step that leaves a tier for a better one, not imposed by the health of
\* the workers, leaves a tier that was kept for the cooldown.
LEMMA Fall ==
  ASSUME FlowInv, [FlowNext]_flowVars, tier' < tier, Forced = NORMAL
  PROVE  kept >= Cooldown
<1>1. PICK m \in Meetings : Evaluate(m)
  <2>1. tier' # tier
      BY DEF FlowInv, FlowTypeOK, Tiers, NORMAL, HIGH_LOAD, CRITICAL_LOAD, EMERGENCY
  <2> QED
      BY <2>1
      DEF FlowNext, UpdatePipelineState, ReadDepths, PublishSegment, Acknowledge,
          TrimMeetingStreams, Heartbeat, Tick, flowVars, tierVars
<1>2. depth[m] \in Nat
    BY <1>1, DegradationAssumption DEF FlowInv, FlowTypeOK
<1>3. PICK d \in Nat : EvaluateQueueDepths(d, NORMAL)
    BY <1>1, <1>2 DEF Evaluate
<1>4. Target(d) \in Tiers /\ tier \in Tiers
    BY CalledFor DEF FlowInv, FlowTypeOK
<1>5. CASE since >= Cooldown
    BY <1>5 DEF FlowInv, ClockInv
<1>6. CASE ~ (since >= Cooldown)
    BY <1>3, <1>4, <1>6
    DEF EvaluateQueueDepths, Raise, Lower, Transition, tierVars, Tiers, NORMAL,
        HIGH_LOAD, CRITICAL_LOAD, EMERGENCY
<1> QED
    BY <1>5, <1>6

\* No thrash: a tier is left for a better one only after it was kept for the
\* cooldown, unless the health of the workers imposes the better one.
THEOREM CooldownKept == FlowSpec => KeptForCooldown
<1>1. FlowInv /\ [FlowNext]_flowVars => [tier' < tier /\ Forced = NORMAL => kept >= Cooldown]_tier
    BY Fall
<1> QED
    BY FlowInvariant, <1>1, PTL DEF FlowSpec, KeptForCooldown

-----------------------------------------------------------------------------
\* An outage is answered by the first update completed in it and stays answered,
\* whatever the other meetings' updates had read.
THEOREM OutagesAnswered == FlowSpec => []OutageAnswered
<1>1. FlowInv => OutageAnswered
    BY DEF FlowInv, AnswerInv, OutageAnswered, Forced, NORMAL, CRITICAL_LOAD, EMERGENCY
<1> QED
    BY FlowInvariant, <1>1, PTL

\* An update is completed by Evaluate only.
LEMMA Completed ==
  ASSUME [FlowNext]_flowVars, NEW m \in Meetings, pc[m] = "read", pc'[m] = "idle", FlowInv
  PROVE  Evaluate(m)
<1>1. pc \in [Meetings -> {"idle", "read"}]
    BY DEF FlowInv, FlowTypeOK
<1>2. pc' # pc
    OBVIOUS
<1>3. PICK n \in Meetings : ReadDepths(n) \/ Evaluate(n)
    BY <1>2
    DEF FlowNext, UpdatePipelineState, PublishSegment, Acknowledge, TrimMeetingStreams,
        Heartbeat, Tick, flowVars, updateVars
<1>4. ~ ReadDepths(n)
    BY <1>1 DEF ReadDepths
<1> QED
    BY <1>1, <1>3, <1>4 DEF Evaluate

\* Once it has been quiet for the cooldown, the first update restores NORMAL.
THEOREM ServiceIsRestored == FlowSpec => ServiceRestored
<1>1. ASSUME FlowInv, [FlowNext]_flowVars, NEW m \in Meetings, calm >= Cooldown,
             pc[m] = "read", pc'[m] = "idle"
      PROVE  tier' = NORMAL
  <2>1. Evaluate(m)
      BY <1>1, Completed
  <2>2. calm \in 0 .. Cooldown /\ since \in 0 .. Cooldown /\ (~ Quiet => calm = 0)
        /\ (tier # NORMAL => calm <= since)
      BY <1>1 DEF FlowInv, FlowTypeOK, CalmInv
  <2>3. Quiet /\ (tier = NORMAL \/ since >= Cooldown)
      BY <1>1, <2>2, DegradationAssumption
  <2> QED
      BY <1>1, <2>1, <2>3, Evaluated
<1>2. FlowInv /\ [FlowNext]_flowVars =>
        [\A m \in Meetings :
           calm >= Cooldown /\ pc[m] = "read" /\ pc'[m] = "idle" => tier' = NORMAL]_flowVars
    BY <1>1
<1> QED
    BY FlowInvariant, <1>2, PTL DEF FlowSpec, ServiceRestored
=============================================================================
