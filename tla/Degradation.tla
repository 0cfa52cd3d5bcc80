----------------------------- MODULE Degradation -----------------------------
(***************************************************************************)
(* Flow control of the pipeline: worker heartbeats (orchestrator/          *)
(* heartbeat.py), the backpressure controller all meetings share           *)
(* (backpressure.py) and PipelineOrchestrator.update_pipeline_state        *)
(* (pipeline.py), which reads the queue depths of a meeting from Redis,    *)
(* and judges them, with the liveness of the workers, when the answers are *)
(* there.  Clocks are kept as ages in ticks, each up to the largest value  *)
(* the code can tell from a larger one.                                    *)
(*                                                                         *)
(* The daemon (main.py) calls evaluate_liveness and polls the DLQ, never   *)
(* update_pipeline_state: when that runs, and how often, is left to the    *)
(* caller, so the actions have no fairness and the properties are about    *)
(* what an update that does run may do.                                    *)
(***************************************************************************)
EXTENDS Integers

CONSTANTS
  Meetings,      \* meetings whose state the orchestrator updates
  Workers,       \* worker instances
  TypeOf,        \* [Workers -> WorkerTypes]
  Timeout,       \* WorkerHealthMonitor.timeout_sec
  Cooldown,      \* BackpressureController.cooldown_sec
  High,          \* high_threshold
  Critical,      \* critical_threshold
  MaxLength,     \* entries the deepest stream of a meeting retains
  MaxReadErrors  \* bound of the model: failing reads of a stream's length

WorkerTypes == {"stt", "nmt", "tts"}

ASSUME DegradationAssumption ==
  /\ TypeOf \in [Workers -> WorkerTypes]
  /\ Timeout \in Nat \ {0}
  /\ Cooldown \in Nat \ {0}
  /\ High \in Nat \ {0}
  /\ Critical \in Nat
  /\ High <= Critical
  /\ MaxLength \in Nat
  /\ MaxReadErrors \in Nat

VARIABLES
  tier,       \* _current_tier, as its severity
  since,      \* ticks since _last_transition_time
  kept,       \* ticks since the tier last changed (history)
  beat,       \* [Workers -> age]: ticks since last_seen, -1 before the first
  length,     \* [Meetings -> Nat]: entries the meeting's deepest stream holds
  owed,       \* [Meetings -> BOOLEAN]: a worker has yet to acknowledge one of them
  pc,         \* [Meetings -> {"idle", "read"}]: where update_pipeline_state is
  depth,      \* [Meetings -> Nat]: the queue depth it has read
  readErrors, \* counter behind the bound
  answered,   \* history: an update has been completed under this Forced
  calm        \* history: ticks since there was any load or outage to answer

tierVars   == <<tier, since, kept>>
queueVars  == <<length, owed>>
updateVars == <<pc, depth, readErrors>>
watchVars  == <<answered, calm>>
flowVars == <<tierVars, beat, queueVars, updateVars, watchVars>>

-----------------------------------------------------------------------------
\* TIER_SEVERITY
NORMAL == 0
HIGH_LOAD == 1
CRITICAL_LOAD == 2
EMERGENCY == 3

\* Ages past which neither threshold, nor the cooldown, tells the difference.
OldBeat == 2 * Timeout + 1

Older(age, bound) == IF age < bound THEN age + 1 ELSE age

Registered == {w \in Workers : beat[w] >= 0}

\* evaluate_liveness, get_aggregate_health_by_type: a type is DEAD when every
\* registered worker of it is, and at least one is registered.
DeadWorker(w) == beat[w] > 2 * Timeout

Dead(t) ==
  LET fleet == {w \in Registered : TypeOf[w] = t} IN
  fleet # {} /\ \A w \in fleet : DeadWorker(w)

\* update_pipeline_state: the tier that worker health imposes, or NORMAL.
Forced ==
  IF Dead("stt") \/ Dead("nmt") THEN EMERGENCY
  ELSE IF Dead("tts") THEN CRITICAL_LOAD ELSE NORMAL

\* evaluate_queue_depths: the tier that a depth calls for.
Target(d) ==
  IF d >= Critical THEN CRITICAL_LOAD ELSE IF d >= High THEN HIGH_LOAD ELSE NORMAL

Transition(t) ==
  /\ tier' = t
  /\ since' = 0
  /\ kept' = 0

\* Mutation of Raise: the cooldown is not started over.
RaiseQuietly(t) == tier' = t /\ kept' = 0 /\ UNCHANGED since

Raise(t) == Transition(t)

\* Mutation of Lower: finding the cooldown not over starts it over.
LowerRestarting(t) ==
  IF since >= Cooldown THEN Transition(t) ELSE since' = 0 /\ UNCHANGED <<tier, kept>>

Lower(t) ==
  IF since >= Cooldown THEN Transition(t) ELSE UNCHANGED tierVars

\* Mutation of EvaluateQueueDepths: a better tier that worker health imposes
\* waits for the cooldown too.
ForcedAfterCooldown(d, force) ==
  LET t == IF force # NORMAL THEN force ELSE Target(d) IN
  \/ t > tier /\ Raise(t)
  \/ t < tier /\ Lower(t)
  \/ t = tier /\ UNCHANGED tierVars

\* evaluate_queue_depths: worker health overrides the depths; a worse tier is
\* entered at once, a better one after the cooldown.
EvaluateQueueDepths(d, force) ==
  IF force # NORMAL
  THEN IF tier # force THEN Transition(force) ELSE UNCHANGED tierVars
  ELSE \/ Target(d) > tier /\ Raise(Target(d))
       \/ Target(d) < tier /\ Lower(Target(d))
       \/ Target(d) = tier /\ UNCHANGED tierVars

\* No worker type is dead, no stream deep, and no deep reading on its way.
Quiet ==
  /\ Forced = NORMAL
  /\ \A m \in Meetings : length[m] < High /\ depth[m] < High

\* The histories: judged says whether an update is completed, age how long it
\* has been quiet if it still is.
Watch(judged, age) ==
  /\ answered' = (Forced' = Forced /\ (answered \/ judged))
  /\ calm' = IF Quiet' THEN age ELSE 0

-----------------------------------------------------------------------------
\* Mutation of ReadDepths: what is delivered and pending is counted once more.
ReadPendingTwice(m) ==
  /\ pc[m] = "idle"
  /\ depth' = [depth EXCEPT ![m] = IF owed[m] THEN length[m] + 1 ELSE length[m]]
  /\ pc' = [pc EXCEPT ![m] = "read"]
  /\ UNCHANGED <<tierVars, beat, queueVars, readErrors>>
  /\ Watch(FALSE, calm)

\* get_stream_depths: XLEN of the meeting's streams; a failing read counts 0.
ReadDepths(m) ==
  /\ pc[m] = "idle"
  /\ \/ depth' = [depth EXCEPT ![m] = length[m]] /\ UNCHANGED readErrors
     \/ /\ readErrors < MaxReadErrors
        /\ readErrors' = readErrors + 1
        /\ depth' = [depth EXCEPT ![m] = 0]
  /\ pc' = [pc EXCEPT ![m] = "read"]
  /\ UNCHANGED <<tierVars, beat, queueVars>>
  /\ Watch(FALSE, calm)

\* The rest of update_pipeline_state, with the depths read before.
Evaluate(m) ==
  /\ pc[m] = "read"
  /\ EvaluateQueueDepths(depth[m], Forced)
  /\ pc' = [pc EXCEPT ![m] = "idle"]
  /\ depth' = [depth EXCEPT ![m] = 0]
  /\ UNCHANGED <<beat, queueVars, readErrors>>
  /\ Watch(TRUE, calm)

\* record_heartbeat.  A worker that has crashed is one that sends no more.
Heartbeat(w) ==
  /\ beat' = [beat EXCEPT ![w] = 0]
  /\ UNCHANGED <<tierVars, queueVars, updateVars>>
  /\ Watch(FALSE, calm)

\* Time passes.
Tick ==
  /\ since' = Older(since, Cooldown)
  /\ kept' = Older(kept, Cooldown)
  /\ beat' = [w \in Workers |-> IF w \in Registered THEN Older(beat[w], OldBeat) ELSE -1]
  /\ UNCHANGED <<tier, queueVars, updateVars>>
  /\ Watch(FALSE, Older(calm, Cooldown))

\* A segment is published: the stream is trimmed to MaxLength entries.
PublishSegment(m) ==
  /\ length' = [length EXCEPT ![m] = Older(@, MaxLength)]
  /\ owed' = [owed EXCEPT ![m] = TRUE]
  /\ UNCHANGED <<tierVars, beat, updateVars>>
  /\ Watch(FALSE, calm)

\* A worker acknowledges a segment, perhaps the last one it owes; XACK leaves the
\* entry in the stream.
Acknowledge(m) ==
  /\ owed[m]
  /\ \E more \in BOOLEAN : owed' = [owed EXCEPT ![m] = more]
  /\ UNCHANGED <<tierVars, beat, length, updateVars>>
  /\ Watch(FALSE, calm)

\* trim_meeting_streams: XTRIM to max_len entries or, since it is approximate, to
\* more; the entries that go are the oldest, acknowledged or not.
TrimMeetingStreams(m) ==
  /\ \E n \in 1 .. length[m], o \in {owed[m], FALSE} :
       /\ length' = [length EXCEPT ![m] = n]
       /\ owed' = [owed EXCEPT ![m] = o]
  /\ UNCHANGED <<tierVars, beat, updateVars>>
  /\ Watch(FALSE, calm)

-----------------------------------------------------------------------------
FlowInit ==
  /\ tier = NORMAL
  /\ since = 0
  /\ kept = 0
  /\ beat = [w \in Workers |-> -1]
  /\ length = [m \in Meetings |-> 0]
  /\ owed = [m \in Meetings |-> FALSE]
  /\ pc = [m \in Meetings |-> "idle"]
  /\ depth = [m \in Meetings |-> 0]
  /\ readErrors = 0
  /\ answered = FALSE
  /\ calm = 0

UpdatePipelineState(m) == ReadDepths(m) \/ Evaluate(m)

FlowNext ==
  \/ \E m \in Meetings :
       \/ UpdatePipelineState(m)
       \/ PublishSegment(m)
       \/ Acknowledge(m)
       \/ TrimMeetingStreams(m)
  \/ \E w \in Workers : Heartbeat(w)
  \/ Tick

FlowSpec == FlowInit /\ [][FlowNext]_flowVars

-----------------------------------------------------------------------------
(***************************************************************************)
(* Properties                                                              *)
(***************************************************************************)
Tiers == {NORMAL, HIGH_LOAD, CRITICAL_LOAD, EMERGENCY}

\* The values the state of the flow control ranges over; the transition clock
\* of the controller agrees with the history of its tier.
FlowTypeOK ==
  /\ tier \in Tiers
  /\ since \in 0 .. Cooldown
  /\ kept \in 0 .. Cooldown
  /\ beat \in [Workers -> -1 .. OldBeat]
  /\ length \in [Meetings -> 0 .. MaxLength]
  /\ owed \in [Meetings -> BOOLEAN]
  /\ pc \in [Meetings -> {"idle", "read"}]
  /\ depth \in [Meetings -> 0 .. MaxLength]
  /\ readErrors \in 0 .. MaxReadErrors
  /\ answered \in BOOLEAN
  /\ calm \in 0 .. Cooldown

\* No thrash: whatever the meetings that share the controller report, and
\* however old it is, a tier the fleet's health does not impose is left for a
\* better one only after it was kept for the cooldown.
KeptForCooldown == [][tier' < tier /\ Forced = NORMAL => kept >= Cooldown]_tier

\* An outage is answered by the first update that completes in it, and the answer
\* stands: without speech recognition or translation the pipeline passes the
\* original audio through, without speech synthesis it shows captions only,
\* whatever the updates of the other meetings read before it began, and without
\* waiting for a cooldown when a worse outage ends in a lesser one.
OutageAnswered ==
  answered =>
    /\ Dead("stt") \/ Dead("nmt") => tier = EMERGENCY
    /\ Dead("tts") /\ ~ Dead("stt") /\ ~ Dead("nmt") => tier = CRITICAL_LOAD

\* Once it has been quiet for the cooldown, the first update that completes
\* brings NORMAL back, also after an outage, and however many updates of the
\* meetings that share the controller found the cooldown not over before.
ServiceRestored ==
  [][\A m \in Meetings :
       calm >= Cooldown /\ pc[m] = "read" /\ pc'[m] = "idle" => tier' = NORMAL]_flowVars

\* pipeline.py:115, "current message queue length": with the workers alive and
\* nothing left for them to do the pipeline goes back to NORMAL.
CaughtUpRecovers ==
  <>[](Forced = NORMAL /\ \A m \in Meetings : ~ owed[m]) => []<>(tier = NORMAL)
=============================================================================
