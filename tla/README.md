# Anvs-AI: TLA+ models, checks and proofs

This directory holds a formal model of the multilingual meeting platform in this
repository: TLA+ modules translated from the source, TLC configurations that
model-check them on small instances, and TLAPS proofs of what matters most for
every instance. `PROJECT.json` maps each definition to the lines it models.

    tlc -workers 2 -config stream_faults.cfg MCStreamPipeline
    tlapm StreamPipelineProofs.tla          (and the other *Proofs modules)

## 1. Inventory of the system

Speech enters through LiveKit, is cut into segments, and travels through worker
fleets over Redis Streams (one stream per meeting and kind of event); captions and
presence reach the browsers through a websocket gateway, translated speech through
LiveKit again. An orchestrator watches the fleets and retries what failed.

| Component | State it keeps | Operations | Interacts with | Hard behaviour | What makes it correct |
|---|---|---|---|---|---|
| **Event bus** `packages/event_schema` | streams, consumer groups with cursor and pending list (PEL), DLQ stream, all in Redis | publish (MAXLEN), create group, group read, ack, claim, send_to_dlq, trim | every worker, the orchestrator | crash between two calls, failing calls with or without effect, trimming, late groups | nothing delivered disappears without a trace; nothing is processed twice |
| **Worker loops** `services/{stt,translation,tts,speaker,assistant}_worker/consumer.py` | the batch being worked on | poll, validate, compute, publish, ack, dead-letter | bus | several workers per group, partial output, strict and lenient payload validation | per-entry outputs once, in order |
| **DLQ retry** `orchestrator/dlq_retry.py`, `main.py` | cursor and PEL of the DLQ group | setup, poll, republish, ack, quarantine | bus; all groups of a stream | add and ack are two calls; budget never carried | every failure retried at most once, accounted for, bounded |
| **Flow control** `orchestrator/{pipeline,backpressure,heartbeat}.py` | tier and time of its last transition, heartbeats | heartbeat, read depths, evaluate | bus lengths, fleets; consulted by workers | shared by all meetings, stale readings, forced tiers | outages answered, no thrash, recovery |
| **Realtime gateway** `realtime_gateway/{server,manager}.py` | sessions per room, state version, frame and chat history; presence set in Redis | join, announce, broadcast, chat, set language, resync, leave | clients; Redis; assistant stream | one coroutine per socket interleaving at awaits, reconnects, dead sockets | every client ends with the right participants; resync without gaps; gone means gone |
| **Stream subscriber** `realtime_gateway/subscriber.py` | read positions | read, route | bus, gateway | not started by any service | – |
| **Meeting client SDK** `apps/meeting-client` | socket, timers, attempts, LiveKit room | connect, reconnect, heartbeat, disconnect | gateway, LiveKit | old socket's callbacks after a new connect, hang-up at any moment | lines never multiply, bounded retries, off means off |
| **Web: gateway hook** `apps/web/src/hooks/useRealtimeGateway.ts`, `stores` | list of participants, socket, channel | mount, post, hear, receive, reconnect, leave | gateway; other tabs over a BroadcastChannel | two sources write one list, captured flags, closed tabs | who is there is listed, who left is not |
| **Web: peer mesh** `apps/web/src/hooks/useLiveKitRoom.ts` | map of RTCPeerConnections, queued candidates, tiles | announce, offer, answer, candidates, leave | other tabs; WebRTC; gives way to the SFU | crossing offers, awaits inside handlers, messages dropped while the SFU is up | tiles of peers that are there; the mesh heals |
| **Web: local media** same hook | flag, track reference and track per device, LiveKit room | toggle, acquire, publish, reconnect, leave | browser, LiveKit | awaits of toggles, effects and rooms overlap | nothing left running, muted is silent, on has a track |
| **Web: joining** `apps/web/src/lib/api.ts`, `app` | credentials in the store, page | start, join, retry, fall back to mocks | meeting API over candidate hosts | lost answers repeated elsewhere, answers before commits | credentials lead to a meeting; seats are accounted for |
| **Audio ingress** `audio_ingress`, `packages/audio` | pipeline per participant, tasks per track, VAD state | ingest, segment, flush, stop | LiveKit, bus | delayed stop against a new track, flush against a publish, id reuse | segments disjoint, in order, every frame of speech accounted for |
| **TTS egress** `tts_worker/egress.py` | room per meeting, track per language | get or create, publish, cleanup | LiveKit | two lock sections with a cleanup in between | a cached track belongs to a live room |
| **Meeting lifecycle** `api/routers/rooms.py`, `api/services/livekit_service.py` | meeting row with status and version, participants | create, join, end, webhooks | database, LiveKit | check-then-act across transactions, two inserts of one meeting | a meeting with participants has been started |
| **Assistant** `assistant_worker` | batch of segments, summaries, memory | add segment, summarise batch, finalise | bus, language model | state changed after an await | every segment in exactly one summary |
| **Rate limiting** `packages/security/rate_limit.py` | bucket per key | check | API | refill at boundaries | never more than capacity plus refill |
| **Voice, speaker, glossary, context** | registries and windows | enrol, match, substitute | bus | consent read before an await | – |
| **Auth, roles, crypto, database, admin, web views, engines, configuration** | – | – | – | sequential, generated or external | – |

`PROJECT.json` lists the components one by one with their status, and every hazard at
its line with the properties that cover it.

## 2. Plan

Modules, in order of what breaks the product when it is wrong. `done` is on disk.

1. `StreamPipeline` (done): one event stream with its groups, workers and DLQ; its
   proofs in `StreamPipelineProofs` (done).
2. `Gateway` (done): one meeting of the realtime gateway and its clients; proofs in
   `GatewayProofs` (done).
3. `Degradation` (done): flow control; proofs in `SpeechFlowProofs` (done).
4. `Link` and `MeetingClient` (done): the SDK's connection and the abstract line it
   implements; proofs in `MeetingClientProofs` (done), the refinement included.
5. `PeerMesh`, `RoomTabs`, `LocalMedia` (done): the web application's hooks; proofs in
   `PeerMeshProofs`, `RoomTabsProofs`, `LocalMediaProofs` (done).
6. `JoinFlow` (done): lobby, API client and the transactions of the meeting API; proofs
   in `JoinFlowProofs` (done).
7. `AudioIngress` (done): tracks, pipelines with chunker and segmenter, stops and the
   cleanup of a room; proofs in `SpeechFlowProofs` (done).
8. `TtsEgress`: rooms, tracks and cleanup.
9. `RateLimit` and the summarizer of the assistant.
10. `EntryLifecycle`: the abstract promise of the bus to a group (an entry is new, taken,
   then settled or lost to trimming), implemented by `StreamPipeline`; and
   `WorkerStages`, which chains STT, NMT and TTS over two streams.

Composition: `MeetingClient` implements `Link` by a refinement mapping; `JoinFlow` composes the
pages, the API client and the API's transactions. To come: `WorkerStages` instantiates the
worker of `StreamPipeline` per stage, fed by `AudioIngress`, with `TtsEgress` at its end; `Gateway` and `RoomTabs` share the frames about participants.

Planned runs, a passing one per module with all its properties, and what they must reach:

| Module | Instance | Must happen in it |
|---|---|---|
| `TtsEgress` | one meeting, two languages, two publishers, one cleanup | the cleanup between the room and the track |
| `RateLimit`, summarizer | two keys, capacity 2; batches of 2, four segments | a refill at the boundary; a segment during a summary |
| `WorkerStages` | one segment with two languages, one worker per stage, one crash | a partial emission that is retried |

Every safety property of a passing run is a theorem (section 6). Theorems worth proving
next: the step simulation of `EntryLifecycle`, the room/track invariant of `TtsEgress`.

## 3. What the modules model

### StreamPipeline

One stream of a meeting (`stream`, `floor`: the entries and where trimming has got to),
its consumer groups (`start`, `cursor`, `pel`; `claimed` and `missed` are history), the workers of
the groups (`pc`, the batch `cur .. last`, `plan` and `sent` for the outputs of the current
entry), what they published (`out`), the DLQ (`dlq`, `dlqCursor`, `dlqPel`) and the retry manager
(`mpc`, `mcur`, `mlast`). One action per Redis call: `Publish`, `Start` (create group),
`Poll`, `Parse`/`Reject`, `Emit`, `Ack`, `DlqPublish`, `DlqAck` for a worker; `DlqPoll`, `Republish`,
`AckRetried`, `Quarantine` for the retry manager; `InitializePipeline`, `RecoverStuck`. `Fail`, `DlqFail`
and `RetryFail` are calls that raise, with or without effect; `Crash` and `OrchestratorCrash`
stop a process between any two calls. The five workers differ in what they publish for a
segment (`Outputs`, several sizes where it depends on data), in whether their group
validates strictly (`Strict`) and in what they cannot process (`Poison`).

Left out: the contents of events; trimming of the DLQ itself (fewer than 10000 failures per
meeting); a batch lost because one entry is not JSON; the minimum idle time of claims;
metrics. `MaxRetries = 0` in a run stands for `ORCHESTRATOR_DLQ_MAX_RETRIES=0`.

`StreamPipelineInv` states the inductive invariant as named parts.

### Gateway

One meeting. `room` is the dict of sessions in insertion order, `version` and `history` the
manager's counter and buffer, `presence` the set in Redis; each connection has its handler (`pc`,
the rest of its broadcast `todo` and `frame`), its socket (`link`) and the client's `view`.
Coroutines run on one event loop, so an action runs from one await that may suspend to
the next: `Connect` (handshake accepted, session registered), `AddPresence`, `Greet` (room state),
`Announce`, `SendNext` (each further recipient of a broadcast), `Chat`, `Leave` (`disconnect` in the
`finally`), `RemovePresence`, `Farewell`. `Drop` is a socket that breaks or is closed. The rooms' lock
guards code without awaits, so it adds nothing to this. The presence actions are those of a
manager that was given a Redis client, as the tests build it; without one they change nothing
another component sees. `log` remembers every recorded frame; `hazy` is history too: the ids for
which a call of Redis failed, or two handlers made theirs at once, since a connection last had
the id to itself.

Left out: language switches and caption routing (they neither record frames nor change who
is present), assistant queries, pings, the message rate limit, rejected handshakes (they end
before any shared state is touched). A handler that gives up because of a bad frame is a
`Drop` followed by `Leave`.

### Degradation

`tier` and `since` are the controller's, `beat` the age of each worker's last heartbeat; `length` is what
Redis holds for the deepest stream of a meeting, `owed` whether a worker has yet to acknowledge
some of it. `update_pipeline_state` is two actions, `ReadDepths` (the awaits) and `Evaluate` (all of
the judgement, with the liveness of that moment); a failing read counts as 0, as in the
code. `PublishSegment` and `TrimMeetingStreams` are what changes the length; `Acknowledge` does not.
Ages are in ticks and saturate one past the last threshold that reads them. A crashed
worker is one that sends no more heartbeats. `kept`, `answered` and `calm` are history: how long the
tier has been the same, whether an update was completed in the outage there is, and how
long there has been nothing to degrade for.

No service calls `update_pipeline_state` or `record_heartbeat`: the daemon's loop (`main.py:42-52`)
evaluates liveness and retries dead letters. So nothing here is said to happen in the end; the
properties say what any sequence of such calls does.

Left out: `should_process_segment` and `should_synthesize_speech` (functions of the tier),
`reset` and `clear` (no caller).

### MeetingClient and Link

`phase` is the state of each socket object with the callbacks it keeps for its whole life; `ws`, `ping`,
`attempts`, `explicit` and `held` (`livekitRoom`) are the fields of the class. `pending` counts the
reconnection timers there are, and `handle` says whether `reconnectTimer` names one of them: a
second one overwrites it. `Connect`, `Disconnect`, `ConnectLiveKit` are calls of the application;
`TimerFires`, `SocketOpens`, `SocketClosed` and `RoomJoined` are callbacks and the continuation of an
await; `ServerCloses` and `RoomLost` are the other side.

`connect()` has no guard (`index.ts:177`), and neither has the action: it may be called while an older
socket is open, dialling or closing, or while a timer waits, from the listener for
"disconnected" too. Every `onclose`, however late, stops the heartbeat, drops `this.ws`, whichever
socket that is by then, and may schedule a reconnection. `calls` is history, the calls of `connect()`
since there was neither socket nor timer; only `MaxCalls` bounds them. Overlapping calls do
lose a live socket (section 5), so the properties say how many there can be: as many as
connections were asked for, and one less after a hang-up. For an application that makes one
call this is one line, and off means off. Likewise rooms: `joining` awaits, `held` is the
one `livekitRoom` names, `stray` those it does not name any more, `crossed` (history) that two calls met.

`Link` is what the application is promised: lines that are dialling, up, closing or waiting
to be redialled, with a count of redials since one was last up; a call grants one, a line that is
lost is redialled within the limit, and none becomes two. `MeetingClient` instantiates it
with `granted <- calls`, `out` and `waiting` the numbers of sockets and of timers; the run checks
`ImplementsLink`, and `Implementation` proves it. `Link` counts lines, not opened sockets, so
a server that accepts and closes at once is dialled for ever under it as well.

Left out: the frames sent for the application and the frames received (`Gateway`
has the latter); heartbeat frames are the timer that sends them.

### PeerMesh

Effect 4 of `useLiveKitRoom.ts`, for every ordered pair of tabs (`Links`): `chan` is what one has
posted for the other, `pc` the connection in the one's map for the other, with the
continuation its handler awaits (`task`), `queued` the candidates that came early, `tile` the
picture on screen. `Join`, `Heartbeat`, `Leave`, `CloseTab` are the tab's; `OnAnnounce`, `OnAck`,
`OnOffer`, `OnAnswer`, `OnIce`, `OnLeaving` are the handlers up to their first await, `PostOffer`,
`Describe`, `PostAnswer` what follows the awaits, `Connected`, `Failed`, `Break` are WebRTC's. A
connection object has a number, so a message can be of an object that was replaced, which
the code cannot see. `Ignore` is a message dropped because the SFU is connected.

The tiles are one map that effect 3 writes too: `RoomConnects` and `TrackSubscribed` put a video of the
LiveKit room into it (`Sfu`), `TrackEnded` deletes the entry, whatever it is, also for a room
that was left (`RoomDisconnects` moves what it has from `shared` to `old`). What the server does is
external: any of these may come at any time while the room, or the memory of it, is there.
`overruled` is history: the picture of a connection was taken away by one of them.

Left out: the media in the streams, replacing tracks on a connection (`replaceTrack`), the
audio elements.

### RoomTabs

`useRealtimeGateway.ts` over the store: `list` is the list of participants of each tab, written by
frames of the gateway (`wire`: `ROOM_STATE`, `PARTICIPANT_JOINED`, `PARTICIPANT_LEFT`) and posts of
other tabs (`chan`: `PEER_JOINED`, `PEER_SYNC`, `PEER_STATUS_UPDATE`, `PEER_LEFT`). `captured` is the
microphone flag in the closure of the effect, which the store may have left behind. The
gateway registers, lists and announces in one step here; `Gateway` has its interleavings.

`PresenceHeals` speaks of the entry and its name: what the entry says of the microphone may be the
captured flag for ever (`tabs_status`, section 5).

Left out: chat, captions, assistant answers and language changes, which append to lists of
their own; the camera's flag, which goes the way of the microphone's.

### LocalMedia

Per device the flag (`on`), the reference (`ref`) and the effect that awaits a track
(`ensuring`); per click of a toggle what it awaits (`click`); per track its state; the room
with what is published to it. `ClickOff`, `ClickOffEarly`, `ClickOn`, `ClickAcquire` are a toggle up to
its first await, `Lower`, `Raise`, `Acquire`, `AcquireFails` what follows; `SetFlag` is a change of the
flag with all three effects that depend on it, the reconnection of the room included.
`denied`, `severed` and `crossed` are history: they say which of the properties' provisos apply.

Left out: screen sharing, voice activity detection and remote tracks. The stand-in track of
a device that is not there counts as a track.

### JoinFlow

`call` is what a tab awaits (which POST, at which candidate host, with which token), `store` the
credentials in `useMeetingStore`, `page` where the tab is; `row` and `seat` are the tables of
meetings and participants, `jobs` the transactions under way. A request arrives once
(`CreateArrives`, `JoinArrives`: the transaction reads) and its transaction ends in `Commit`,
`Conflict`, `JoinEnded` or `RoomUnavailable`; `AnswerEarly` is a server that answers before it commits,
as FastAPI does from version 0.118 on (the project asks for 0.111 or later, so both are
builds it admits). `NoAnswer`, `WrongHost`, `Refused` and `TokenIssued` are the other ends of a
request, with the loop over the candidates (`NextHost`) and the fallbacks to a development
token, a local meeting and mock credentials (`Offline`). `End` is `end_room`, whose caller is not
a page. `given` and `minted` record what users know and what was made up.

Left out: passcodes, `state_version`, names and languages; leaving the page while a request is
awaited otherwise than by a reload; authentication (a token is none, development or real).

### AudioIngress

`task` is the consumer of each subscribed track (an entry of `_active_tasks`), `out` the segment whose
publication it awaits; `pipes` are the pipelines, each with the remainder in its chunker (`buf`),
its clock and the state of its segmenter; `reg` is the dictionary of the service. `Subscribe`,
`Unsubscribe` and `Leave` are the callbacks of the room, `Ingest` is a delivery of LiveKit through chunker,
detector, VAD and segmenter up to the next await, `Publish` and `PublishFails` its two ends. `stops`
counts the `stop_track` calls that are scheduled; `Stop` takes the pipeline and flushes it up to
an await (`flush`, `tail`), `FlushPublishes` and `FlushFails` go on. `Shutdown`, `Disconnected`, `CleanNext`,
`Cleaned` and `Exit` are the end of a room, during which the service's lock keeps stops waiting.
What a cancelled publication sent is in `cut` until it is executed or not (`Settle`). `heard`, `bursts`
and `lost` are history; speech frames are numbered so that the properties can follow them.

A delivery is half a frame (LiveKit's 10 ms against 20 ms), so a flush can find a remainder; it
follows that a task leaves less than a frame in the chunker whenever it awaits. Ready tasks run
in any order here, of which the event loop's order of arrival is one.

Left out: the gate for bots and synthetic tracks (a filter on what is subscribed), joining and
discovering rooms, the simulated mode, language and tenant of a pipeline.

## 4. What the runs check

| Run | Instance | What it shows |
|---|---|---|
| `stream_faults` | lenient STT group with two workers, two segments, retention of 2 entries, at most 3 entries, no retries, one failing call, two outages | `NoSilentLoss`, `LossNeedsOverflow`, `AtMostOncePerEntry`: entries are trimmed under a lagging group and a budget of zero sends the dead letters to quarantine |
| `stream_live` | lenient STT group, one worker, two failures, no outage | `EverySegmentServed`, `DlqDrains`, `PendingSettles`: the DLQ does its work |
| `stream_retry` | two strict groups on a stream, one worker each, the NMT one with two outputs, one retry, one failing call, one outage | `EmissionOrder`, and across the retry manager's own failures `RetriedAtMostOnce`, `DlqAccounted` |
| `gateway_views` | three participants, one connection each | `ViewConverges` in every interleaving of joins and leaves |
| `gateway_sessions` | one participant connecting twice, two chats, history of 2, a Redis failure, a failed greeting | `ResyncGapFree`, `PresenceConverges`, and `Unregistered` (liveness) |
| `tier_flow` | two meetings, an STT and a TTS worker, thresholds 2 and 3, at most 3 entries, one failing read | `FlowTypeOK`, `OutageAnswered`; `KeptForCooldown`, `ServiceRestored` (of steps) |
| `client_line` | three socket objects, reused, three overlapping calls of `connect()`, two rooms, two attempts | `OneLine`, `HangUpReachesAll`, `HeartbeatFollowsSocket`; `NeverInLimbo` (liveness); `ImplementsLink` (refinement) |
| `mesh_two` | two tabs, ten connection objects, one crossing announcement, one leave, two switches of a LiveKit room (it comes and goes), one broken connection, three of these events in all | `NoGhostTile`, `TileIsCurrent`, `CandidateArrives`; `MeshHeals` (liveness) |
| `tabs_presence` | two tabs, one toggle, one leave or closed tab, one dropped socket | `NoGhostTab`; `PresenceHeals` (liveness) |
| `media_toggles` | two devices, four tracks, four clicks, one lost room | `NothingLeaks`, `MutedIsSilent`, `KeptAlive` |
| `join_flow` | two tabs, two meetings, three participants, two hosts, two flows, one lost answer, one failure of LiveKit | `SeatsAccounted`, `SeatedIsStarted`, `AdmittedToAMeeting` |
| `audio_tracks` | one participant with two tracks, nine half frames, the time at the eighth rounded down, two pipelines, one failing publication, a shutdown | `SpeechAccounted`, `SegmentsAdvance`; `PipelineReleased` (liveness) |

Each property of a passing run has a mutant in `PROJECT.json`: a plausible bug in one
definition that makes the property fail under the same configuration.

Bounds. Two segments and three or four entries are enough for a trimmed entry, a retried one
and a fresh one to be on the stream together; two workers are what it takes to compete for
an entry. Three participants are needed for two broadcasts to overtake each other at a
third. The second outage of `stream_faults` lets what was restarted fail
again. `gateway_sessions` has two connections of one id, which is how one handler's calls to
Redis meet another's; a second participant in Redis is independent of it. A history of two frames is
trimmed by the second chat. The ages in `Degradation` are exact
although bounded: no guard tells larger ones apart.

Three sockets are an old one that closes, one that closes later, and their successor, with
a timer besides; three calls let two be lost and one be known. The count of attempts is
checked up to its limit. Two tabs are a pair, and the mesh is one state machine per pair; ten
numbers are more connection objects than can be alive or under way in a run. Two switches are
a room that connects and is lost again, so that a message or a tile of the time between
is missed or late. Four tracks and
clicks let both devices be toggled twice with an acquisition each. In `join_flow` two flows
are what a race takes, and the third participant is the one a repeated POST adds; `TypeOK` of
that module holds for every instance (section 6).

In `audio_tracks` nine half frames are an utterance cut at the maximum, and a second one in the same
pipeline that a flush ends in the middle of a frame; the thresholds are small but ordered as in
the code (padding < minimum < silence < maximum), which is what their interplay depends on. A unit is
two ticks and `Short = {8}`: the time of the eighth half frame is rounded down to a tick less, so that a
silence of whole frames may lack a tick and the partial frame of a flush, which lasts one
more, ends the utterance.

Symmetry and view. `gateway_views` is symmetric in the participants, because each is its own connection, `media_toggles` in tracks and clicks,
`join_flow` in tabs, meetings and participants, `tier_flow` in the meetings, none of which have an order;
these runs check invariants and properties of steps only. The VIEW of `gateway_views` drops versions, `history` and `log`: no action's guard
reads them, and neither does the property. The other runs use neither.

Deadlock checking is off where a bound lets the system come to rest: on segments, entries,
chats, connections, posts, clicks, flows and units.

Fairness. A worker's loop goes on and its pod is started again (`WF(Start)`, `WF(WorkerStep)`);
the orchestrator polls its active meetings (`WF(RetryStep)`); nothing calls
`initialize_meeting_pipeline` in production, so nothing is assumed of it and the liveness properties
speak of meetings that were initialised. `RecoverySpec`, for the run that refutes the
runbook, grants even that. The event loop runs each gateway handler that can go on
(`WF(HandlerStep)`), and sends to a dead socket end by uvicorn's keepalive; clients need not
do anything. `Degradation` states no fairness: nothing in the code calls it periodically.
A reconnection timer fires and a socket that connects or closes gets its event
(`WF`); no server has to accept. In `PeerMesh` messages are delivered in order and handlers go
on (`WF`), while LiveKit rooms need not do anything; ICE ends one way or the other and the interval of a mounted tab ticks (`SF`: both are
driven by clocks, and what disables them for a moment, a message under way, does not stop
the clock). `RoomTabs` is the same, with a gateway that notices closed sockets. In `AudioIngress` tasks that
can go on do and Redis answers, with success or without; nobody has to speak, come or leave.
`LocalMedia` and `JoinFlow` are safety only and state no fairness.

## 5. What the models refute

The following configurations refute their properties and are kept to be run by hand
(`tlc -config X.cfg M`):

| Configuration, module | Property | What the code does |
|---|---|---|
| `stream_retry_budget`, `MCStreamPipeline` | `RetryBudget` | no worker passes `retry_count` on (`bus.py:190`), so a dead letter always starts at zero: a poisoned event is retried for ever (`GA_RELEASE_CERTIFICATION.md:97` and `dlq_retry.py:4` promise quarantine on the fourth failure) |
| `stream_dlq_isolation`, `MCStreamPipeline` | `DlqIsolation` | a retry concerns every group of the stream, and the key `retry_count` that it adds makes strict groups reject it (`bus.py:35` speaks of DLQ isolation) |
| `stream_pel_recovery`, `MCStreamPipeline` | `PendingIsRecovered` | entries of a crashed worker stay pending: workers read `>` only, and what the orchestrator claims it returns to nobody (`disaster-recovery.md:56` says they are claimed automatically) |
| `gateway_evicted`, `MCGateway` | `ActiveIsRegistered` | a reconnecting participant is evicted by the end of its old connection (`manager.py:207`) |
| `gateway_ghost`, `MCGateway` | `CountsConnected` | a client lost while it is greeted stays in the room (`server.py:177`) |
| `gateway_presence`, `MCGateway` | `PresenceAgrees` | the handlers of an old and a new connection of one id each make their calls to Redis outside the lock: the old one's removal may come last, and the set lacks someone who is there until the id connects again (`manager.py:186`, `:217`) |
| `client_overlap`, `MCMeetingClient` | `OnlyOneSocket`, `HangUpReachesEverything` | `connect()` overwrites `this.ws` and `reconnectTimer`, and the `onclose` of an old socket nulls the reference to the new one (`index.ts:234`): after overlapping calls `disconnect()` leaves a live socket or a timer behind |
| `mesh_tile`, `MCPeerMesh` | `TileReturns` | a late unsubscription of a LiveKit room that was left deletes the tile of an established connection (`useLiveKitRoom.ts:408`), and nothing puts it back |
| `tier_caught_up`, `MCDegradation` | `CaughtUpRecovers` | even if something updated every meeting for ever: queue depth counts processed entries, so a meeting with 100 events is degraded for good (`pipeline.py:121`) |
| `tabs_status`, `MCRoomTabs` | `StatusConverges` | posts carry the microphone flag captured when the effect ran: a heartbeat after a toggle undoes it on the other tabs (`useRealtimeGateway.ts:366`) |
| `media_independent`, `MCLocalMedia` | `IndependentOfRoom` | the flags are dependencies of the room's effect (`useLiveKitRoom.ts:451`): a toggle disconnects the room, which then stops the very track that was published to it |
| `audio_ids`, `MCAudioIngress` | `SegmentIdsUnique` | a segment is named after its participant and a time that starts at zero in every pipeline: after a stop the names come again (`ingestion.py:187`; `source_segment.py:40` makes them unique) |
| `audio_numbers`, `MCAudioIngress` | `NumbersAdvance` | times are rounded down to milliseconds (`framing.py:113`, `:130`), so the partial frame of a flush can end an utterance whose silence lacked one, and that segment is published without being counted (`ingestion.py:159`): two segments of a pipeline bear one number (`events.py:36`, "Monotonic sequence number within stream") |
| `audio_bursts`, `MCAudioIngress` | `BurstsRejected` | padding and trailing silence count towards the minimum duration, and the 400 ms of silence alone exceed its 250 ms (`vad.py:234`; `test_vad.py:119` tests a silence of 100 ms) |
| `audio_deaf`, `MCAudioIngress` | `TracksAreRead` | one failed publication ends the consumer of a track for as long as it stays subscribed (`subscriber.py:226`) |
| `join_early`, `MCJoinFlow` | `SeatBehindCredentials` | where answers precede commits, the join after a creation, or a repeated join, inserts the meeting a second time, and a user with credentials is no participant (`page.tsx:167` speaks of genuine credentials) |

Met while modelling and not in a run: a broadcast awaits each send, so a client can see state
versions go back, and a resync from the higher version then misses the lower frame; the
tier falls from EMERGENCY to CRITICAL without cooldown when TTS alone remains silent; a silent
TTS fleet is declared DEAD after twice the 3 s that the release certification names. A
`PEER_STATUS_UPDATE` of a participant who is not listed adds an entry without a name, which the
tiles read; the store is not reset when a meeting is left; a client whose ticket has expired
redials every 3 s for ever. `request` lets the error of the last candidate decide, so an API that
answered 500 at one host and was unreachable at the next counts as offline, and credentials
are mock ones; a join that read `SCHEDULED` makes a meeting ACTIVE that was ended meanwhile.
Clicks on a toggle that overlap each other, or the end of the page, leave a track running.
`disconnect()` during the await of `connectLiveKit` finds no room, which is joined afterwards
(`index.ts:288`). A segment that a flush cannot number because it is the first of its pipeline
makes the flush raise (`number 0` is no sequence number), and its speech is lost.

## 6. What is proved

`StreamPipelineProofs` proves, for any groups, workers, segments, retention and number of
failures:

- `TypeCorrect`: `Spec => []TypeOK`;
- `NothingLostSilently`: `Spec => []NoSilentLoss`;
- `PublishedOnce`: `Spec => []AtMostOncePerEntry`;
- `LossIsOverflow`: `Spec => []LossNeedsOverflow`;
- `PublishedInOrder`: `Spec => []EmissionOrder`;
- `RetriedOnce`: `Spec => []RetriedAtMostOnce`;
- `DeadLettersAccounted`: `Spec => []DlqAccounted`.

Assumptions: those of `StreamPipeline` on its constants (named there), which TLC evaluates
in every run.

Argument. `NoSilentLoss` is not inductive: an entry leaves the PEL by an ack, and why that is
right is in the state of the worker that sends it. `Basics` first proves `TypeOK` with the
frame of the bus (`CursorInv`: cursors lie between start and the end of the stream, PELs
below the cursor; `BatchInv`: what a worker holds was delivered to its group; `RetryInv`: the
same for the retry manager). On top of it the invariant says that a worker about to ack has
published all it planned or dead-lettered the entry (`ProgressStep`, `PendingStep`,
`DeliveryStep`), and that traces never disappear (`TracesStay`, `SettledStays`).
`AtMostOncePerEntry` needs that two workers of a group never hold the same entry
(`DisjointStep`: a read starts above the group's cursor), that a worker's outputs so far
are 1 .. sent (`OutInvStep`), and that the next output is therefore fresh (`EmitFresh`).
`LossNeedsOverflow` rests on where trimming has got to (`RetentionInv`: `floor` is a whole
retention behind the end of the stream). `EmissionOrder` needs that the batch of a worker
alone in its group ends at the group's cursor (`SoleInv`): whatever was published before is
then of an earlier entry, or an earlier output of this one. The two statements about the retry
manager rest on `CopyInv` (of the batch it holds, nothing is on the stream but the
entry it is about to acknowledge) and `AckInv` (that one is): a crash or a call that failed with
effect between `xadd` and the acknowledgement leaves the entry pending in a batch that nobody reads
again, which is why it is not copied twice.

`GatewayProofs` proves, for any participants, connections and history:

- `TypeCorrect`: `Spec => []TypeOK`, with no further hypothesis: reconnections, failing calls to
  Redis and failing sends included. Part of it is that no participant has two sessions.
- `ViewsConverge`: `OncePerParticipant => (Spec => []ViewConverges)`;
- `PresenceIsRight`: `Spec => []PresenceConverges`, without a hypothesis: reconnections and failing calls included;
- `ResyncLeavesNoGap`: `Spec => []ResyncGapFree`, again without a hypothesis, for any limit of the history.

`OncePerParticipant` (`Pid` is injective) is the situation of `gateway_views`, and it is needed: with a
second connection under an id the end of the first one pops the session of the second
(`gateway_evicted`), which then is in nobody's room. Argument: `ViewConverges` speaks of quiet states only; what is
inductive is, for each pair of connections (`KnownInv(c, d)`), that c has d listed once d's arrival was sent
to c, and not once its leaving was, where "sent to c" means that c is no longer in what d's broadcast has
left (`todo`). A frame changes only what is known of its own participant (`ApplyParts`), every
client that has had its room state is a recipient because it is registered, and
the room state lists exactly those registered. `RoomInv` and `LinkInv` tie registration and sockets to
where the handler is. `SenderCasts` gives the four actions that send one shape, `CastStep` and `MoveStep` are
the two kinds of step.

`PresenceConverges` cannot say that the set is right whenever nothing is under way (`gateway_presence`); it says
that an id whose last connection found no other handler in touch with Redis, and no failing call since, has
its entry as the rooms have. The invariant (`IdInv`) is per id outside `hazy`: at most one handler is in touch, where
it is says what the set must hold (`Told`, "absent"), and without one the set and the room agree.

`ResyncGapFree` compares what a client is answered, a selection from `history`, with the same selection
from `log`, all that was ever recorded. The invariant is `HistoryInv`: the history is the end of the log, not empty once
anything was recorded, and versions neither fall along the log nor exceed the counter; a version the code
does not refuse is then no older than what was trimmed. That selections from a sequence and from its end then agree (`NewerOfTail`) is a fact about a
recursive function. `Induction` makes it provable here: it states induction over the naturals for a
set instead of a predicate, and follows from the library's facts on finite sets.

`SpeechFlowProofs` is about the two ends of the pipeline, which share no state.

Of `AudioIngress` it proves, for any tracks, owners, pipelines, failures, thresholds, and any set `Short` of
times that are rounded down:

- `IngressTypes`: `Spec => []TypeOK`;
- `SegmentsInOrder`: `Spec => []SegmentsAdvance`;
- `SpeechIsAccounted`: `Spec => []SpeechAccounted`.

Assumption: `IngressAssumption`, of which the proofs use that padding and a frame are shorter than the
longest utterance, as they are in `vad.py` (200 and 20 ms against 15000), and that a unit is
more than a tick, so that rounded times still grow (`StampGrows`). Argument: every step either turns one
pipeline (`Turn`: samples come, and its utterance goes on, becomes a segment, becomes a burst, is
lost, or was none) or moves segments on (`Moves`); `StepShape` shows it action by action. Where it is needed
that the pipeline was fit to be turned, it is registered, hence its participant's own, not being flushed
(`RegInv`) and `Sound` (`PipeInv`): its utterance begins before it ends, and ends by its clock. A flush whose partial frame
ended the utterance has nothing more to flush, since the segmenter is clear; so the number it
repeats is on the last segment of that pipeline. `SegInv` adds to
`SegmentsAdvance` that a segment is from its pipeline's past, before the utterance under way.
`SpeechAccounted` is a sum of six cardinalities; the invariant (`HomeInv`) says that exactly one of the six sets is a
singleton and the others are empty. A step takes the frames of one segment from one set to another; it needs that
consumers and flushes which turn a pipeline publish nothing yet, that a new frame is nowhere (`HeardInv`), and
that a burst, numbered 0, is never a segment in flight.

Of `Degradation` it proves `FlowTypes`, `CooldownKept` (`KeptForCooldown`), `OutagesAnswered` (`OutageAnswered`) and
`ServiceIsRestored` (`ServiceRestored`), for any meetings, workers and thresholds. The inductive invariant has
three parts. `since = kept`: the controller starts its clock over with every change of the tier, so the
clock it consults never runs ahead of the time the tier was kept. `AnswerInv`: a tier that answered the
outage is the one it forces. `CalmInv`: it has not been quiet for longer than a tier other than NORMAL
has stood; so when it was quiet for the cooldown, the next update may lower the tier, and finds
nothing to keep it up.

`MeetingClientProofs` proves, for any finite set of sockets, any limit, any number of overlapping calls and both
settings of `autoReconnect`: `TypeCorrect`, `OneLineAlways`, `HangUpIsFinal`, `HeartbeatInStep`, and
`Implementation`, that `Spec` implements `Link`. Besides the properties the inductive invariant says that
`disconnect()` reaches something, the live `this.ws` or the timer of the handle, as long as every
call still counts (`Reached`): the close of a socket that drops the reference to a live one has
used up a call. It also ties the handle to a timer (`HandleIsTimer`), says that a client that hung up
has dropped both references (`HungUp`), and that rooms meet only when calls did (`RoomsCrossed`). The counts are cardinalities
of sets of sockets; lemmas say what one more or one less does to them.

`JoinFlowProofs` proves `TypeCorrect`, `StartedOnceSeated` and `AdmittedAlways`, for any tabs,
meetings, participants and hosts and for both orders of answer and commit. The strengthening:
a page waits for at most one transaction, the one its request has reached (`OneWaits`), a
transaction that saw an active meeting finds it active or ended (`ActiveStays`), one that has
answered can only commit or conflict (`AnsweredGoesOn`), and behind the credentials of a tab is
the meeting or such a transaction (`AllBacked`). Lemmas are by kind of step: a page that steps
without a transaction (`QuietInv`) or stops waiting for one (`AbandonInv`), a request that arrives
(`ArrivalInv`), a transaction that fails (`ResolveInv`), commits or answers early.

`SeatsAreAccounted`, `Spec => []SeatsAccounted`, bounds a cardinality, so it is proved by what one step adds:
`BehindStays` says that nobody is added to the participants no user has (`Behind`), but for one of them
when an answer is lost, which is counted; an answer, an early answer and a conflict take the participant
to a user or out of the database.

`LocalMediaProofs` proves `TypeCorrect`, `TracksAreStopped` (`NothingLeaks`), `MutedIsNotHeard`
(`MutedIsSilent`) and `TracksAreKept` (`KeptAlive`) for any devices, tracks, clicks and lost rooms. The
invariant drops the proviso that nothing is awaited: a device has at most one click or effect
under way unless clicks crossed, and what acquires a track does not replace a usable one
(`OneAtATime`); so a running track is the device's own at every moment (`OwnTracks`). Only devices
whose flag is raised are published (`RoomInv`), and a raised device has its live track at every moment
but where an effect awaits one or a click that will lower the flag has muted it (`LiveOf`).

`PeerMeshProofs` proves `TypeCorrect`, `NoGhosts` (`NoGhostTile`), `TilesAreCurrent` (`TileIsCurrent`) and
`CandidatesArrive` (`CandidateArrives`) for any number of tabs and connection objects. The invariant is
one per ordered pair, `LinkInv`: what a departed peer has still to say ends in its `LEAVING`
(`LeavingIsLast`), a described connection is the one on screen unless a handler of the LiveKit room took it away
(`TileInv`), a task says whether a
description is being set (`TaskInv`), and the candidate of a description is known, queued or
behind it on the channel (`CandidateInv`, while no SFU makes tabs drop messages).

`RoomTabsProofs` proves `TypeCorrect` and `LeftIsUnlisted` (`NoGhostTab`) for any number of tabs. A list is
written by the gateway's frames and by posts of the tabs. The invariant says of a tab without a session that
every frame under way that lists it is followed by one that does not (`WireInv`), of a tab that
left that its last post says so (`LeftIsLast`), and that one of the two is on its way while it is still
listed (`ListInv`).

Assumptions of these modules: the named `ASSUME`s of the modules they are about, which TLC evaluates.

Only model-checked is every liveness property: `EverySegmentServed`, `DlqDrains`, `PendingSettles`, `Unregistered`,
`NeverInLimbo`, `MeshHeals`, `PresenceHeals` and `PipelineReleased`. Fairness and ENABLED are out of the prover's reach.

`TypeOK` of `Gateway`, `PeerMesh`, `RoomTabs`, `LocalMedia`, `JoinFlow` and `AudioIngress` is proved and not among the
properties of the runs.

## 7. Not modelled

- **Stream subscriber of the gateway**: no service starts it.
- **TTS egress, assistant, rate limiting, voice cloning, glossary and context**: planned (section 2), nothing
  in their way but time; their hazards are in `PROJECT.json`.
- **Signal processing, inference engines**: numerical code and models; where the rest depends on what
  they decide, the modules choose (`Kinds`, `Outputs`, `Poison`).
- **Authentication, security helpers, contracts, configuration, admin**: sequential code without state of
  its own between requests; tokens appear in `JoinFlow` as what they are good for.
- **Database**: the ORM's models; what transactions read and write is in `JoinFlow`.
- **Views and audio routing of the web application**: rendering. `apps/web/.next` is the output of a build,
  bundled libraries for the most part, and stands for no code of its own.
