------------------------------- MODULE Gateway -------------------------------
(***************************************************************************)
(* The realtime gateway (services/realtime_gateway) for one meeting: the   *)
(* websocket handlers of server.py, the ConnectionManager they share       *)
(* (manager.py) and the participants map each client keeps                 *)
(* (apps/meeting-client/src/index.ts, handleIncomingMessage).              *)
(*                                                                         *)
(* Every connection is served by a coroutine of its own.  They run on one  *)
(* event loop, so a step is what a coroutine does from one await that may  *)
(* suspend to the next: a Redis call, or a send to a client whose socket   *)
(* is not draining.  A frame reaches a client in the order the sends to    *)
(* its socket are started.                                                 *)
(***************************************************************************)
EXTENDS Integers, Sequences, FiniteSets, SequencesExt

CONSTANTS
  Participants,   \* participant ids of the meeting
  Conns,          \* websocket connections, each of them opened at most once
  Pid,            \* [Conns -> Participants]: the id a connection joins with
  MaxHistory,     \* ConnectionManager._max_history_per_room
  MaxChats,       \* bound of the model: chat messages
  MaxRedisErrors, \* bound of the model: failing Redis calls
  MaxSendErrors   \* bound of the model: sends of the room state that raise

ASSUME GatewayAssumption ==
  /\ Pid \in [Conns -> Participants]
  /\ MaxHistory \in Nat \ {0}
  /\ MaxChats \in Nat
  /\ MaxRedisErrors \in Nat
  /\ MaxSendErrors \in Nat

VARIABLES
  room,       \* _rooms[meeting]: the registered connections, in dict order
  version,    \* _room_state_versions[meeting]
  history,    \* _room_history[meeting]
  log,        \* every frame ever put into history, in order (history)
  presence,   \* the set presence:meeting:<id> in Redis
  hazy,       \* ids whose Redis calls failed, or were made by two handlers at
              \* once, since a handler last had the id to itself (history)
  pc,         \* [Conns -> ...]: where the handler of a connection is
  todo,       \* [Conns -> Seq(Conns)]: recipients its broadcast has left
  frame,      \* [Conns -> Frame]: the frame it is broadcasting
  link,       \* [Conns -> {"new", "open", "closed"}]: the socket
  view,       \* [Conns -> [ver, parts]]: what the client at its end believes
  chats, redisErrors, sendErrors   \* counters behind the bounds

frameVars  == <<version, history, log>>
serverVars == <<room, presence, pc, todo, frame>>
errorVars  == <<redisErrors, sendErrors>>
vars == <<frameVars, serverVars, hazy, link, view, chats, errorVars>>

-----------------------------------------------------------------------------
Kinds == {"ROOM_STATE", "JOINED", "LEFT", "CHAT", "CAPTION"}

\* A frame with its state_version; who are the participants it is about.
Frame == [kind : Kinds, ver : Nat, who : SUBSET Participants]
View  == [ver : Nat, parts : SUBSET Participants]

NoFrame == [kind |-> "CAPTION", ver |-> 0, who |-> {}]

Registered == {room[i] : i \in DOMAIN room}
Present    == {Pid[c] : c \in Registered}

\* Mutation of Register: a second session of a participant is kept beside
\* the first.
RegisterBeside(c) == room' = Append(room, c)

\* rooms[meeting][participant] = session: the entry keeps its place in the dict.
Register(c) ==
  room' = IF Pid[c] \in Present
          THEN [i \in DOMAIN room |-> IF Pid[room[i]] = Pid[c] THEN c ELSE room[i]]
          ELSE Append(room, c)

\* The dict's entries but that of p.
Others(p) ==
  IF p \in Present
  THEN RemoveAt(room, CHOOSE i \in DOMAIN room : Pid[room[i]] = p)
  ELSE room

\* handleIncomingMessage: what a frame does to the client's view.
Apply(v, f) ==
  CASE f.kind = "ROOM_STATE" -> [ver |-> f.ver, parts |-> f.who]
    [] f.kind = "JOINED"     -> [ver |-> f.ver, parts |-> v.parts \cup f.who]
    [] f.kind = "LEFT"       -> [ver |-> f.ver, parts |-> v.parts \ f.who]
    [] OTHER                 -> v

\* A send: the frame arrives unless the socket is closed, in which case the
\* error, if there is one, is caught and logged.
Receive(c, f) ==
  view' = IF link[c] = "open" THEN [view EXCEPT ![c] = Apply(@, f)] ELSE view

\* record_frame keeps the last MaxHistory frames.
Keep(h) == SubSeq(h, IF Len(h) > MaxHistory THEN Len(h) - MaxHistory + 1 ELSE 1, Len(h))

Record(f) ==
  /\ history' = Keep(Append(history, f))
  /\ log' = Append(log, f)

\* Where a handler goes on after a broadcast.
After == [announcing |-> "loop", chatting |-> "loop", leaving |-> "done"]

\* Mutation of Send: a failing send ends the broadcast.
SendStops(c, f, to, state) ==
  LET rest == IF to = << >> \/ link[Head(to)] = "closed" THEN << >> ELSE Tail(to) IN
  /\ IF to = << >> THEN view' = view ELSE Receive(Head(to), f)
  /\ todo' = [todo EXCEPT ![c] = rest]
  /\ frame' = [frame EXCEPT ![c] = IF rest = << >> THEN NoFrame ELSE f]
  /\ pc' = [pc EXCEPT ![c] = IF rest = << >> THEN After[state] ELSE state]

\* The loop of broadcast_to_meeting: the send to the next recipient, after
\* which the coroutine may be suspended.
Send(c, f, to, state) ==
  LET rest == IF to = << >> THEN << >> ELSE Tail(to) IN
  /\ IF to = << >> THEN view' = view ELSE Receive(Head(to), f)
  /\ todo' = [todo EXCEPT ![c] = rest]
  /\ frame' = [frame EXCEPT ![c] = IF rest = << >> THEN NoFrame ELSE f]
  /\ pc' = [pc EXCEPT ![c] = IF rest = << >> THEN After[state] ELSE state]

-----------------------------------------------------------------------------
(***************************************************************************)
(* The handler of a connection                                             *)
(***************************************************************************)

\* A handler that has still to tell Redis that its participant is there or gone.
InTouch(c) ==
  pc[c] \in {"presence", "greet", "announce", "announcing", "loop", "chatting", "absent"}

\* The client opens a socket, when it has no other, and its JOIN frame passes
\* the handshake; ConnectionManager.connect registers the session.
Connect(c) ==
  /\ link[c] = "new"
  /\ \A d \in Conns : Pid[d] = Pid[c] => link[d] # "open"
  /\ link' = [link EXCEPT ![c] = "open"]
  /\ Register(c)
  /\ pc' = [pc EXCEPT ![c] = "presence"]
  /\ hazy' = IF \E d \in Conns : Pid[d] = Pid[c] /\ InTouch(d)
             THEN hazy \cup {Pid[c]} ELSE hazy \ {Pid[c]}
  /\ UNCHANGED <<frameVars, presence, todo, frame, view, chats, errorVars>>

\* A Redis call that makes p the presence set, about id: an error is caught, with
\* or without effect.
SetPresence(p, id) ==
  \/ presence' = p /\ UNCHANGED <<hazy, redisErrors>>
  \/ /\ redisErrors < MaxRedisErrors
     /\ redisErrors' = redisErrors + 1
     /\ presence' \in {p, presence}
     /\ hazy' = hazy \cup {id}

AddPresence(c) ==
  /\ pc[c] = "presence"
  /\ SetPresence(presence \cup {Pid[c]}, Pid[c])
  /\ pc' = [pc EXCEPT ![c] = "greet"]
  /\ UNCHANGED <<frameVars, room, todo, frame, link, view, chats, sendErrors>>

\* The room state is recorded and sent to the new client.  An exception here
\* is outside the try whose finally unregisters the session.
Greet(c) ==
  LET f == [kind |-> "ROOM_STATE", ver |-> version + 1, who |-> Present] IN
  /\ pc[c] = "greet"
  /\ version' = version + 1
  /\ Record(f)
  /\ Receive(c, f)
  /\ \/ pc' = [pc EXCEPT ![c] = "announce"] /\ UNCHANGED sendErrors
     \/ /\ link[c] = "closed"
        /\ sendErrors < MaxSendErrors
        /\ sendErrors' = sendErrors + 1
        /\ pc' = [pc EXCEPT ![c] = "failed"]
  /\ UNCHANGED <<room, presence, hazy, todo, frame, link, chats, redisErrors>>

\* broadcast_to_meeting: an empty room gets and records nothing.
Broadcast(c, f, to, state) ==
  /\ IF room = << >> THEN UNCHANGED <<history, log>> ELSE Record(f)
  /\ Send(c, f, to, state)

Announce(c) ==
  LET f == [kind |-> "JOINED", ver |-> version + 1, who |-> {Pid[c]}] IN
  /\ pc[c] = "announce"
  /\ version' = version + 1
  /\ Broadcast(c, f, Others(Pid[c]), "announcing")
  /\ UNCHANGED <<room, presence, hazy, link, chats, errorVars>>

SendNext(c) ==
  /\ pc[c] \in DOMAIN After
  /\ Send(c, frame[c], todo[c], pc[c])
  /\ UNCHANGED <<frameVars, room, presence, hazy, link, chats, errorVars>>

\* A CHAT_MESSAGE: record_chat_message buffers it under a new version, without
\* trimming, then the caption made of it is broadcast to the whole room and
\* recorded under the same version.
Chat(c) ==
  LET message == [kind |-> "CHAT", ver |-> version + 1, who |-> {Pid[c]}]
      caption == [message EXCEPT !.kind = "CAPTION"]
      frames  == IF room = << >> THEN <<message>> ELSE <<message, caption>>
  IN /\ pc[c] = "loop"
     /\ link[c] = "open"
     /\ chats < MaxChats
     /\ chats' = chats + 1
     /\ version' = version + 1
     /\ log' = log \o frames
     /\ history' = IF room = << >> THEN history \o frames ELSE Keep(history \o frames)
     /\ Send(c, caption, room, "chatting")
     /\ UNCHANGED <<room, presence, hazy, link, errorVars>>

\* The client closes the socket, the network breaks, or the handler is about
\* to close it for a frame it cannot accept.
Drop(c) ==
  /\ link[c] = "open"
  /\ link' = [link EXCEPT ![c] = "closed"]
  /\ UNCHANGED <<frameVars, serverVars, hazy, view, chats, errorVars>>

\* Mutation of Leave: the presence set in Redis is not cleaned up.
LeavePresent(c) ==
  /\ pc[c] = "loop"
  /\ link[c] = "closed"
  /\ room' = Others(Pid[c])
  /\ pc' = [pc EXCEPT ![c] = "farewell"]
  /\ UNCHANGED <<frameVars, presence, hazy, todo, frame, link, view, chats, errorVars>>

\* Mutation of Leave: only the session of another connection is popped.
LeaveOther(c) ==
  /\ pc[c] = "loop"
  /\ link[c] = "closed"
  /\ room' = IF c \in Registered THEN room ELSE Others(Pid[c])
  /\ pc' = [pc EXCEPT ![c] = IF Pid[c] \in Present THEN "absent" ELSE "farewell"]
  /\ UNCHANGED <<frameVars, presence, hazy, todo, frame, link, view, chats, errorVars>>

\* The message loop ends, and the finally clause begins: disconnect pops the
\* session the participant has now, whichever connection it belongs to.
Leave(c) ==
  /\ pc[c] = "loop"
  /\ link[c] = "closed"
  /\ room' = Others(Pid[c])
  /\ pc' = [pc EXCEPT ![c] = IF Pid[c] \in Present THEN "absent" ELSE "farewell"]
  /\ UNCHANGED <<frameVars, presence, hazy, todo, frame, link, view, chats, errorVars>>

RemovePresence(c) ==
  /\ pc[c] = "absent"
  /\ SetPresence(presence \ {Pid[c]}, Pid[c])
  /\ pc' = [pc EXCEPT ![c] = "farewell"]
  /\ UNCHANGED <<frameVars, room, todo, frame, link, view, chats, sendErrors>>

\* PARTICIPANT_LEFT takes a version even when nobody is left to be told.
Farewell(c) ==
  LET f == [kind |-> "LEFT", ver |-> version + 1, who |-> {Pid[c]}] IN
  /\ pc[c] = "farewell"
  /\ version' = version + 1
  /\ Broadcast(c, f, room, "leaving")
  /\ UNCHANGED <<room, presence, hazy, link, chats, errorVars>>

-----------------------------------------------------------------------------
Init ==
  /\ room = << >>
  /\ version = 0
  /\ history = << >>
  /\ log = << >>
  /\ presence = {}
  /\ hazy = {}
  /\ pc = [c \in Conns |-> "new"]
  /\ todo = [c \in Conns |-> << >>]
  /\ frame = [c \in Conns |-> NoFrame]
  /\ link = [c \in Conns |-> "new"]
  /\ view = [c \in Conns |-> [ver |-> 0, parts |-> {}]]
  /\ chats = 0
  /\ redisErrors = 0
  /\ sendErrors = 0

\* What a handler does by itself once its connection is up.
HandlerStep(c) ==
  \/ AddPresence(c)
  \/ Greet(c)
  \/ Announce(c)
  \/ SendNext(c)
  \/ Leave(c)
  \/ RemovePresence(c)
  \/ Farewell(c)

Next ==
  \E c \in Conns : Connect(c) \/ HandlerStep(c) \/ Chat(c) \/ Drop(c)

Spec == Init /\ [][Next]_vars

\* The event loop runs every coroutine that can go on, Redis calls and sends
\* return or raise, and uvicorn's keepalive finds sockets that are gone.
Fairness == \A c \in Conns : WF_vars(HandlerStep(c))

FairSpec == Spec /\ Fairness

-----------------------------------------------------------------------------
(***************************************************************************)
(* Properties                                                              *)
(***************************************************************************)
HandlerStates ==
  {"new", "presence", "greet", "announce", "announcing", "loop", "chatting",
   "absent", "farewell", "leaving", "done", "failed"}

\* The values the state of the gateway and of its clients ranges over; at most
\* one session is registered per participant.
TypeOK ==
  /\ room \in Seq(Conns)
  /\ \A i, j \in DOMAIN room : Pid[room[i]] = Pid[room[j]] => i = j
  /\ version \in Nat
  /\ history \in Seq(Frame)
  /\ log \in Seq(Frame)
  /\ presence \subseteq Participants
  /\ hazy \subseteq Participants
  /\ pc \in [Conns -> HandlerStates]
  /\ todo \in [Conns -> Seq(Conns)]
  /\ frame \in [Conns -> Frame]
  /\ link \in [Conns -> {"new", "open", "closed"}]
  /\ view \in [Conns -> View]
  /\ chats \in 0 .. MaxChats
  /\ redisErrors \in 0 .. MaxRedisErrors
  /\ sendErrors \in 0 .. MaxSendErrors

\* Mutation of SnapshotRequired: the frame before the oldest is taken to be
\* the only one a client can lack.
SnapshotRequiredLate(v) ==
  v = 0 \/ (history # << >> /\ v + 1 < history[1].ver)

\* get_missed_frames: the answer to a RESYNC from version v.
SnapshotRequired(v) ==
  v = 0 \/ (history # << >> /\ v < history[1].ver)

\* The frames of a sequence that are newer than a version, in their order.
Newer(frames, v) ==
  LET newer[n \in 0 .. Len(frames)] ==
        IF n = 0 THEN << >>
        ELSE IF frames[n].ver > v THEN Append(newer[n - 1], frames[n]) ELSE newer[n - 1]
  IN  newer[Len(frames)]

Missed(v) == Newer(history, v)

\* A RESYNC leaves no gap: unless the client is told to take a snapshot, it is
\* answered with every frame ever recorded after its version, although frames
\* are trimmed, several frames share a version, and versions are taken by
\* frames nobody records.
ResyncGapFree ==
  \A v \in 0 .. version :
    ~ SnapshotRequired(v) => Missed(v) = Newer(log, v)

\* All joins and leaves have been seen through.
Quiet ==
  \A c \in Conns :
    \/ pc[c] \in {"new", "done"}
    \/ pc[c] = "loop" /\ link[c] = "open"

\* Once the gateway is quiet, every client has the participants right,
\* however the room state of its own join and the broadcasts of the joins and
\* leaves of others overlapped.
ViewConverges ==
  Quiet => \A c \in Conns : pc[c] = "loop" => view[c].parts = Present

\* The joins and leaves of p have been seen through.
Settled(p) ==
  \A c \in Conns : Pid[c] = p =>
    \/ pc[c] \in {"new", "done", "failed"}
    \/ pc[c] = "loop" /\ link[c] = "open"

\* Once the connections of a participant are settled, the presence set in Redis
\* has that participant as the rooms have, also after reconnections.  Handlers of
\* one id that overlapped can make their calls in the wrong order, and a call can
\* fail: the next connection that has the id to itself repairs that.
PresenceConverges ==
  \A p \in Participants \ hazy : Settled(p) => (p \in presence <=> p \in Present)

\* Beside the runs, refuted (gateway_presence.cfg): it repairs itself when the
\* handlers of a participant that reconnected are through.
PresenceAgrees == Quiet => presence = Present

\* A connection that is gone is unregistered and its handler ends, also when
\* the participant has reconnected meanwhile; the one exception is a handler
\* that failed to greet its client.
Unregistered ==
  \A c \in Conns :
    link[c] = "closed"
      ~> (pc[c] = "failed" \/ (pc[c] = "done" /\ c \notin Registered))

\* manager.py:235, "the count of connected participants in a meeting": a
\* session whose socket is closed does not stay in the room.
CountsConnected ==
  \A c \in Conns : (c \in Registered /\ link[c] = "closed") ~> c \notin Registered

\* manager.py:231, "all active client sessions for a given meeting": a client
\* in its message loop is among them.
ActiveIsRegistered ==
  \A c \in Conns : pc[c] = "loop" /\ link[c] = "open" => c \in Registered
=============================================================================
