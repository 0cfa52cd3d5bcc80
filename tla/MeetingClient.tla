---------------------------- MODULE MeetingClient ----------------------------
(***************************************************************************)
(* The meeting client SDK (apps/meeting-client/src/index.ts): the sockets  *)
(* connect() makes, with the callbacks each of them keeps for its whole    *)
(* life, the heartbeat and reconnect timers, disconnect(), and the LiveKit *)
(* rooms.  A callback is one action; a socket is external and follows the  *)
(* WebSocket standard: a failed one gets its error and its close event in  *)
(* one task, a closed one gets no more messages.                           *)
(*                                                                         *)
(* Nothing keeps the application from calling connect() while an older     *)
(* socket is open, dialling or still closing, or while a timer waits, or   *)
(* connectLiveKit() while another call awaits: both are free here, and     *)
(* only counted (MaxCalls, MaxRooms).  It may call connect() or            *)
(* disconnect() from its listener for "disconnected" too.                  *)
(***************************************************************************)
EXTENDS Naturals, FiniteSets

CONSTANTS
  Sockets,        \* socket objects; one that has closed may stand for a new one
  None,           \* null
  MaxAttempts,    \* maxReconnectAttempts
  AutoReconnect,  \* autoReconnect
  MaxCalls,       \* bound on the overlapping calls of connect()
  MaxRooms        \* bound on the rooms that exist at once

ASSUME ClientAssumption ==
  /\ None \notin Sockets
  /\ IsFiniteSet(Sockets)
  /\ MaxAttempts \in Nat \ {0}
  /\ AutoReconnect \in BOOLEAN
  /\ MaxCalls \in Nat
  /\ MaxRooms \in Nat

VARIABLES
  phase,      \* [Sockets -> Phases]: "none" before it is made and after onclose
  ws,         \* this.ws
  ping,       \* pingTimer is set
  pending,    \* reconnect timers that have not fired
  handle,     \* reconnectTimer is the handle of one of them
  attempts,   \* reconnectAttempts
  explicit,   \* isExplicitDisconnect
  joining,    \* calls of connectLiveKit that await room.connect
  held,       \* livekitRoom: "none", or a room that is "up" or "down"
  stray,      \* rooms that are joined and that livekitRoom does not name
  calls,      \* history: calls of connect() since there was no socket or timer
  crossed     \* history: since there was no room, connectLiveKit() met another

socketVars == <<phase, ws>>
timerVars  == <<ping, pending, handle, attempts>>
roomVars   == <<joining, held, stray, crossed>>
vars == <<socketVars, timerVars, explicit, roomVars, calls>>

Phases == {"none", "connecting", "open", "closing"}

TypeOK ==
  /\ phase \in [Sockets -> Phases]
  /\ ws \in Sockets \cup {None}
  /\ ping \in BOOLEAN
  /\ pending \in Nat
  /\ handle \in BOOLEAN
  /\ attempts \in 0 .. MaxAttempts
  /\ explicit \in BOOLEAN
  /\ joining \in Nat
  /\ held \in {"none", "up", "down"}
  /\ stray \in Nat
  /\ calls \in Nat
  /\ crossed \in BOOLEAN

Init ==
  /\ phase = [s \in Sockets |-> "none"]
  /\ ws = None
  /\ ping = FALSE
  /\ pending = 0
  /\ handle = FALSE
  /\ attempts = 0
  /\ explicit = FALSE
  /\ joining = 0
  /\ held = "none"
  /\ stray = 0
  /\ calls = 0
  /\ crossed = FALSE

-----------------------------------------------------------------------------
\* isConnected
IsConnected == ws # None /\ phase[ws] = "open"

\* The sockets whose onclose is still to come.
Out == {s \in Sockets : phase[s] # "none"}

\* There is no socket and no timer that could make one.
Idle == pending = 0 /\ Out = {}

\* The application calls connect(); calls is a history, MaxCalls its bound.
Call ==
  /\ calls < MaxCalls \/ Idle
  /\ calls' = IF Idle THEN 1 ELSE calls + 1

\* Mutation of StopHeartbeat: the interval is left running.
LeaveHeartbeat == ping' = ping

StopHeartbeat == ping' = FALSE

StartHeartbeat == ping' = TRUE

\* The body of connect up to its first event: this.ws is overwritten, whatever
\* it was.
OpenSocket ==
  /\ explicit' = FALSE
  /\ \E s \in Sockets :
       /\ phase[s] = "none"
       /\ phase' = [phase EXCEPT ![s] = "connecting"]
       /\ ws' = s

\* The part of disconnect that clears the timer reconnectTimer names.
ClearTimer ==
  /\ pending' = IF handle THEN pending - 1 ELSE pending
  /\ handle' = FALSE

\* The part of disconnect that leaves the room livekitRoom names.
LeaveRoom ==
  /\ held' = "none"
  /\ UNCHANGED <<joining, stray, crossed>>

\* Mutation of ScheduleReconnect: attempts are not counted.
ScheduleUncounted ==
  /\ pending' = IF attempts >= MaxAttempts THEN pending ELSE pending + 1
  /\ handle' = (handle \/ attempts < MaxAttempts)
  /\ attempts' = attempts

\* Mutation of ScheduleReconnect: the limit is compared one too late.
ScheduleOneMore ==
  IF attempts > MaxAttempts
    THEN UNCHANGED <<pending, handle, attempts>>
    ELSE /\ attempts' = attempts + 1
         /\ pending' = pending + 1
         /\ handle' = TRUE

\* scheduleReconnect.  The handle of an older timer is overwritten.
ScheduleReconnect ==
  IF attempts >= MaxAttempts
    THEN UNCHANGED <<pending, handle, attempts>>
    ELSE /\ attempts' = attempts + 1
         /\ pending' = pending + 1
         /\ handle' = TRUE

Reconnect(wanted) ==
  IF wanted /\ AutoReconnect
    THEN ScheduleReconnect
    ELSE UNCHANGED <<pending, handle, attempts>>

-----------------------------------------------------------------------------
\* The application calls connect().
Connect ==
  /\ Call
  /\ OpenSocket
  /\ UNCHANGED <<timerVars, roomVars>>

\* Mutation of TimerFires: the timer is not used up.
TimerRepeats ==
  /\ pending > 0
  /\ OpenSocket
  /\ UNCHANGED <<timerVars, roomVars, calls>>

\* The callback of a reconnect timer: the one reconnectTimer names, or one
\* whose handle was overwritten.
TimerFires ==
  /\ pending > 0
  /\ pending' = pending - 1
  /\ handle' \in {h \in BOOLEAN : h => handle /\ pending > 1}
  /\ OpenSocket
  /\ UNCHANGED <<ping, attempts, roomVars, calls>>

\* onopen: unless this.ws, this socket or another, is open, the JOIN frame
\* cannot be sent and nothing follows it.
SocketOpens(s) ==
  /\ phase[s] = "connecting"
  /\ phase' = [phase EXCEPT ![s] = "open"]
  /\ attempts' = 0
  /\ IF ws # None /\ phase'[ws] = "open" THEN StartHeartbeat ELSE ping' = ping
  /\ UNCHANGED <<ws, pending, handle, explicit, roomVars, calls>>

\* External: the server starts to close a socket.
ServerCloses(s) ==
  /\ phase[s] = "open"
  /\ phase' = [phase EXCEPT ![s] = "closing"]
  /\ UNCHANGED <<ws, timerVars, explicit, roomVars, calls>>

\* Mutation of SocketClosed: whoever closed it, the client reconnects.
ClosedAlwaysRedials(s) ==
  /\ phase[s] # "none"
  /\ phase' = [phase EXCEPT ![s] = "none"]
  /\ ws' = None
  /\ StopHeartbeat
  /\ Reconnect(TRUE)
  /\ UNCHANGED <<explicit, roomVars, calls>>

\* onclose of any socket the client ever made, with the onerror of a failed one
\* before it: it stops the heartbeat and drops this.ws, whichever socket that
\* is.  The listener for "disconnected" may call disconnect(), which finds
\* this.ws null, or connect().
SocketClosed(s) ==
  /\ phase[s] # "none"
  /\ StopHeartbeat
  /\ \/ /\ phase' = [phase EXCEPT ![s] = "none"]
        /\ ws' = None
        /\ Reconnect(~explicit)
        /\ UNCHANGED <<explicit, roomVars, calls>>
     \/ /\ phase' = [phase EXCEPT ![s] = "none"]
        /\ ws' = None
        /\ explicit' = TRUE
        /\ ClearTimer
        /\ LeaveRoom
        /\ UNCHANGED <<attempts, calls>>
     \/ /\ calls < MaxCalls
        /\ calls' = calls + 1
        /\ \E t \in Sockets :
             /\ t = s \/ phase[t] = "none"
             /\ phase' = [phase EXCEPT ![s] = "none", ![t] = "connecting"]
             /\ ws' = t
        /\ explicit' = FALSE
        /\ Reconnect(TRUE)
        /\ UNCHANGED roomVars

\* disconnect
Disconnect ==
  /\ explicit' = TRUE
  /\ StopHeartbeat
  /\ ClearTimer
  /\ phase' = [s \in Sockets |->
                 IF s = ws /\ phase[s] # "none" THEN "closing" ELSE phase[s]]
  /\ ws' = None
  /\ LeaveRoom
  /\ UNCHANGED <<attempts, calls>>

\* Rooms that are joined or being joined.
NoRoom == joining = 0 /\ stray = 0 /\ held # "up"

\* connectLiveKit up to its await, and after it.
ConnectLiveKit ==
  /\ joining + stray + (IF held = "up" THEN 1 ELSE 0) < MaxRooms
  /\ joining' = joining + 1
  /\ crossed' = ~NoRoom
  /\ UNCHANGED <<socketVars, timerVars, explicit, held, stray, calls>>

RoomJoined ==
  /\ joining > 0
  /\ joining' = joining - 1
  /\ stray' = IF held = "up" THEN stray + 1 ELSE stray
  /\ held' = "up"
  /\ UNCHANGED <<socketVars, timerVars, explicit, crossed, calls>>

\* External: a room cannot be joined, or is lost.
RoomLost ==
  /\ \/ joining > 0 /\ joining' = joining - 1 /\ UNCHANGED <<held, stray>>
     \/ held = "up" /\ held' = "down" /\ UNCHANGED <<joining, stray>>
     \/ stray > 0 /\ stray' = stray - 1 /\ UNCHANGED <<joining, held>>
  /\ UNCHANGED <<socketVars, timerVars, explicit, crossed, calls>>

Next ==
  \/ Connect
  \/ TimerFires
  \/ \E s \in Sockets : SocketOpens(s) \/ ServerCloses(s) \/ SocketClosed(s)
  \/ Disconnect
  \/ ConnectLiveKit
  \/ RoomJoined
  \/ RoomLost

Spec == Init /\ [][Next]_vars

\* Timers fire; a socket that connects opens or fails; a closing one closes.
Settles(s) ==
  \/ phase[s] = "connecting" /\ (SocketOpens(s) \/ SocketClosed(s))
  \/ phase[s] = "closing" /\ SocketClosed(s)

Fairness == WF_vars(TimerFires) /\ \A s \in Sockets : WF_vars(Settles(s))

FairSpec == Spec /\ Fairness

-----------------------------------------------------------------------------
\* A socket that is or may still come open.
Live(s) == phase[s] \in {"connecting", "open"}

\* Reconnecting never multiplies connections: however late old sockets close,
\* and whoever's this.ws or timer handle they drop, there are never more
\* sockets and timers than calls of connect().  After one call, the live socket
\* is this.ws, so that isConnected() speaks of the socket that is open.
OneLine ==
  /\ pending + Cardinality(Out) <= calls
  /\ calls <= 1 => \A s \in Sockets : Live(s) => s = ws

\* disconnect() takes back at least one of the connections that were asked for,
\* also if it comes between the close of an old socket, which drops this.ws,
\* and the timer this leads to: after one connect() nothing is left that could
\* dial or open.  A LiveKit room escapes it only when two calls overlapped.
HangUpReachesAll ==
  /\ explicit /\ calls > 0 =>
       pending + Cardinality({s \in Sockets : Live(s)}) < calls
  /\ stray > 0 => crossed

\* While isConnected() holds the heartbeat runs, also after the late close of an
\* older socket, which stops it; and it never runs without a socket.
HeartbeatFollowsSocket ==
  /\ IsConnected => ping
  /\ ping => ws # None

\* A client that is cut off is connected again, or has made all its attempts
\* in a row, or was told to disconnect, or connect() was called beside it: it
\* is never left without a timer, a socket and a verdict.
GivenUp == Idle /\ attempts = MaxAttempts

CutOff ==
  /\ ~explicit /\ calls = 1
  /\ pending > 0 \/ \E s \in Sockets : phase[s] \in {"connecting", "closing"}

NeverInLimbo == CutOff ~> (IsConnected \/ GivenUp \/ explicit \/ calls > 1)

\* The sockets and timers are the lines of Link.
L == INSTANCE Link WITH
       granted <- calls, out <- Cardinality(Out), waiting <- pending, hung <- explicit,
       tries <- attempts, MaxTries <- MaxAttempts, Redials <- AutoReconnect

\* Every step of the client is a step of Link, or changes nothing of it: no
\* overlap of old and new sockets, timers and calls drops or adds a line.
ImplementsLink == L!LinkSpec

-----------------------------------------------------------------------------
\* What overlapping calls break, beside the runs.

\* A socket that is open or dialling is the one the client knows.
OnlyOneSocket == \A s \in Sockets : Live(s) => s = ws

\* disconnect() leaves no timer and no socket that could open.
HangUpReachesEverything == explicit => pending = 0 /\ \A s \in Sockets : ~Live(s)
=============================================================================
