------------------------------- MODULE RoomTabs -------------------------------
(***************************************************************************)
(* The list of participants a meeting tab shows, and the two sources that  *)
(* write it: the frames of the gateway and the messages of the other tabs  *)
(* on a BroadcastChannel (apps/web/src/hooks/useRealtimeGateway.ts, over   *)
(* apps/web/src/stores/useMeetingStore.ts).                                *)
(*                                                                         *)
(* A tab goes by its participant id: leaving for the lobby and going back  *)
(* finds id, ticket and list still in the store.  Of what a message says   *)
(* of a participant a model keeps whether it names them and whether the    *)
(* microphone is on; the camera's flag goes the same ways.                 *)
(*                                                                         *)
(* The gateway is external here: it registers, lists and announces in one  *)
(* step (Gateway has its interleavings).                                   *)
(***************************************************************************)
EXTENDS Naturals, Sequences, FiniteSets

CONSTANTS
  Tabs,        \* participant ids
  MaxToggles,  \* bound: times a microphone is switched
  MaxLeaves,   \* bound: times a tab leaves, or is closed
  MaxDrops     \* bound: sockets that fail or drop

ASSUME TabsAssumption ==
  /\ IsFiniteSet(Tabs)
  /\ {MaxToggles, MaxLeaves, MaxDrops} \subseteq Nat

Links == {l \in Tabs \X Tabs : l[1] # l[2]}

VARIABLES
  up,        \* [Tabs -> BOOLEAN]: isMounted
  closed,    \* tabs that were closed, not left: no cleanup ran
  mic,       \* [Tabs -> BOOLEAN]: ~isMicMuted, as it is
  captured,  \* [Tabs -> BOOLEAN]: ~isMicMuted when the effect ran
  socket,    \* [Tabs -> SocketStates]: wsRef and reconnectTimerRef
  sessions,  \* tabs registered with the gateway
  wire,      \* [Tabs -> Seq(Frames)]: frames on the socket
  chan,      \* [Links -> Seq(Posts)]: posted by the first, for the second
  list,      \* [Tabs -> [Tabs -> Entries or Absent]]: participants
  bounds     \* counters behind the bounds

pageVars == <<up, closed, mic, captured>>
vars == <<pageVars, socket, sessions, wire, chan, list, bounds>>

-----------------------------------------------------------------------------
SocketStates == {"none", "opening", "open", "waiting"}

Entries == [named : BOOLEAN, mic : BOOLEAN]

Absent == [absent |-> TRUE]

Posts == [kind : {"JOINED", "SYNC", "STATUS"}, mic : BOOLEAN] \cup [kind : {"LEFT"}]

Frames ==
  [kind : {"ROOM_STATE"}, tabs : SUBSET Tabs]
    \cup [kind : {"PARTICIPANT_JOINED", "PARTICIPANT_LEFT"}, tab : Tabs]

TypeOK ==
  /\ up \in [Tabs -> BOOLEAN]
  /\ closed \subseteq Tabs
  /\ mic \in [Tabs -> BOOLEAN]
  /\ captured \in [Tabs -> BOOLEAN]
  /\ socket \in [Tabs -> SocketStates]
  /\ sessions \subseteq Tabs
  /\ wire \in [Tabs -> Seq(Frames)]
  /\ chan \in [Links -> Seq(Posts)]
  /\ list \in [Tabs -> [Tabs -> Entries \cup {Absent}]]
  /\ bounds \in [toggles : 0 .. MaxToggles, leaves : 0 .. MaxLeaves, drops : 0 .. MaxDrops]

Init ==
  /\ up = [p \in Tabs |-> FALSE]
  /\ closed = {}
  /\ mic = [p \in Tabs |-> TRUE]
  /\ captured = [p \in Tabs |-> TRUE]
  /\ socket = [p \in Tabs |-> "none"]
  /\ sessions = {}
  /\ wire = [p \in Tabs |-> << >>]
  /\ chan = [l \in Links |-> << >>]
  /\ list = [p \in Tabs |-> [q \in Tabs |-> Absent]]
  /\ bounds = [toggles |-> 0, leaves |-> 0, drops |-> 0]

Spend(c, limit) ==
  /\ bounds[c] < limit
  /\ bounds' = [bounds EXCEPT ![c] = @ + 1]

-----------------------------------------------------------------------------
(* The store *)

\* Mutation of Upsert: what is known of someone wins over what is new.
UpsertKnown(p, q, on) ==
  list' = [list EXCEPT ![p][q] = IF @ = Absent THEN [named |-> TRUE, mic |-> on] ELSE [@ EXCEPT !.mic = on]]

\* upsertParticipant with all there is to know.
Upsert(p, q, on) == list' = [list EXCEPT ![p][q] = [named |-> TRUE, mic |-> on]]

\* upsertParticipant with the flags only: of someone unknown there is no more.
UpsertFlags(p, q, on) ==
  list' = [list EXCEPT ![p][q] = [named |-> (@ # Absent) /\ @.named, mic |-> on]]

\* removeParticipant
Remove(p, q) == list' = [list EXCEPT ![p][q] = Absent]

\* setParticipants: replaces what other tabs had said.  The gateway does not know
\* who is muted and lists everyone, the receiver too, as not muted.
SetParticipants(p, tabs) ==
  list' = [list EXCEPT ![p] = [q \in Tabs |-> IF q \in tabs THEN [named |-> TRUE, mic |-> TRUE]
                                                           ELSE Absent]]

-----------------------------------------------------------------------------
(* Helpers *)

Says(kind, on) == [kind |-> kind, mic |-> on]

\* c with ms posted by p to every other mounted tab.
Posted(c, p, ms) == [l \in Links |-> IF l[1] = p /\ up[l[2]] THEN c[l] \o ms ELSE c[l]]

\* c without what p would have received.
Unheard(c, p) == [l \in Links |-> IF l[2] = p THEN << >> ELSE c[l]]

\* frame is sent to the registered tabs in to.
Sent(to, frame) == [p \in Tabs |-> IF p \in to /\ socket[p] = "open" THEN Append(wire[p], frame)
                                                                    ELSE wire[p]]

-----------------------------------------------------------------------------
(* The page *)

\* The effects run: the channel opens, the tab announces itself, connects, and
\* posts its status.
Mount(p) ==
  /\ ~up[p] /\ p \notin closed
  /\ up' = [up EXCEPT ![p] = TRUE]
  /\ captured' = [captured EXCEPT ![p] = mic[p]]
  /\ chan' = Posted(chan, p, << Says("JOINED", mic[p]), Says("STATUS", mic[p]) >>)
  /\ socket' = [socket EXCEPT ![p] = "opening"]
  /\ UNCHANGED <<closed, mic, sessions, wire, list, bounds>>

\* The interval of 4 s: it posts what was captured.  What the tabs posted before
\* has been heard by then, not what the gateway sent.
Heartbeat(p) ==
  /\ up[p]
  /\ \A l \in Links : chan[l] = << >>
  /\ chan' = Posted(chan, p, << Says("SYNC", captured[p]) >>)
  /\ UNCHANGED <<pageVars, socket, sessions, wire, list, bounds>>

\* The microphone is switched, and the effect on it posts the status.
Toggle(p) ==
  /\ up[p]
  /\ Spend("toggles", MaxToggles)
  /\ mic' = [mic EXCEPT ![p] = ~@]
  /\ chan' = Posted(chan, p, << Says("STATUS", ~mic[p]) >>)
  /\ UNCHANGED <<up, closed, captured, socket, sessions, wire, list>>

\* What ends with the page of p: handlers, channel, socket, timers.
Unmount(p) ==
  /\ up[p]
  /\ Spend("leaves", MaxLeaves)
  /\ up' = [up EXCEPT ![p] = FALSE]
  /\ socket' = [socket EXCEPT ![p] = "none"]
  /\ wire' = [wire EXCEPT ![p] = << >>]

\* Mutation of Leave: the channel is closed before the last message.
LeaveUnsaid(p) ==
  /\ Unmount(p)
  /\ chan' = Unheard(chan, p)
  /\ UNCHANGED <<closed, mic, captured, sessions, list>>

\* The cleanup of the effect.  The store keeps the list.
Leave(p) ==
  /\ Unmount(p)
  /\ chan' = Unheard(Posted(chan, p, << [kind |-> "LEFT"] >>), p)
  /\ UNCHANGED <<closed, mic, captured, sessions, list>>

\* The tab is closed: no cleanup runs, and there is no store any more.
CloseTab(p) ==
  /\ Unmount(p)
  /\ closed' = closed \cup {p}
  /\ chan' = Unheard(chan, p)
  /\ list' = [list EXCEPT ![p] = [q \in Tabs |-> Absent]]
  /\ UNCHANGED <<mic, captured, sessions>>

-----------------------------------------------------------------------------
(* bc.onmessage *)

\* p takes the first message from q, and answers with ms, which every tab hears.
Hears(p, q, kind, ms) ==
  /\ up[p]
  /\ chan[<<q, p>>] # << >>
  /\ Head(chan[<<q, p>>]).kind = kind
  /\ chan' = Posted([chan EXCEPT ![<<q, p>>] = Tail(@)], p, ms)
  /\ UNCHANGED <<pageVars, socket, sessions, wire, bounds>>

HearJoined(p, q) ==
  /\ Hears(p, q, "JOINED", << Says("SYNC", captured[p]) >>)
  /\ Upsert(p, q, Head(chan[<<q, p>>]).mic)

HearSync(p, q) ==
  /\ Hears(p, q, "SYNC", << >>)
  /\ Upsert(p, q, Head(chan[<<q, p>>]).mic)

HearStatus(p, q) ==
  /\ Hears(p, q, "STATUS", << >>)
  /\ UpsertFlags(p, q, Head(chan[<<q, p>>]).mic)

HearLeft(p, q) ==
  /\ Hears(p, q, "LEFT", << >>)
  /\ Remove(p, q)

-----------------------------------------------------------------------------
(* The socket *)

\* onopen, and the gateway's answer to the JOIN frame: it lists everyone to p and
\* announces p.  An earlier session of p has ended by then.
Opens(p) ==
  /\ socket[p] = "opening" /\ p \notin sessions
  /\ socket' = [socket EXCEPT ![p] = "open"]
  /\ sessions' = sessions \cup {p}
  /\ wire' = [Sent(sessions, [kind |-> "PARTICIPANT_JOINED", tab |-> p])
                EXCEPT ![p] = << [kind |-> "ROOM_STATE", tabs |-> sessions'] >>]
  /\ UNCHANGED <<pageVars, chan, list, bounds>>

\* onclose of a socket that failed or dropped: the reconnect timer is set.
Closes(p) ==
  /\ socket[p] \in {"opening", "open"}
  /\ Spend("drops", MaxDrops)
  /\ socket' = [socket EXCEPT ![p] = "waiting"]
  /\ wire' = [wire EXCEPT ![p] = << >>]
  /\ UNCHANGED <<pageVars, sessions, chan, list>>

\* The reconnect timer fires: connect().
Reconnects(p) ==
  /\ socket[p] = "waiting"
  /\ socket' = [socket EXCEPT ![p] = "opening"]
  /\ UNCHANGED <<pageVars, sessions, wire, chan, list, bounds>>

\* External: the gateway notices that the socket of p is gone.
SessionEnds(p) ==
  /\ p \in sessions /\ socket[p] # "open"
  /\ sessions' = sessions \ {p}
  /\ wire' = Sent(sessions \ {p}, [kind |-> "PARTICIPANT_LEFT", tab |-> p])
  /\ UNCHANGED <<pageVars, socket, chan, list, bounds>>

Receives(p, kind) ==
  /\ wire[p] # << >>
  /\ Head(wire[p]).kind = kind
  /\ wire' = [wire EXCEPT ![p] = Tail(@)]
  /\ UNCHANGED <<pageVars, socket, sessions, chan, bounds>>

ReceiveRoomState(p) ==
  /\ Receives(p, "ROOM_STATE")
  /\ SetParticipants(p, Head(wire[p]).tabs)

ReceiveJoined(p) ==
  /\ Receives(p, "PARTICIPANT_JOINED")
  /\ Upsert(p, Head(wire[p]).tab, TRUE)

ReceiveLeft(p) ==
  /\ Receives(p, "PARTICIPANT_LEFT")
  /\ Remove(p, Head(wire[p]).tab)

-----------------------------------------------------------------------------
Hear(p, q) == HearJoined(p, q) \/ HearSync(p, q) \/ HearStatus(p, q) \/ HearLeft(p, q)

Receive(p) == ReceiveRoomState(p) \/ ReceiveJoined(p) \/ ReceiveLeft(p)

Next ==
  \/ \E p \in Tabs : Mount(p) \/ Heartbeat(p) \/ Toggle(p) \/ Leave(p) \/ CloseTab(p)
  \/ \E p \in Tabs : Opens(p) \/ Closes(p) \/ Reconnects(p) \/ SessionEnds(p) \/ Receive(p)
  \/ \E l \in Links : Hear(l[1], l[2])

Spec == Init /\ [][Next]_vars

\* Messages and frames are handled, the timers of mounted pages go on (a message
\* of its own that is under way only delays the interval), the gateway answers
\* and notices.
Fairness ==
  /\ \A l \in Links : WF_vars(Hear(l[1], l[2]))
  /\ \A p \in Tabs : WF_vars(Opens(p)) /\ WF_vars(Reconnects(p)) /\ WF_vars(SessionEnds(p))
                       /\ WF_vars(Receive(p)) /\ SF_vars(Heartbeat(p))

FairSpec == Spec /\ Fairness

-----------------------------------------------------------------------------
\* Of two tabs that stay, each ends up with the other on its list, with a name,
\* whatever the gateway and the tabs said in between: a session that dropped, a
\* ROOM_STATE that left out a tab, flags of someone not on the list.
PresenceHeals ==
  \A l \in Links :
    <>[](up[l[1]] /\ up[l[2]])
      => <>[](list[l[1]][l[2]] # Absent /\ list[l[1]][l[2]].named)

\* "Sync local mic & video state changes to all peers in the room": of two tabs
\* that stay, each ends up showing the microphone of the other as it is.
StatusConverges ==
  \A l \in Links :
    <>[](up[l[1]] /\ up[l[2]])
      => <>[](list[l[1]][l[2]] # Absent => list[l[1]][l[2]].mic = mic[l[2]])

\* A tab that left through the page is on no list once the tab that shows the
\* list is connected and has handled what was sent to it: neither the gateway's
\* list of a moment ago, nor a list kept from an earlier visit, brings it back.
NoGhostTab ==
  \A l \in Links :
    LET q == l[1] p == l[2] IN
    /\ up[q] /\ socket[q] = "open" /\ wire[q] = << >>
    /\ ~up[p] /\ p \notin closed \cup sessions /\ chan[<<p, q>>] = << >>
    => list[q][p] = Absent
=============================================================================
