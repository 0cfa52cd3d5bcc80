------------------------------- MODULE PeerMesh -------------------------------
(***************************************************************************)
(* The peer-to-peer mesh the tabs of a meeting fall back to while the      *)
(* LiveKit server is offline (apps/web/src/hooks/useLiveKitRoom.ts, effect *)
(* 4).  Tabs find one another with announcements on a BroadcastChannel,    *)
(* the one with the greater id offers, and each keeps a map from remote    *)
(* peer to RTCPeerConnection.                                              *)
(*                                                                         *)
(* A connection object has a number, which stands for the credentials its  *)
(* descriptions and candidates carry: an answer or a candidate fits only   *)
(* the object it was made for, but nothing in a message says which that    *)
(* is.  An action is one message handler or one continuation after an      *)
(* await that posts; the calls between them run on the object's own queue. *)
(* The browser's side of a connection (ICE, connectionState) is external,  *)
(* and so is the LiveKit server.  The handlers of a LiveKit room (effect 3)*)
(* write and delete the entries of the same map of tiles; what a room that *)
(* was left has to unsubscribe is reported after its successor's start.    *)
(***************************************************************************)
EXTENDS Integers, Sequences, FiniteSets

CONSTANTS
  Peers,        \* participant ids, ordered: participantId > remotePeerId
  Numbers,      \* numbers of connection objects; a forgotten one is reused
  MaxCrossings, \* bound: announcements made before earlier messages are done
  MaxLeaves,    \* bound: leaves, closed tabs
  MaxSwitches,  \* bound: times a tab's LiveKit room connects or disconnects
  MaxBreaks,    \* bound: established connections that break
  MaxTroubles   \* bound: all of these together

ASSUME MeshAssumption ==
  /\ Peers \subseteq Nat
  /\ IsFiniteSet(Peers)
  /\ Numbers \subseteq Nat \ {0}
  /\ {MaxCrossings, MaxLeaves, MaxSwitches, MaxBreaks, MaxTroubles} \subseteq Nat

Links == {l \in Peers \X Peers : l[1] # l[2]}

VARIABLES
  up,       \* [Peers -> BOOLEAN]: the effect is mounted
  gone,     \* peers whose tab was closed: no cleanup ran
  sfu,      \* [Peers -> BOOLEAN]: roomRef.current.state is "connected"
  shared,   \* links whose first has the second's video in its LiveKit room
  old,      \* links whose unsubscription a room that was left has to report
  chan,     \* [Links -> Seq(Messages)]: posted by the first, for the second
  pc,       \* [Links -> connection or NoPc]: pcs of the first, for the second
  queued,   \* [Links -> SUBSET Numbers]: pendingCandidates
  tile,     \* [Links -> Numbers, 0 or Sfu]: remoteVideoTracks, by its source
  overruled,\* links whose P2P picture a LiveKit handler took away (history)
  missed,   \* links whose PEER_LEAVING was ignored, or never sent (history)
  bounds    \* counters behind the bounds

roomVars == <<sfu, shared, old>>
tileVars == <<tile, overruled>>
meshVars == <<pc, queued, tileVars>>
vars == <<up, gone, roomVars, chan, meshVars, missed, bounds>>

-----------------------------------------------------------------------------
NoPc == [number |-> 0]

\* A tile with a track of the LiveKit room.
Sfu == -1

Connections ==
  [number : Numbers,
   task   : {"none", "offer", "accept", "answer", "settle"}, \* a continuation awaited
   next   : Numbers \cup {0},                             \* whose description is being set
   local  : BOOLEAN,                                      \* localDescription is set
   remote : Numbers \cup {0},                             \* whose remoteDescription
   heard  : BOOLEAN,                                      \* a candidate of it is known
   state  : {"new", "connecting", "connected", "failed"}] \* connectionState

Messages ==
  [kind : {"ANNOUNCE", "ACK", "LEAVING"}]
    \cup [kind : {"OFFER", "ANSWER", "ICE"}, number : Numbers]

TypeOK ==
  /\ up \in [Peers -> BOOLEAN]
  /\ gone \subseteq Peers
  /\ sfu \in [Peers -> BOOLEAN]
  /\ shared \subseteq Links
  /\ old \subseteq Links
  /\ chan \in [Links -> Seq(Messages)]
  /\ pc \in [Links -> Connections \cup {NoPc}]
  /\ queued \in [Links -> SUBSET Numbers]
  /\ tile \in [Links -> Numbers \cup {0, Sfu}]
  /\ overruled \subseteq Links
  /\ missed \subseteq Links
  /\ bounds \in [crossings : 0 .. MaxCrossings, leaves : 0 .. MaxLeaves,
                 switches : 0 .. MaxSwitches, breaks : 0 .. MaxBreaks]

Init ==
  /\ up = [p \in Peers |-> FALSE]
  /\ gone = {}
  /\ sfu = [p \in Peers |-> FALSE]
  /\ shared = {}
  /\ old = {}
  /\ chan = [l \in Links |-> << >>]
  /\ pc = [l \in Links |-> NoPc]
  /\ queued = [l \in Links |-> {}]
  /\ tile = [l \in Links |-> 0]
  /\ overruled = {}
  /\ missed = {}
  /\ bounds = [crossings |-> 0, leaves |-> 0, switches |-> 0, breaks |-> 0]

Spend(c, limit) ==
  /\ bounds[c] < limit
  /\ bounds.crossings + bounds.leaves + bounds.switches + bounds.breaks < MaxTroubles
  /\ bounds' = [bounds EXCEPT ![c] = @ + 1]

-----------------------------------------------------------------------------
(* Helpers *)

Back(l) == <<l[2], l[1]>>

\* Numbers that something still refers to.
InUse ==
  {pc[l].number : l \in Links}
    \cup (UNION {{m.number : m \in {chan[l][i] : i \in {j \in 1 .. Len(chan[l]) :
                               chan[l][j].kind \in {"OFFER", "ANSWER", "ICE"}}}} : l \in Links})
    \cup (UNION {queued[l] : l \in Links})
    \cup {tile[l] : l \in Links}
    \cup (UNION {{pc[l].remote, pc[l].next} : l \in {k \in Links : pc[k] # NoPc}})

\* Bound: an object can be made while a number is free.
Free == Numbers \ InUse # {}

Fresh == CHOOSE n \in Numbers : n \notin InUse

NewConnection(task) ==
  [number |-> Fresh, task |-> task, next |-> 0, local |-> FALSE, remote |-> 0, heard |-> FALSE, state |-> "new"]

\* What p posts reaches every other mounted tab's channel, in order.
Posted(p, m) == [l \in Links |-> IF l[1] = p /\ up[l[2]] THEN Append(chan[l], m) ELSE chan[l]]

\* p handles, and takes, the first message from q, and posts ms to q.
Taken(p, q, ms) ==
  [chan EXCEPT ![<<q, p>>] = Tail(@),
               ![<<p, q>>] = IF up[q] THEN @ \o ms ELSE @]

Incoming(p, q, kind) ==
  /\ up[p]
  /\ chan[<<q, p>>] # << >>
  /\ Head(chan[<<q, p>>]).kind = kind
  /\ ~sfu[p]

\* NoPc has no state.
In(c, states) == IF c = NoPc THEN FALSE ELSE c.state \in states

\* Mutation of Engaged: an object that has failed counts as well.
EngagedAtAll(c) == c # NoPc

Engaged(c) == In(c, {"connected", "connecting"})

Established(c) == In(c, {"connected"})

\* The two objects hold each other's descriptions, and one of them knows how to
\* reach the other.
Matched(l) ==
  LET c == pc[l] d == pc[Back(l)] IN
  /\ c # NoPc /\ d # NoPc
  /\ c.local /\ d.local
  /\ c.remote = d.number /\ d.remote = c.number
  /\ c.heard \/ d.heard

-----------------------------------------------------------------------------
(* Mounting, heartbeat, unmounting *)

Still(l) == chan[l] = << >> /\ (pc[l] # NoPc => pc[l].task = "none")

Quiet == \A l \in Links : Still(l)

\* The effect mounts: the channel opens and the tab announces itself.
Join(p) ==
  /\ ~up[p] /\ p \notin gone
  /\ up' = [up EXCEPT ![p] = TRUE]
  /\ chan' = Posted(p, [kind |-> "ANNOUNCE"])
  /\ UNCHANGED <<gone, roomVars, meshVars, missed, bounds>>

\* The interval of 4 s: an announcement normally finds the last one dealt with,
\* and crosses messages that are under way MaxCrossings times.
Heartbeat(p) ==
  /\ up[p]
  /\ IF Quiet THEN UNCHANGED bounds ELSE Spend("crossings", MaxCrossings)
  /\ chan' = Posted(p, [kind |-> "ANNOUNCE"])
  /\ UNCHANGED <<up, gone, roomVars, meshVars, missed>>

From(p) == {l \in Links : l[1] = p}

\* The page of p goes, and with it its room, channel, connections and pictures.
Forget(p) ==
  /\ up' = [up EXCEPT ![p] = FALSE]
  /\ sfu' = [sfu EXCEPT ![p] = FALSE]
  /\ shared' = shared \ From(p)
  /\ old' = old \ From(p)
  /\ tile' = [l \in Links |-> IF l[1] = p THEN 0 ELSE tile[l]]
  /\ overruled' = overruled \ From(p)
  /\ pc' = [l \in Links |-> IF l[1] = p THEN NoPc ELSE pc[l]]
  /\ queued' = [l \in Links |-> IF l[1] = p THEN {} ELSE queued[l]]

Unheard(c, p) == [l \in Links |-> IF l[2] = p THEN << >> ELSE c[l]]

\* The cleanup of the effect.
Leave(p) ==
  /\ up[p]
  /\ Spend("leaves", MaxLeaves)
  /\ chan' = Unheard(Posted(p, [kind |-> "LEAVING"]), p)
  /\ Forget(p)
  /\ UNCHANGED <<gone, missed>>

\* The tab is closed: no cleanup of an effect runs.
CloseTab(p) ==
  /\ up[p]
  /\ Spend("leaves", MaxLeaves)
  /\ gone' = gone \cup {p}
  /\ chan' = Unheard(chan, p)
  /\ Forget(p)
  /\ missed' = missed \cup {l \in Links : l[2] = p}

-----------------------------------------------------------------------------
(* The LiveKit room of a tab: what the server does is external. *)

\* The entries of K are now e: a picture of a connection may be among the last.
Overrule(K, e) ==
  /\ tile' = [l \in Links |-> IF l \in K THEN e ELSE tile[l]]
  /\ overruled' = overruled \cup {l \in K : tile[l] \in Numbers}

\* Connected: the video that the room has already goes on screen.
RoomConnects(p) ==
  /\ up[p] /\ ~sfu[p]
  /\ Spend("switches", MaxSwitches)
  /\ sfu' = [sfu EXCEPT ![p] = TRUE]
  /\ \E K \in SUBSET From(p) : Overrule(K, Sfu) /\ shared' = shared \cup K
  /\ UNCHANGED <<up, gone, old, chan, pc, queued, missed>>

\* The connection is lost, or effect 3 runs again and leaves the room.
RoomDisconnects(p) ==
  /\ up[p] /\ sfu[p]
  /\ Spend("switches", MaxSwitches)
  /\ sfu' = [sfu EXCEPT ![p] = FALSE]
  /\ shared' = shared \ From(p)
  /\ old' = old \cup (shared \cap From(p))
  /\ UNCHANGED <<up, gone, chan, meshVars, missed>>

\* TrackSubscribed, of video.
TrackSubscribed(p, q) ==
  /\ up[p] /\ sfu[p]
  /\ shared' = shared \cup {<<p, q>>}
  /\ Overrule({<<p, q>>}, Sfu)
  /\ UNCHANGED <<up, gone, sfu, old, chan, pc, queued, missed, bounds>>

\* TrackUnsubscribed, of video, or ParticipantDisconnected: from the room that is
\* connected, or late from one that was left.
TrackEnded(p, q) ==
  LET l == <<p, q>> IN
  /\ up[p]
  /\ \/ sfu[p] /\ shared' = shared \ {l} /\ old' = old
     \/ l \in old /\ old' = old \ {l} /\ shared' = shared
  /\ Overrule({l}, 0)
  /\ UNCHANGED <<up, gone, sfu, chan, pc, queued, missed, bounds>>

-----------------------------------------------------------------------------
(* onmessage *)

\* With the LiveKit room connected every message is dropped.
Ignore(p, q) ==
  /\ up[p] /\ sfu[p]
  /\ chan[<<q, p>>] # << >>
  /\ missed' = IF Head(chan[<<q, p>>]).kind = "LEAVING" THEN missed \cup {<<p, q>>} ELSE missed
  /\ chan' = Taken(p, q, << >>)
  /\ UNCHANGED <<up, gone, roomVars, meshVars, bounds>>

\* setupPeerConnection(q, true): whatever there is is closed and replaced.
OfferTo(p, q) ==
  /\ Free
  /\ pc' = [pc EXCEPT ![<<p, q>>] = NewConnection("offer")]

\* PEER_ANNOUNCE
OnAnnounce(p, q) ==
  /\ Incoming(p, q, "ANNOUNCE")
  /\ \/ /\ Engaged(pc[<<p, q>>])
        /\ chan' = Taken(p, q, << >>)
        /\ UNCHANGED pc
     \/ /\ ~Engaged(pc[<<p, q>>]) /\ p > q
        /\ chan' = Taken(p, q, << >>)
        /\ OfferTo(p, q)
     \/ /\ ~Engaged(pc[<<p, q>>]) /\ p < q
        /\ chan' = Taken(p, q, << [kind |-> "ACK"] >>)
        /\ UNCHANGED pc
  /\ UNCHANGED <<up, gone, roomVars, queued, tileVars, missed, bounds>>

\* PEER_ANNOUNCE_ACK: offers anew, even if the connection is established.
OnAck(p, q) ==
  /\ Incoming(p, q, "ACK")
  /\ chan' = Taken(p, q, << >>)
  /\ OfferTo(p, q)
  /\ UNCHANGED <<up, gone, roomVars, queued, tileVars, missed, bounds>>

\* The offer is created and set: it is posted, and a candidate after it.
PostOffer(p, q) ==
  LET c == pc[<<p, q>>] IN
  /\ c # NoPc /\ c.task = "offer"
  /\ pc' = [pc EXCEPT ![<<p, q>>] = [c EXCEPT !.task = "none", !.local = TRUE]]
  /\ chan' = IF up[q] THEN [chan EXCEPT ![<<p, q>>] =
                              @ \o << [kind |-> "OFFER", number |-> c.number],
                                      [kind |-> "ICE", number |-> c.number] >>]
                      ELSE chan
  /\ UNCHANGED <<up, gone, roomVars, queued, tileVars, missed, bounds>>

\* P2P_OFFER: an established connection is renegotiated, which the browser may
\* refuse for an offer of another object; any other is closed and replaced.
OnOffer(p, q) ==
  LET l == <<p, q>> n == Head(chan[<<q, p>>]).number IN
  /\ Incoming(p, q, "OFFER")
  /\ chan' = Taken(p, q, << >>)
  /\ \/ /\ Established(pc[l])
        /\ pc' = [pc EXCEPT ![l] = [@ EXCEPT !.task = "accept", !.next = n]]
     \/ /\ Established(pc[l])
        /\ UNCHANGED pc
     \/ /\ ~Established(pc[l]) /\ Free
        /\ pc' = [pc EXCEPT ![l] = [NewConnection("accept") EXCEPT !.next = n]]
  /\ UNCHANGED <<up, gone, roomVars, queued, tileVars, missed, bounds>>

\* The connection at l after setRemoteDescription and flushQueuedCandidates:
\* candidates for another object are refused.
Described(l) ==
  [pc[l] EXCEPT !.task = IF @ = "accept" THEN "answer" ELSE "none",
                !.state = IF pc[l].task = "settle" \/ @ = "connected" THEN "connecting" ELSE @,
                !.remote = pc[l].next,
                !.heard = pc[l].next \in queued[l],
                !.next = 0]

\* Mutation of Describe: a picture there is stays.
DescribeUnderOldTile(p, q) ==
  LET l == <<p, q>> IN
  /\ pc[l] # NoPc /\ pc[l].next # 0
  /\ pc' = [pc EXCEPT ![l] = Described(l)]
  /\ queued' = [queued EXCEPT ![l] = {}]
  /\ tile' = [tile EXCEPT ![l] = IF pc[l].remote = 0 /\ @ = 0 THEN pc[l].number ELSE @]
  /\ overruled' = IF pc[l].remote = 0 THEN overruled \ {l} ELSE overruled
  /\ UNCHANGED <<up, gone, roomVars, chan, missed, bounds>>

\* setRemoteDescription succeeds, and the candidates that were queued while it
\* was awaited are added.  The first one brings the remote tracks (ontrack);
\* another, for the same transceivers, brings none.
Describe(p, q) ==
  LET l == <<p, q>> IN
  /\ pc[l] # NoPc /\ pc[l].next # 0
  /\ pc' = [pc EXCEPT ![l] = Described(l)]
  /\ queued' = [queued EXCEPT ![l] = {}]
  /\ \/ /\ pc[l].remote = 0
        /\ tile' = [tile EXCEPT ![l] = pc[l].number]
        /\ overruled' = overruled \ {l}
     \/ pc[l].remote # 0 /\ UNCHANGED tileVars
  /\ UNCHANGED <<up, gone, roomVars, chan, missed, bounds>>

\* Mutation of PostAnswer: connectionState has the name iceConnectionState has.
PostAnswerChecking(p, q) ==
  LET c == pc[<<p, q>>] IN
  /\ c # NoPc /\ c.task = "answer"
  /\ pc' = [pc EXCEPT ![<<p, q>>] = [c EXCEPT !.task = "none", !.local = TRUE, !.state = "checking"]]
  /\ UNCHANGED <<up, gone, roomVars, chan, queued, tileVars, missed, bounds>>

\* The answer is created and set: it is posted, and a candidate after it.
PostAnswer(p, q) ==
  LET c == pc[<<p, q>>] IN
  /\ c # NoPc /\ c.task = "answer"
  /\ pc' = [pc EXCEPT ![<<p, q>>] = [c EXCEPT !.task = "none", !.local = TRUE, !.state = "connecting"]]
  /\ chan' = IF up[q] THEN [chan EXCEPT ![<<p, q>>] =
                              @ \o << [kind |-> "ANSWER", number |-> c.number],
                                      [kind |-> "ICE", number |-> c.number] >>]
                      ELSE chan
  /\ UNCHANGED <<up, gone, roomVars, queued, tileVars, missed, bounds>>

\* P2P_ANSWER: taken by an object that has offered and has no answer, also when
\* it answers an earlier offer; refused otherwise.
OnAnswer(p, q) ==
  LET l == <<p, q>> n == Head(chan[<<q, p>>]).number IN
  /\ Incoming(p, q, "ANSWER")
  /\ chan' = Taken(p, q, << >>)
  /\ IF pc[l] # NoPc /\ pc[l].local /\ {pc[l].remote, pc[l].next} = {0}
       THEN pc' = [pc EXCEPT ![l] = [@ EXCEPT !.task = "settle", !.next = n]]
       ELSE UNCHANGED pc
  /\ UNCHANGED <<up, gone, roomVars, queued, tileVars, missed, bounds>>

\* Mutation of OnIce: nothing is queued.
OnIceUnqueued(p, q) ==
  LET l == <<p, q>> n == Head(chan[<<q, p>>]).number IN
  /\ Incoming(p, q, "ICE")
  /\ chan' = Taken(p, q, << >>)
  /\ IF pc[l] # NoPc /\ pc[l].remote # 0 /\ pc[l].next = 0
       THEN pc' = [pc EXCEPT ![l].heard = @ \/ pc[l].remote = n]
       ELSE UNCHANGED pc
  /\ UNCHANGED <<up, gone, roomVars, queued, tileVars, missed, bounds>>

\* P2P_ICE: given to the object at hand, or queued until it has a description
\* (in pendingCandidates, or behind a renegotiation in the object's own chain).
OnIce(p, q) ==
  LET l == <<p, q>> n == Head(chan[<<q, p>>]).number IN
  /\ Incoming(p, q, "ICE")
  /\ chan' = Taken(p, q, << >>)
  /\ IF pc[l] # NoPc /\ pc[l].remote # 0 /\ pc[l].next = 0
       THEN /\ pc' = [pc EXCEPT ![l].heard = @ \/ pc[l].remote = n]
            /\ UNCHANGED queued
       ELSE /\ queued' = [queued EXCEPT ![l] = @ \cup {n}]
            /\ UNCHANGED pc
  /\ UNCHANGED <<up, gone, roomVars, tileVars, missed, bounds>>

\* Mutation of OnLeaving: the connection is closed, the picture stays.
OnLeavingPictureStays(p, q) ==
  /\ Incoming(p, q, "LEAVING")
  /\ chan' = Taken(p, q, << >>)
  /\ pc' = [pc EXCEPT ![<<p, q>>] = NoPc]
  /\ UNCHANGED <<up, gone, roomVars, queued, tileVars, missed, bounds>>

\* PEER_LEAVING
OnLeaving(p, q) ==
  /\ Incoming(p, q, "LEAVING")
  /\ chan' = Taken(p, q, << >>)
  /\ pc' = [pc EXCEPT ![<<p, q>>] = NoPc]
  /\ tile' = [tile EXCEPT ![<<p, q>>] = 0]
  /\ overruled' = overruled \ {<<p, q>>}
  /\ UNCHANGED <<up, gone, roomVars, queued, missed, bounds>>

-----------------------------------------------------------------------------
(* The browser *)

\* External: ICE succeeds between objects that match.
Connected(p, q) ==
  LET l == <<p, q>> IN
  /\ Matched(l) /\ pc[l].state = "connecting"
  /\ pc' = [pc EXCEPT ![l].state = "connected"]
  /\ UNCHANGED <<up, gone, roomVars, chan, queued, tileVars, missed, bounds>>

\* External: an object without a counterpart, or with one that has failed, fails
\* after seconds, when what the two tabs had posted has long been handled.
Failed(p, q) ==
  LET l == <<p, q>> IN
  /\ Engaged(pc[l]) /\ Still(l) /\ Still(Back(l))
  /\ Matched(l) => pc[Back(l)].state = "failed"
  /\ pc' = [pc EXCEPT ![l].state = "failed"]
  /\ UNCHANGED <<up, gone, roomVars, chan, queued, tileVars, missed, bounds>>

\* External: a connection that was established breaks.
Break(p, q) ==
  LET l == <<p, q>> IN
  /\ Established(pc[l])
  /\ Spend("breaks", MaxBreaks)
  /\ pc' = [pc EXCEPT ![l].state = "failed"]
  /\ UNCHANGED <<up, gone, roomVars, chan, queued, tileVars, missed>>

-----------------------------------------------------------------------------
Handle(p, q) ==
  \/ Ignore(p, q)
  \/ OnAnnounce(p, q) \/ OnAck(p, q)
  \/ OnOffer(p, q) \/ OnAnswer(p, q)
  \/ OnIce(p, q) \/ OnLeaving(p, q)
  \/ PostOffer(p, q) \/ Describe(p, q) \/ PostAnswer(p, q)

Browser(p, q) == Connected(p, q) \/ Failed(p, q)

Next ==
  \/ \E p \in Peers : Join(p) \/ Heartbeat(p) \/ Leave(p) \/ CloseTab(p)
  \/ \E p \in Peers : RoomConnects(p) \/ RoomDisconnects(p)
  \/ \E l \in Links : TrackSubscribed(l[1], l[2]) \/ TrackEnded(l[1], l[2])
  \/ \E l \in Links : Handle(l[1], l[2]) \/ Browser(l[1], l[2]) \/ Break(l[1], l[2])

Spec == Init /\ [][Next]_vars

\* Messages are delivered and tasks run.  ICE ends one way or the other and the
\* intervals of mounted tabs go on: both are timed by clocks of their own, so
\* that a message now and then (Still) or the bound on crossings only delays them.
Fairness ==
  /\ \A l \in Links : WF_vars(Handle(l[1], l[2])) /\ SF_vars(Browser(l[1], l[2]))
  /\ \A p \in Peers : SF_vars(Heartbeat(p))

FairSpec == Spec /\ Fairness

-----------------------------------------------------------------------------
\* Two tabs that stay, with their LiveKit rooms offline, end up connected and
\* stay connected, whatever offers, answers and candidates crossed before: the
\* "self-healing mesh discovery heartbeat".
Ready(l) == \A p \in {l[1], l[2]} : up[p] /\ ~sfu[p]

Linked(l) == Matched(l) /\ pc[l].state = "connected" /\ pc[Back(l)].state = "connected"

MeshHeals == \A l \in Links : <>[]Ready(l) => <>[]Linked(l)

\* A P2P picture of a peer that has gone is on screen only where its leaving was
\* not heard: the tab had its LiveKit room connected, or the peer's was closed.
\* Handlers that were awaiting when it left bring nothing back.
NoGhostTile ==
  \A l \in Links :
    up[l[1]] /\ ~up[l[2]] /\ chan[Back(l)] = << >> /\ l \notin missed
      => tile[l] \notin Numbers /\ pc[l] = NoPc

\* When nothing is under way, a connected tab shows the connection it has, not a
\* picture of one that was closed and replaced, unless a handler of the tab's
\* LiveKit room has taken the picture of this very connection away.
TileIsCurrent ==
  \A l \in Links :
    Quiet /\ Established(pc[l]) /\ l \notin overruled => tile[l] = pc[l].number

\* Beside the runs, refuted (mesh_tile.cfg): two tabs that stay in the mesh see
\* each other in the end.  What a LiveKit room that was left unsubscribes late is
\* deleted from the tiles of the mesh, and a connection that is engaged is not
\* made again.
TileReturns == \A l \in Links : <>[]Ready(l) => <>[](Linked(l) /\ tile[l] \in Numbers)

\* While no LiveKit room has connected and messages are therefore all handled,
\* candidates are never lost to a pair of connections that have described each
\* other, though each may arrive before the description it belongs to.
CandidateArrives ==
  \A l \in Links :
    LET c == pc[l] d == pc[Back(l)] IN
    bounds.switches = 0 /\ Quiet /\ c # NoPc /\ d # NoPc /\ c.local /\ d.local
          /\ c.remote = d.number /\ d.remote = c.number
      => c.heard /\ d.heard
=============================================================================
