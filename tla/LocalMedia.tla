------------------------------ MODULE LocalMedia ------------------------------
(***************************************************************************)
(* The camera and the microphone of a meeting page                         *)
(* (apps/web/src/hooks/useLiveKitRoom.ts): the effects that keep a track   *)
(* per device, the toggles of the control bar, the LiveKit room they are   *)
(* published to, and leaving the page, each of which may find the others   *)
(* in the middle of an await.  The code for the two devices is the same.   *)
(*                                                                         *)
(* LiveKit is external: mute() stops a camera track LiveKit made itself    *)
(* and disables any other, unmute() may fail after it stopped the track    *)
(* (in a toggle; the effects find the track enabled already), and a room   *)
(* that disconnects stops the tracks published to it (the default of       *)
(* disconnect(), a moment later).                                          *)
(***************************************************************************)
EXTENDS Naturals, FiniteSets

CONSTANTS
  Devices,   \* the camera and the microphone
  Tracks,    \* tracks the browser hands out in a run
  NoTrack,   \* a null reference
  Clicks,    \* clicks on a toggle in a run
  MaxLosses  \* bound: rooms that are lost after they connected

ASSUME MediaAssumption ==
  /\ IsFiniteSet(Devices) /\ Devices # {}
  /\ IsFiniteSet(Tracks) /\ IsFiniteSet(Clicks)
  /\ NoTrack \notin Tracks
  /\ MaxLosses \in Nat

VARIABLES
  inside,     \* the page is mounted
  on,         \* [Devices -> BOOLEAN]: isVideoEnabled, ~isMicMuted in the store
  ref,        \* [Devices -> Tracks or NoTrack]: localVideoTrackRef, localAudioTrackRef
  track,      \* [Tracks -> TrackStates]
  of,         \* [Tracks -> Devices]: the device a track was acquired from
  ensuring,   \* devices whose effect awaits a track, and is not cancelled
  click,      \* [Clicks -> ClickStates]: what a toggle awaits
  room,       \* state and publications of the room in roomRef
  ending,     \* tracks of rooms that are disconnecting, still to be stopped
  losses,     \* rooms lost
  denied,     \* devices whose effect got no track since the last one they got (history)
  severed,    \* tracks a room has stopped, or will (history)
  crossed     \* devices of toggles that met another, or the end of the page (history)

hookVars == <<on, ref, track, of, ensuring, room, ending, denied, severed>>
vars == <<inside, click, losses, crossed, hookVars>>

-----------------------------------------------------------------------------
TrackStates == {"unused", "live", "muted", "ended"}

Awaits == {"muting", "unmuting", "acquiring"}

SomeDevice == CHOOSE d \in Devices : TRUE

\* A click that awaits nothing is of no device in particular.
ClickStates == (Devices \X Awaits) \cup {<<SomeDevice, "unused">>, <<SomeDevice, "done">>}

TypeOK ==
  /\ inside \in BOOLEAN
  /\ on \in [Devices -> BOOLEAN]
  /\ ref \in [Devices -> Tracks \cup {NoTrack}]
  /\ track \in [Tracks -> TrackStates]
  /\ of \in [Tracks -> Devices]
  /\ ensuring \subseteq Devices
  /\ click \in [Clicks -> ClickStates]
  /\ room \in [state : {"none", "connecting", "connected"}, published : SUBSET Tracks]
  /\ ending \subseteq Tracks
  /\ losses \in 0 .. MaxLosses
  /\ denied \subseteq Devices
  /\ severed \subseteq Tracks
  /\ crossed \subseteq Devices

\* The page opens with the flags of the lobby; no track is there yet.
Init ==
  /\ inside = TRUE
  /\ on \in [Devices -> BOOLEAN]
  /\ ref = [d \in Devices |-> NoTrack]
  /\ track = [t \in Tracks |-> "unused"]
  /\ of = [t \in Tracks |-> SomeDevice]
  /\ ensuring = {d \in Devices : on[d]}
  /\ click = [c \in Clicks |-> <<SomeDevice, "unused">>]
  /\ room = [state |-> "connecting", published |-> {}]
  /\ ending = {}
  /\ losses = 0
  /\ denied = {}
  /\ severed = {}
  /\ crossed = {}

-----------------------------------------------------------------------------
(* Helpers: what a handler makes of the hook, from the values it has *)

Usable(r, tr) == r # NoTrack /\ tr[r] \in {"live", "muted"}

\* tr with the tracks in ts stopped.
Stopped(tr, ts) == [t \in Tracks |-> IF t \in ts /\ tr[t] # "unused" THEN "ended" ELSE tr[t]]

\* tr with t muted: disabled (a microphone, a camera track of getUserMedia) or
\* stopped (a camera track of LiveKit, any track whose mute() fails).
Muted(tr, t, how) == [tr EXCEPT ![t] = IF @ = "ended" THEN @ ELSE how]

\* The tracks of a room that is disconnected, with late ones published to it
\* just before.
Disconnect(late) ==
  /\ ending' = ending \cup room.published \cup late
  /\ severed' = severed \cup room.published \cup late

\* Mutation of FlagOn: a track that is there is left muted.
FlagOnLeavesMuted(d, r, tr) ==
  /\ track' = tr
  /\ ensuring' = IF Usable(r, tr) THEN ensuring \ {d} ELSE ensuring \cup {d}

\* The effect of device d after its flag was raised: a usable track is enabled
\* again, otherwise one is acquired.
FlagOn(d, r, tr) ==
  /\ track' = IF Usable(r, tr) THEN [tr EXCEPT ![r] = "live"] ELSE tr
  /\ ensuring' = IF Usable(r, tr) THEN ensuring \ {d} ELSE ensuring \cup {d}

\* The effect of device d after its flag was lowered: the track is muted, and an
\* acquisition the last effect had begun is cancelled.
FlagOff(d, r, tr, how) ==
  /\ track' = IF r # NoTrack THEN Muted(tr, r, how) ELSE tr
  /\ ensuring' = ensuring \ {d}

\* Mutation of SetFlag: the effect of the room does not run.
SetFlagKeepsRoom(d, v, r, tr, late, how) ==
  /\ on' = [on EXCEPT ![d] = v]
  /\ room' = [room EXCEPT !.published = @ \cup late]
  /\ IF inside /\ on[d] # v
       THEN IF v THEN FlagOn(d, r, tr) ELSE FlagOff(d, r, tr, how)
       ELSE track' = tr /\ UNCHANGED ensuring
  /\ UNCHANGED <<ending, severed>>

\* setMicMuted or setVideoEnabled: if that changes the flag of a mounted page its
\* effects run, the one of the room included, which connects anew.
SetFlag(d, v, r, tr, late, how) ==
  /\ on' = [on EXCEPT ![d] = v]
  /\ IF inside /\ on[d] # v
       THEN /\ IF v THEN FlagOn(d, r, tr) ELSE FlagOff(d, r, tr, how)
            /\ Disconnect(late)
            /\ room' = [state |-> "connecting", published |-> {}]
       ELSE /\ track' = tr
            /\ room' = [room EXCEPT !.published = @ \cup late]
            /\ UNCHANGED <<ensuring, ending, severed>>

Pending(d) == {c \in Clicks : click[c] \in {d} \X Awaits}

-----------------------------------------------------------------------------
(* toggleMic, toggleVideo *)

\* A click while nothing is under way for the device, or while something is.
Clicked(c, d, step) ==
  /\ inside
  /\ click[c] = <<SomeDevice, "unused">>
  /\ click' = [click EXCEPT ![c] = step]
  /\ crossed' = IF Pending(d) # {} \/ d \in ensuring THEN crossed \cup {d} ELSE crossed
  /\ UNCHANGED <<inside, losses>>

\* On, and there is a track: mute() is called and awaited.
ClickOff(c, d) ==
  /\ on[d] /\ ref[d] # NoTrack
  /\ Clicked(c, d, <<d, "muting">>)
  /\ \E how \in {"muted", "ended"} : track' = Muted(track, ref[d], how)
  /\ UNCHANGED <<on, ref, of, ensuring, room, ending, denied, severed>>

\* On, without a track: the flag is lowered at once.
ClickOffEarly(c, d) ==
  /\ on[d] /\ ref[d] = NoTrack
  /\ Clicked(c, d, <<SomeDevice, "done">>)
  /\ SetFlag(d, FALSE, NoTrack, track, {}, "muted")
  /\ UNCHANGED <<ref, of, denied>>

\* Off, and the track is usable: unmute() is called and awaited.
ClickOn(c, d) ==
  /\ ~on[d] /\ Usable(ref[d], track)
  /\ Clicked(c, d, <<d, "unmuting">>)
  /\ track' = [track EXCEPT ![ref[d]] = "live"]
  /\ UNCHANGED <<on, ref, of, ensuring, room, ending, denied, severed>>

\* Off, without a usable track, or with one whose unmute() fails, which stops it to
\* restart it: a track is acquired.
ClickAcquire(c, d) ==
  /\ ~on[d]
  /\ Clicked(c, d, <<d, "acquiring">>)
  /\ track' = Stopped(track, {ref[d]})
  /\ UNCHANGED <<on, ref, of, ensuring, room, ending, denied, severed>>

\* After the awaited mute(): the flag is lowered.
Lower(c, d) ==
  /\ click[c] = <<d, "muting">>
  /\ click' = [click EXCEPT ![c] = <<SomeDevice, "done">>]
  /\ \E how \in {"muted", "ended"} : SetFlag(d, FALSE, ref[d], track, {}, how)
  /\ UNCHANGED <<inside, losses, crossed, ref, of, denied>>

\* After the awaited unmute(): the flag is raised.
Raise(c, d) ==
  /\ click[c] = <<d, "unmuting">>
  /\ click' = [click EXCEPT ![c] = <<SomeDevice, "done">>]
  /\ SetFlag(d, TRUE, ref[d], track, {}, "muted")
  /\ UNCHANGED <<inside, losses, crossed, ref, of, denied>>

\* A track is handed out for d.
HandOut(t, d) ==
  /\ track[t] = "unused"
  /\ of' = [of EXCEPT ![t] = d]
  /\ ref' = [ref EXCEPT ![d] = t]
  /\ denied' = denied \ {d}

\* After the awaited acquisition: the track is kept, the flag raised, and the
\* track published to the room of before, which keeps it unless it goes first.
Acquire(c, d) ==
  /\ click[c] = <<d, "acquiring">>
  /\ click' = [click EXCEPT ![c] = <<SomeDevice, "done">>]
  /\ \E t \in Tracks :
       /\ HandOut(t, d)
       /\ \E late \in IF room.state = "connected" THEN {{}, {t}} ELSE {{}} :
            SetFlag(d, TRUE, t, [track EXCEPT ![t] = "live"], late, "muted")
  /\ UNCHANGED <<inside, losses, crossed>>

\* No track could be had, not even a stand-in.
AcquireFails(c, d) ==
  /\ click[c] = <<d, "acquiring">>
  /\ click' = [click EXCEPT ![c] = <<SomeDevice, "done">>]
  /\ UNCHANGED <<inside, losses, crossed, hookVars>>

-----------------------------------------------------------------------------
(* Effects 1 and 2 *)

\* The effect of d has its track, and publishes it to a connected room.
Ensure(d) ==
  /\ d \in ensuring
  /\ ensuring' = ensuring \ {d}
  /\ \E t \in Tracks :
       /\ HandOut(t, d)
       /\ track' = [track EXCEPT ![t] = "live"]
       /\ room' = IF room.state = "connected" THEN [room EXCEPT !.published = @ \cup {t}] ELSE room
  /\ UNCHANGED <<inside, click, losses, crossed, on, ending, severed>>

\* The effect of d gets none.
EnsureFails(d) ==
  /\ d \in ensuring
  /\ ensuring' = ensuring \ {d}
  /\ denied' = denied \cup {d}
  /\ UNCHANGED <<inside, click, losses, crossed, on, ref, track, of, room, ending, severed>>

-----------------------------------------------------------------------------
(* Effect 3 *)

\* Mutation of RoomConnects: whether there is a track is not asked.
RoomConnectsUnasked ==
  /\ room.state = "connecting"
  /\ room' = [state |-> "connected", published |-> {ref[d] : d \in {e \in Devices : on[e]}}]
  /\ UNCHANGED <<inside, click, losses, crossed, on, ref, track, of, ensuring, ending, denied, severed>>

\* RoomEvent.Connected: the tracks there are, of devices that are on, are published.
RoomConnects ==
  /\ room.state = "connecting"
  /\ room' = [state |-> "connected",
              published |-> {ref[d] : d \in {e \in Devices : on[e] /\ ref[e] # NoTrack}}]
  /\ UNCHANGED <<inside, click, losses, crossed, on, ref, track, of, ensuring, ending, denied, severed>>

\* connect() fails: the page goes on without a room.
RoomFails ==
  /\ room.state = "connecting"
  /\ room' = [room EXCEPT !.state = "none"]
  /\ UNCHANGED <<inside, click, losses, crossed, on, ref, track, of, ensuring, ending, denied, severed>>

\* External: the room is lost; it stops the tracks published to it.
RoomLost ==
  /\ room.state = "connected"
  /\ losses < MaxLosses
  /\ losses' = losses + 1
  /\ track' = Stopped(track, room.published)
  /\ severed' = severed \cup room.published
  /\ room' = [state |-> "none", published |-> {}]
  /\ UNCHANGED <<inside, click, crossed, on, ref, of, ensuring, ending, denied>>

\* External: a room that was disconnected stops its tracks.
RoomEnds ==
  /\ ending # {}
  /\ track' = Stopped(track, ending)
  /\ ending' = {}
  /\ UNCHANGED <<inside, click, losses, crossed, on, ref, of, ensuring, room, denied, severed>>

-----------------------------------------------------------------------------
(* Leaving *)

\* Mutation of Leave: the tracks are left to the room.
LeaveToRoom ==
  /\ inside
  /\ inside' = FALSE
  /\ ensuring' = {}
  /\ Disconnect({})
  /\ room' = [state |-> "none", published |-> {}]
  /\ ref' = [d \in Devices |-> NoTrack]
  /\ crossed' = crossed \cup {d \in Devices : Pending(d) # {}}
  /\ UNCHANGED <<click, losses, on, of, track, denied>>

\* The cleanups of the effects: acquisitions are cancelled, the room disconnected,
\* the tracks stopped.
Leave ==
  /\ inside
  /\ inside' = FALSE
  /\ ensuring' = {}
  /\ Disconnect({})
  /\ room' = [state |-> "none", published |-> {}]
  /\ track' = Stopped(track, {ref[d] : d \in Devices})
  /\ ref' = [d \in Devices |-> NoTrack]
  /\ crossed' = crossed \cup {d \in Devices : Pending(d) # {}}
  /\ UNCHANGED <<click, losses, on, of, denied>>

-----------------------------------------------------------------------------
Click(c, d) == ClickOff(c, d) \/ ClickOffEarly(c, d) \/ ClickOn(c, d) \/ ClickAcquire(c, d)

Continue(c, d) == Lower(c, d) \/ Raise(c, d) \/ Acquire(c, d) \/ AcquireFails(c, d)

Next ==
  \/ \E c \in Clicks, d \in Devices : Click(c, d) \/ Continue(c, d)
  \/ \E d \in Devices : Ensure(d) \/ EnsureFails(d)
  \/ RoomConnects \/ RoomFails \/ RoomLost \/ RoomEnds
  \/ Leave

Spec == Init /\ [][Next]_vars

-----------------------------------------------------------------------------
\* Nothing is awaited, and no room is about to change.
Settled ==
  /\ \A d \in Devices : Pending(d) = {}
  /\ ensuring = {} /\ ending = {} /\ room.state # "connecting"

\* "Clean up all local tracks when unmounting the hook", and no track is left
\* behind by one that took its place: what is not stopped is the device's own,
\* unless clicks overlapped one another or the end of the page.
NothingLeaks ==
  Settled => \A t \in Tracks :
               track[t] \in {"live", "muted"} /\ of[t] \notin crossed => inside /\ ref[of[t]] = t

\* Who is muted is not heard: with the flag lowered, no live track of the device
\* is published, however clicks, acquisitions and rooms overlapped.
MutedIsSilent ==
  inside => \A t \in room.published : track[t] = "live" => on[of[t]] \/ Pending(of[t]) # {}

\* With the flag raised the page has a live track of the device, however clicks,
\* acquisitions and rooms overlapped, unless none could be had or a room it was
\* published to has stopped it.
KeptAlive ==
  inside /\ Settled =>
    \A d \in Devices :
      on[d] /\ d \notin denied /\ ref[d] \notin severed
        => ref[d] # NoTrack /\ track[ref[d]] = "live"

\* "Immediately initialize and maintain local camera hardware independently of
\* SFU connection": the same, whatever the room does.
IndependentOfRoom ==
  inside /\ Settled =>
    \A d \in Devices : on[d] /\ d \notin denied => ref[d] # NoTrack /\ track[ref[d]] = "live"
=============================================================================
