--------------------------- MODULE LocalMediaProofs ---------------------------
(***************************************************************************)
(* Proofs about LocalMedia, for any number of devices, tracks and clicks   *)
(* and of rooms lost.                                                      *)
(***************************************************************************)
EXTENDS LocalMedia, TLAPS

\* The track of a device was acquired from it.
RefInv == \A d \in Devices : ref[d] # NoTrack => of[ref[d]] = d /\ track[ref[d]] # "unused"

\* Only tracks that were handed out are published, and rooms stop no others.
UsedInv ==
  /\ ending \subseteq severed
  /\ \A t \in severed \cup room.published : track[t] # "unused"

\* What is published is of devices whose flag is raised: a flag that is lowered
\* takes the room down with it.
RoomInv ==
  /\ \A t \in room.published : on[of[t]]
  /\ room.state # "connected" => room.published = {}
  /\ ~inside => room.state = "none" /\ ensuring = {}

\* An effect awaits a track only while the flag is raised.
EnsuringInv == \A d \in ensuring : on[d]

\* d has one click or effect under way at most, and one that acquires a track does
\* not take the place of a usable one.
OneOf(d) ==
  /\ \A c, k \in Clicks : click[c] \in {d} \X Awaits /\ click[k] \in {d} \X Awaits => c = k
  /\ \A c \in Clicks : click[c] \in {d} \X Awaits => inside /\ d \notin ensuring
  /\ d \in ensuring \/ (\E c \in Clicks : click[c] = <<d, "acquiring">>) => ~Usable(ref[d], track)

\* So it is with the devices whose clicks do not overlap.
OneAtATime == \A d \in Devices \ crossed : OneOf(d)

\* Then a track that runs is the device's own.
OwnTracks ==
  \A t \in Tracks :
    track[t] \in {"live", "muted"} /\ of[t] \notin crossed => inside /\ ref[of[t]] = t

\* d has a live track if it is on, unless none could be had, a room has stopped it,
\* or a click that will lower the flag has muted it.
LiveOf(d) ==
  on[d] /\ d \notin ensuring /\ d \notin denied /\ ref[d] \notin severed
    => \/ ref[d] # NoTrack /\ track[ref[d]] = "live"
       \/ \E c \in Clicks : click[c] = <<d, "muting">>

\* So it is with every device of an open page.
LiveWhileOn == inside => \A d \in Devices : LiveOf(d)

IInv ==
  /\ TypeOK
  /\ RefInv
  /\ UsedInv
  /\ RoomInv
  /\ EnsuringInv
  /\ OneAtATime
  /\ OwnTracks
  /\ LiveWhileOn
-----------------------------------------------------------------------------
(* Flags *)

\* There is a device.
LEMMA SomeIsDevice == SomeDevice \in Devices
  BY MediaAssumption DEF SomeDevice

\* The types of what setting a flag changes.
FlagTypes ==
  /\ on' \in [Devices -> BOOLEAN]
  /\ track' \in [Tracks -> TrackStates]
  /\ ensuring' \subseteq Devices
  /\ room' \in [state : {"none", "connecting", "connected"}, published : SUBSET Tracks]
  /\ ending' \subseteq Tracks
  /\ severed' \subseteq Tracks

\* The effects of a flag of d that changed to v have run, with reference r and
\* tracks tr: the room connects anew, without its publications and the late ones.
FlagChanged(d, v, r, tr, late) ==
  /\ inside /\ on[d] # v
  /\ room'.state = "connecting" /\ room'.published = {}
  /\ ending' = ending \cup room.published \cup late
  /\ severed' = severed \cup room.published \cup late
  /\ \/ v /\ Usable(r, tr) /\ ensuring' = ensuring \ {d} /\ track'[r] = "live"
     \/ v /\ ~Usable(r, tr) /\ ensuring' = ensuring \cup {d} /\ track' = tr
     \/ ~v /\ ensuring' = ensuring \ {d}

\* No effect has run: the flag was v, or the page is gone.
FlagSame(d, v, tr, late) ==
  /\ ~inside \/ on[d] = v
  /\ room'.state = room.state /\ room'.published = room.published \cup late
  /\ track' = tr
  /\ UNCHANGED <<ensuring, ending, severed>>

\* What comes of setting the flag of d.
FlagSet(d, v, r, tr, late) ==
  /\ FlagTypes
  /\ on'[d] = v /\ \A e \in Devices \ {d} : on'[e] = on[e]
  /\ \A t \in Tracks : t # r => track'[t] = tr[t]
  /\ \A t \in Tracks : tr[t] # "unused" => track'[t] # "unused"
  /\ FlagChanged(d, v, r, tr, late) \/ FlagSame(d, v, tr, late)

\* SetFlag does that.
LEMMA SetFlagSets ==
  ASSUME TypeOK, NEW d \in Devices, NEW v \in BOOLEAN, NEW r \in Tracks \cup {NoTrack},
         NEW tr \in [Tracks -> TrackStates], NEW late \in SUBSET Tracks,
         NEW how \in {"muted", "ended"}, r # NoTrack => tr[r] # "unused",
         SetFlag(d, v, r, tr, late, how)
  PROVE  FlagSet(d, v, r, tr, late)
<1> USE MediaAssumption
<1>1. /\ on' \in [Devices -> BOOLEAN]
      /\ on'[d] = v /\ \A e \in Devices \ {d} : on'[e] = on[e]
  BY DEF SetFlag, TypeOK
<1>2. CASE inside /\ on[d] # v /\ v
  <2>1. /\ FlagOn(d, r, tr) /\ Disconnect(late)
        /\ room' = [state |-> "connecting", published |-> {}]
    BY <1>2 DEF SetFlag
  <2>2. /\ track' \in [Tracks -> TrackStates]
        /\ \A t \in Tracks : t # r => track'[t] = tr[t]
        /\ \A t \in Tracks : tr[t] # "unused" => track'[t] # "unused"
        /\ \/ Usable(r, tr) /\ ensuring' = ensuring \ {d} /\ track'[r] = "live"
           \/ ~Usable(r, tr) /\ ensuring' = ensuring \cup {d} /\ track' = tr
    BY <2>1 DEF FlagOn, Usable, TrackStates
  <2>3. FlagTypes /\ FlagChanged(d, v, r, tr, late)
    BY <1>1, <1>2, <2>1, <2>2 DEF FlagTypes, FlagChanged, Disconnect, TypeOK
  <2>4. QED
    BY <1>1, <2>2, <2>3 DEF FlagSet
<1>3. CASE inside /\ on[d] # v /\ ~v
  <2>1. /\ FlagOff(d, r, tr, how) /\ Disconnect(late)
        /\ room' = [state |-> "connecting", published |-> {}]
    BY <1>3 DEF SetFlag
  <2>2. /\ track' \in [Tracks -> TrackStates]
        /\ \A t \in Tracks : t # r => track'[t] = tr[t]
        /\ \A t \in Tracks : tr[t] # "unused" => track'[t] # "unused"
        /\ ensuring' = ensuring \ {d}
    BY <2>1 DEF FlagOff, Muted, TrackStates
  <2>3. FlagTypes /\ FlagChanged(d, v, r, tr, late)
    BY <1>1, <1>3, <2>1, <2>2 DEF FlagTypes, FlagChanged, Disconnect, TypeOK
  <2>4. QED
    BY <1>1, <2>2, <2>3 DEF FlagSet
<1>4. CASE ~inside \/ on[d] = v
  <2>1. /\ track' = tr
        /\ room' = [room EXCEPT !.published = @ \cup late]
        /\ UNCHANGED <<ensuring, ending, severed>>
    BY <1>4 DEF SetFlag, TypeOK
  <2>2. FlagTypes /\ FlagSame(d, v, tr, late)
    BY <1>1, <1>4, <2>1 DEF FlagTypes, FlagSame, TypeOK
  <2>3. QED
    BY <1>1, <2>1, <2>2 DEF FlagSet
<1> QED BY <1>2, <1>3, <1>4

\* The end of a click that mutes: the flag is lowered.
LEMMA Lowers ==
  ASSUME TypeOK, RefInv, NEW c \in Clicks, NEW d \in Devices, Lower(c, d)
  PROVE  FlagSet(d, FALSE, ref[d], track, {})
  BY SetFlagSets DEF Lower, TypeOK, RefInv

\* The end of a click that unmutes: the flag is raised.
LEMMA Raises ==
  ASSUME TypeOK, RefInv, NEW c \in Clicks, NEW d \in Devices, Raise(c, d)
  PROVE  FlagSet(d, TRUE, ref[d], track, {})
  BY SetFlagSets DEF Raise, TypeOK, RefInv

\* A click without a track to mute: the flag is lowered.
LEMMA LowersEarly ==
  ASSUME TypeOK, NEW c \in Clicks, NEW d \in Devices, ClickOffEarly(c, d)
  PROVE  FlagSet(d, FALSE, NoTrack, track, {})
  BY SetFlagSets DEF ClickOffEarly, TypeOK

\* The end of a click that acquires: a track is kept and the flag raised.
LEMMA Acquires ==
  ASSUME TypeOK, NEW c \in Clicks, NEW d \in Devices, Acquire(c, d)
  PROVE  \E t \in Tracks : \E late \in SUBSET Tracks :
           /\ late = {} \/ (late = {t} /\ room.state = "connected")
           /\ HandOut(t, d)
           /\ FlagSet(d, TRUE, t, [track EXCEPT ![t] = "live"], late)
<1>0. PICK t \in Tracks :
        /\ HandOut(t, d)
        /\ \E late \in IF room.state = "connected" THEN {{}, {t}} ELSE {{}} :
             SetFlag(d, TRUE, t, [track EXCEPT ![t] = "live"], late, "muted")
  BY DEF Acquire
<1>1. PICK late \in IF room.state = "connected" THEN {{}, {t}} ELSE {{}} :
        SetFlag(d, TRUE, t, [track EXCEPT ![t] = "live"], late, "muted")
  BY <1>0
<1>2. late \in SUBSET Tracks /\ (late = {} \/ (late = {t} /\ room.state = "connected"))
  <2>1. CASE room.state = "connected"
    <3>1. late \in {{}, {t}}
      BY <2>1
    <3>2. QED
      BY <2>1, <3>1
  <2>2. CASE room.state # "connected"
    <3>1. late = {}
      BY <2>2
    <3>2. QED
      BY <3>1
  <2>3. QED
    BY <2>1, <2>2
<1>3. /\ [track EXCEPT ![t] = "live"] \in [Tracks -> TrackStates]
      /\ [track EXCEPT ![t] = "live"][t] # "unused"
  BY DEF TypeOK, TrackStates
<1>4. FlagSet(d, TRUE, t, [track EXCEPT ![t] = "live"], late)
  BY <1>1, <1>2, <1>3, SetFlagSets
<1> QED BY <1>0, <1>2, <1>4

-----------------------------------------------------------------------------
(* Types *)

\* A click's state after a step is one of its states.
LEMMA ClickTyped ==
  /\ \A d \in Devices : \A a \in Awaits : <<d, a>> \in ClickStates
  /\ <<SomeDevice, "unused">> \in ClickStates /\ <<SomeDevice, "done">> \in ClickStates
  /\ Awaits = {"muting", "unmuting", "acquiring"}
  BY DEF ClickStates, Awaits

\* A click that is done awaits nothing, and the others what they did.
LEMMA ClickDone ==
  ASSUME TypeOK, NEW c \in Clicks, click' = [click EXCEPT ![c] = <<SomeDevice, "done">>]
  PROVE  \A k \in Clicks : \A e \in Devices :
           /\ click'[k] \in {e} \X Awaits => k # c /\ click'[k] = click[k]
           /\ \A a \in Awaits : click'[k] = <<e, a>> => click'[k] \in {e} \X Awaits
  BY DEF TypeOK, Awaits

\* Every step preserves TypeOK.
LEMMA TypeStep ==
  ASSUME TypeOK, RefInv, Next
  PROVE  TypeOK'
<1> USE MediaAssumption, SomeIsDevice, ClickTyped
<1>1. ASSUME NEW c \in Clicks, NEW d \in Devices, ClickOff(c, d)
      PROVE  TypeOK'
  <2>1. /\ UNCHANGED <<on, ref, of, ensuring, room, ending, denied, severed, inside, losses>>
        /\ click' = [click EXCEPT ![c] = <<d, "muting">>]
        /\ crossed' = crossed \cup {d} \/ crossed' = crossed
    BY <1>1 DEF ClickOff, Clicked
  <2>2. PICK how \in {"muted", "ended"} : track' = Muted(track, ref[d], how)
    BY <1>1 DEF ClickOff
  <2>3. track' \in [Tracks -> TrackStates]
    BY <2>2 DEF TypeOK, Muted, TrackStates
  <2>4. crossed' \subseteq Devices /\ click' \in [Clicks -> ClickStates]
    BY <2>1 DEF TypeOK
  <2>5. QED
    BY <2>1, <2>3, <2>4 DEF TypeOK
<1>2. ASSUME NEW c \in Clicks, NEW d \in Devices, ClickOffEarly(c, d)
      PROVE  TypeOK'
  BY <1>2, LowersEarly DEF TypeOK, FlagSet, FlagTypes, ClickOffEarly, Clicked
<1>3. ASSUME NEW c \in Clicks, NEW d \in Devices, ClickOn(c, d)
      PROVE  TypeOK'
  BY <1>3 DEF TypeOK, ClickOn, Clicked, Usable, TrackStates
<1>4. ASSUME NEW c \in Clicks, NEW d \in Devices, ClickAcquire(c, d)
      PROVE  TypeOK'
  BY <1>4 DEF TypeOK, ClickAcquire, Clicked, Stopped, TrackStates
<1>5. ASSUME NEW c \in Clicks, NEW d \in Devices, Lower(c, d)
      PROVE  TypeOK'
  <2>1. FlagTypes
    BY <1>5, Lowers DEF FlagSet
  <2>2. QED
    BY <1>5, <2>1 DEF TypeOK, FlagTypes, Lower
<1>6. ASSUME NEW c \in Clicks, NEW d \in Devices, Raise(c, d)
      PROVE  TypeOK'
  <2>1. FlagTypes
    BY <1>6, Raises DEF FlagSet
  <2>2. QED
    BY <1>6, <2>1 DEF TypeOK, FlagTypes, Raise
<1>7. ASSUME NEW c \in Clicks, NEW d \in Devices, Acquire(c, d)
      PROVE  TypeOK'
  <2>1. FlagTypes /\ \E t \in Tracks : HandOut(t, d)
    BY <1>7, Acquires DEF FlagSet
  <2>2. /\ of' \in [Tracks -> Devices]
        /\ ref' \in [Devices -> Tracks \cup {NoTrack}]
        /\ denied' \subseteq Devices
    BY <2>1 DEF TypeOK, HandOut
  <2>3. QED
    BY <1>7, <2>1, <2>2 DEF TypeOK, FlagTypes, Acquire
<1>8. ASSUME NEW c \in Clicks, NEW d \in Devices, AcquireFails(c, d)
      PROVE  TypeOK'
  BY <1>8 DEF TypeOK, AcquireFails, hookVars
<1>9. ASSUME NEW d \in Devices, Ensure(d)
      PROVE  TypeOK'
  BY <1>9 DEF TypeOK, Ensure, HandOut, TrackStates
<1>10. ASSUME NEW d \in Devices, EnsureFails(d)
      PROVE  TypeOK'
  BY <1>10 DEF TypeOK, EnsureFails
<1>11. CASE RoomConnects
  BY <1>11 DEF TypeOK, RoomConnects
<1>12. CASE RoomFails
  BY <1>12 DEF TypeOK, RoomFails
<1>13. CASE RoomLost
  BY <1>13 DEF TypeOK, RoomLost, Stopped, TrackStates
<1>14. CASE RoomEnds
  BY <1>14 DEF TypeOK, RoomEnds, Stopped, TrackStates
<1>15. CASE Leave
  BY <1>15 DEF TypeOK, Leave, Stopped, Disconnect, TrackStates
<1> QED BY <1>1, <1>2, <1>3, <1>4, <1>5, <1>6, <1>7, <1>8, <1>9, <1>10, <1>11, <1>12, <1>13, <1>14,
   <1>15 DEF Next, Click, Continue

\* Every step preserves that a device's track is its own.
LEMMA RefStep ==
  ASSUME TypeOK, RefInv, Next
  PROVE  RefInv'
<1> USE MediaAssumption, SomeIsDevice 
<1>1. ASSUME NEW c \in Clicks, NEW d \in Devices, ClickOff(c, d)
      PROVE  RefInv'
  BY <1>1 DEF RefInv, ClickOff, Muted
<1>2. ASSUME NEW c \in Clicks, NEW d \in Devices, ClickOffEarly(c, d)
      PROVE  RefInv'
  <2>1. FlagSet(d, FALSE, NoTrack, track, {})
    BY <1>2, LowersEarly
  <2>2. QED
    BY <1>2, <2>1 DEF TypeOK, RefInv, ClickOffEarly, FlagSet
<1>3. ASSUME NEW c \in Clicks, NEW d \in Devices, ClickOn(c, d)
      PROVE  RefInv'
  BY <1>3 DEF RefInv, ClickOn
<1>4. ASSUME NEW c \in Clicks, NEW d \in Devices, ClickAcquire(c, d)
      PROVE  RefInv'
  BY <1>4 DEF TypeOK, RefInv, ClickAcquire, Stopped
<1>5. ASSUME NEW c \in Clicks, NEW d \in Devices, Lower(c, d)
      PROVE  RefInv'
  <2>1. FlagSet(d, FALSE, ref[d], track, {})
    BY <1>5, Lowers
  <2>2. QED
    BY <1>5, <2>1 DEF TypeOK, RefInv, Lower, FlagSet
<1>6. ASSUME NEW c \in Clicks, NEW d \in Devices, Raise(c, d)
      PROVE  RefInv'
  <2>1. FlagSet(d, TRUE, ref[d], track, {})
    BY <1>6, Raises
  <2>2. QED
    BY <1>6, <2>1 DEF TypeOK, RefInv, Raise, FlagSet
<1>7. ASSUME NEW c \in Clicks, NEW d \in Devices, Acquire(c, d)
      PROVE  RefInv'
  <2>1. PICK t \in Tracks, late \in SUBSET Tracks :
          /\ late = {} \/ (late = {t} /\ room.state = "connected")
          /\ HandOut(t, d)
          /\ FlagSet(d, TRUE, t, [track EXCEPT ![t] = "live"], late)
    BY <1>7, Acquires
  <2>2. QED
    BY <1>7, <2>1 DEF TypeOK, RefInv, HandOut, FlagSet
<1>8. ASSUME NEW c \in Clicks, NEW d \in Devices, AcquireFails(c, d)
      PROVE  RefInv'
  BY <1>8 DEF RefInv, AcquireFails, hookVars
<1>9. ASSUME NEW d \in Devices, Ensure(d)
      PROVE  RefInv'
  BY <1>9 DEF TypeOK, RefInv, Ensure, HandOut
<1>10. ASSUME NEW d \in Devices, EnsureFails(d)
      PROVE  RefInv'
  BY <1>10 DEF RefInv, EnsureFails
<1>11. CASE RoomConnects
  BY <1>11 DEF RefInv, RoomConnects
<1>12. CASE RoomFails
  BY <1>12 DEF RefInv, RoomFails
<1>13. CASE RoomLost
  BY <1>13 DEF TypeOK, RefInv, RoomLost, Stopped
<1>14. CASE RoomEnds
  BY <1>14 DEF TypeOK, RefInv, RoomEnds, Stopped
<1>15. CASE Leave
  BY <1>15 DEF RefInv, Leave
<1> QED BY <1>1, <1>2, <1>3, <1>4, <1>5, <1>6, <1>7, <1>8, <1>9, <1>10, <1>11, <1>12, <1>13, <1>14,
   <1>15 DEF Next, Click, Continue

\* Every step preserves what is known of published and severed tracks.
LEMMA UsedStep ==
  ASSUME TypeOK, RefInv, UsedInv, Next
  PROVE  UsedInv'
<1> USE MediaAssumption, SomeIsDevice 
<1>1. ASSUME NEW c \in Clicks, NEW d \in Devices, ClickOff(c, d)
      PROVE  UsedInv'
  BY <1>1 DEF UsedInv, ClickOff, Muted
<1>2. ASSUME NEW c \in Clicks, NEW d \in Devices, ClickOffEarly(c, d)
      PROVE  UsedInv'
  <2>1. FlagSet(d, FALSE, NoTrack, track, {})
    BY <1>2, LowersEarly
  <2>2. QED
    BY <1>2, <2>1 DEF TypeOK, UsedInv, FlagSet, FlagChanged, FlagSame
<1>3. ASSUME NEW c \in Clicks, NEW d \in Devices, ClickOn(c, d)
      PROVE  UsedInv'
  BY <1>3 DEF UsedInv, ClickOn
<1>4. ASSUME NEW c \in Clicks, NEW d \in Devices, ClickAcquire(c, d)
      PROVE  UsedInv'
  BY <1>4 DEF TypeOK, UsedInv, ClickAcquire, Stopped
<1>5. ASSUME NEW c \in Clicks, NEW d \in Devices, Lower(c, d)
      PROVE  UsedInv'
  <2>1. FlagSet(d, FALSE, ref[d], track, {})
    BY <1>5, Lowers
  <2>2. QED
    BY <1>5, <2>1 DEF TypeOK, UsedInv, FlagSet, FlagChanged, FlagSame
<1>6. ASSUME NEW c \in Clicks, NEW d \in Devices, Raise(c, d)
      PROVE  UsedInv'
  <2>1. FlagSet(d, TRUE, ref[d], track, {})
    BY <1>6, Raises
  <2>2. QED
    BY <1>6, <2>1 DEF TypeOK, UsedInv, FlagSet, FlagChanged, FlagSame
<1>7. ASSUME NEW c \in Clicks, NEW d \in Devices, Acquire(c, d)
      PROVE  UsedInv'
  <2>1. PICK t \in Tracks, late \in SUBSET Tracks :
          /\ late = {} \/ (late = {t} /\ room.state = "connected")
          /\ HandOut(t, d)
          /\ FlagSet(d, TRUE, t, [track EXCEPT ![t] = "live"], late)
    BY <1>7, Acquires
  <2>2. QED
    BY <1>7, <2>1 DEF TypeOK, UsedInv, FlagSet, FlagTypes, FlagChanged, FlagSame
<1>8. ASSUME NEW c \in Clicks, NEW d \in Devices, AcquireFails(c, d)
      PROVE  UsedInv'
  BY <1>8 DEF UsedInv, AcquireFails, hookVars
<1>9. ASSUME NEW d \in Devices, Ensure(d)
      PROVE  UsedInv'
  BY <1>9 DEF TypeOK, UsedInv, Ensure
<1>10. ASSUME NEW d \in Devices, EnsureFails(d)
      PROVE  UsedInv'
  BY <1>10 DEF UsedInv, EnsureFails
<1>11. CASE RoomConnects
  BY <1>11 DEF RefInv, UsedInv, RoomConnects
<1>12. CASE RoomFails
  BY <1>12 DEF UsedInv, RoomFails
<1>13. CASE RoomLost
  BY <1>13 DEF TypeOK, UsedInv, RoomLost, Stopped
<1>14. CASE RoomEnds
  BY <1>14 DEF TypeOK, UsedInv, RoomEnds, Stopped
<1>15. CASE Leave
  BY <1>15 DEF TypeOK, UsedInv, Leave, Stopped, Disconnect
<1> QED BY <1>1, <1>2, <1>3, <1>4, <1>5, <1>6, <1>7, <1>8, <1>9, <1>10, <1>11, <1>12, <1>13, <1>14,
   <1>15 DEF Next, Click, Continue

\* Every step preserves what is known of the room.
LEMMA RoomStep ==
  ASSUME TypeOK, RefInv, UsedInv, RoomInv, EnsuringInv, Next
  PROVE  RoomInv'
<1> USE MediaAssumption, SomeIsDevice 
<1>1. ASSUME NEW c \in Clicks, NEW d \in Devices, ClickOff(c, d)
      PROVE  RoomInv'
  BY <1>1 DEF RoomInv, ClickOff, Clicked
<1>2. ASSUME NEW c \in Clicks, NEW d \in Devices, ClickOffEarly(c, d)
      PROVE  RoomInv'
  <2>1. FlagSet(d, FALSE, NoTrack, track, {})
    BY <1>2, LowersEarly
  <2>2. QED
    BY <1>2, <2>1 DEF RoomInv, ClickOffEarly, Clicked, FlagSet, FlagChanged, FlagSame
<1>3. ASSUME NEW c \in Clicks, NEW d \in Devices, ClickOn(c, d)
      PROVE  RoomInv'
  BY <1>3 DEF RoomInv, ClickOn, Clicked
<1>4. ASSUME NEW c \in Clicks, NEW d \in Devices, ClickAcquire(c, d)
      PROVE  RoomInv'
  BY <1>4 DEF RoomInv, ClickAcquire, Clicked
<1>5. ASSUME NEW c \in Clicks, NEW d \in Devices, Lower(c, d)
      PROVE  RoomInv'
  <2>1. FlagSet(d, FALSE, ref[d], track, {})
    BY <1>5, Lowers
  <2>2. QED
    BY <1>5, <2>1 DEF TypeOK, RoomInv, Lower, FlagSet, FlagTypes, FlagChanged, FlagSame
<1>6. ASSUME NEW c \in Clicks, NEW d \in Devices, Raise(c, d)
      PROVE  RoomInv'
  <2>1. FlagSet(d, TRUE, ref[d], track, {})
    BY <1>6, Raises
  <2>2. QED
    BY <1>6, <2>1 DEF TypeOK, RoomInv, Raise, FlagSet, FlagChanged, FlagSame
<1>7. ASSUME NEW c \in Clicks, NEW d \in Devices, Acquire(c, d)
      PROVE  RoomInv'
  <2>1. PICK t \in Tracks, late \in SUBSET Tracks :
          /\ late = {} \/ (late = {t} /\ room.state = "connected")
          /\ HandOut(t, d)
          /\ FlagSet(d, TRUE, t, [track EXCEPT ![t] = "live"], late)
    BY <1>7, Acquires
  <2>2. QED
    <3>1. inside' = inside
      BY <1>7 DEF Acquire
    <3>2. on'[d] = TRUE /\ \A e \in Devices \ {d} : on'[e] = on[e]
      BY <2>1 DEF FlagSet
    <3>3. /\ of'[t] = d /\ \A u \in Tracks \ {t} : of'[u] = of[u]
          /\ \A u \in room.published : of[u] \in Devices /\ u \in Tracks /\ u # t
      BY <2>1 DEF HandOut, TypeOK, UsedInv
    <3>4. \A u \in room.published : on[of[u]]
      BY DEF RoomInv
    <3>5. \A u \in room.published \cup late : on'[of'[u]]
      BY <2>1, <3>2, <3>3, <3>4
    <3>6. CASE FlagChanged(d, TRUE, t, [track EXCEPT ![t] = "live"], late)
      BY <3>1, <3>6 DEF RoomInv, FlagChanged
    <3>7. CASE FlagSame(d, TRUE, [track EXCEPT ![t] = "live"], late)
      <4>1. /\ room'.state = room.state /\ room'.published = room.published \cup late
            /\ ensuring' = ensuring
        BY <3>7 DEF FlagSame
      <4>2. QED
        BY <2>1, <3>1, <3>5, <4>1 DEF RoomInv
    <3>8. QED
      BY <2>1, <3>6, <3>7 DEF FlagSet
<1>8. ASSUME NEW c \in Clicks, NEW d \in Devices, AcquireFails(c, d)
      PROVE  RoomInv'
  BY <1>8 DEF RoomInv, AcquireFails, hookVars
<1>9. ASSUME NEW d \in Devices, Ensure(d)
      PROVE  RoomInv'
  BY <1>9 DEF TypeOK, RoomInv, EnsuringInv, Ensure, HandOut
<1>10. ASSUME NEW d \in Devices, EnsureFails(d)
      PROVE  RoomInv'
  BY <1>10 DEF RoomInv, EnsureFails
<1>11. CASE RoomConnects
  BY <1>11 DEF RefInv, RoomInv, RoomConnects
<1>12. CASE RoomFails
  BY <1>12 DEF RoomInv, RoomFails
<1>13. CASE RoomLost
  BY <1>13 DEF RoomInv, RoomLost
<1>14. CASE RoomEnds
  BY <1>14 DEF RoomInv, RoomEnds
<1>15. CASE Leave
  BY <1>15 DEF RoomInv, Leave
<1> QED BY <1>1, <1>2, <1>3, <1>4, <1>5, <1>6, <1>7, <1>8, <1>9, <1>10, <1>11, <1>12, <1>13, <1>14,
   <1>15 DEF Next, Click, Continue

\* Setting a flag lets an effect await only of a device that is on.
LEMMA FlagEnsures ==
  ASSUME TypeOK, RoomInv, EnsuringInv, NEW d \in Devices, NEW v \in BOOLEAN, NEW r, NEW tr, NEW late,
         FlagSet(d, v, r, tr, late)
  PROVE  EnsuringInv'
<1>1. ensuring \subseteq Devices /\ \A e \in ensuring : on[e]
  BY DEF TypeOK, EnsuringInv
<1>2. on'[d] = v /\ \A e \in Devices \ {d} : on'[e] = on[e]
  BY DEF FlagSet
<1>3. CASE FlagChanged(d, v, r, tr, late)
  <2>1. \/ ensuring' = ensuring \ {d}
        \/ v /\ ensuring' = ensuring \cup {d}
    BY <1>3 DEF FlagChanged
  <2>2. QED
    BY <1>1, <1>2, <2>1 DEF EnsuringInv
<1>4. CASE FlagSame(d, v, tr, late)
  <2>1. ensuring' = ensuring /\ (~inside \/ on[d] = v) /\ (~inside => ensuring = {})
    BY <1>4 DEF FlagSame, RoomInv
  <2>2. QED
    BY <1>1, <1>2, <2>1 DEF EnsuringInv
<1> QED BY <1>3, <1>4 DEF FlagSet

\* Every step preserves that an effect awaits only while the flag is raised.
LEMMA EnsuringStep ==
  ASSUME TypeOK, RefInv, RoomInv, EnsuringInv, Next
  PROVE  EnsuringInv'
<1> USE MediaAssumption, SomeIsDevice 
<1>1. ASSUME NEW c \in Clicks, NEW d \in Devices, ClickOff(c, d)
      PROVE  EnsuringInv'
  BY <1>1 DEF EnsuringInv, ClickOff
<1>2. ASSUME NEW c \in Clicks, NEW d \in Devices, ClickOffEarly(c, d)
      PROVE  EnsuringInv'
  <2>1. FlagSet(d, FALSE, NoTrack, track, {})
    BY <1>2, LowersEarly
  <2>2. QED
    BY <2>1, FlagEnsures
<1>3. ASSUME NEW c \in Clicks, NEW d \in Devices, ClickOn(c, d)
      PROVE  EnsuringInv'
  BY <1>3 DEF EnsuringInv, ClickOn
<1>4. ASSUME NEW c \in Clicks, NEW d \in Devices, ClickAcquire(c, d)
      PROVE  EnsuringInv'
  BY <1>4 DEF EnsuringInv, ClickAcquire
<1>5. ASSUME NEW c \in Clicks, NEW d \in Devices, Lower(c, d)
      PROVE  EnsuringInv'
  <2>1. FlagSet(d, FALSE, ref[d], track, {})
    BY <1>5, Lowers
  <2>2. QED
    BY <2>1, FlagEnsures
<1>6. ASSUME NEW c \in Clicks, NEW d \in Devices, Raise(c, d)
      PROVE  EnsuringInv'
  <2>1. FlagSet(d, TRUE, ref[d], track, {})
    BY <1>6, Raises
  <2>2. QED
    BY <2>1, FlagEnsures
<1>7. ASSUME NEW c \in Clicks, NEW d \in Devices, Acquire(c, d)
      PROVE  EnsuringInv'
  <2>1. PICK t \in Tracks, late \in SUBSET Tracks :
          FlagSet(d, TRUE, t, [track EXCEPT ![t] = "live"], late)
    BY <1>7, Acquires
  <2>2. QED
    BY <2>1, FlagEnsures
<1>8. ASSUME NEW c \in Clicks, NEW d \in Devices, AcquireFails(c, d)
      PROVE  EnsuringInv'
  BY <1>8 DEF EnsuringInv, AcquireFails, hookVars
<1>9. ASSUME NEW d \in Devices, Ensure(d)
      PROVE  EnsuringInv'
  BY <1>9 DEF EnsuringInv, Ensure
<1>10. ASSUME NEW d \in Devices, EnsureFails(d)
      PROVE  EnsuringInv'
  BY <1>10 DEF EnsuringInv, EnsureFails
<1>11. CASE RoomConnects
  BY <1>11 DEF EnsuringInv, RoomConnects
<1>12. CASE RoomFails
  BY <1>12 DEF EnsuringInv, RoomFails
<1>13. CASE RoomLost
  BY <1>13 DEF EnsuringInv, RoomLost
<1>14. CASE RoomEnds
  BY <1>14 DEF EnsuringInv, RoomEnds
<1>15. CASE Leave
  BY <1>15 DEF EnsuringInv, Leave
<1> QED BY <1>1, <1>2, <1>3, <1>4, <1>5, <1>6, <1>7, <1>8, <1>9, <1>10, <1>11, <1>12, <1>13, <1>14,
   <1>15 DEF Next, Click, Continue

\* Every step preserves that a device has one operation under way.
LEMMA OneStep ==
  ASSUME TypeOK, RefInv, RoomInv, EnsuringInv, OneAtATime, Next
  PROVE  OneAtATime'
<1> USE MediaAssumption, SomeIsDevice 
<1>1. ASSUME NEW c \in Clicks, NEW d \in Devices, ClickOff(c, d)
      PROVE  OneAtATime'
  BY <1>1 DEF TypeOK, TrackStates, RefInv, OneAtATime, OneOf, ClickOff, Clicked, Muted, Pending,
     Usable
<1>2. ASSUME NEW c \in Clicks, NEW d \in Devices, ClickOffEarly(c, d)
      PROVE  OneAtATime'
  <2>1. FlagSet(d, FALSE, NoTrack, track, {})
    BY <1>2, LowersEarly
  <2>2. QED
    BY <1>2, <2>1 DEF TypeOK, RoomInv, OneAtATime, OneOf, ClickOffEarly, Clicked, FlagSet,
       FlagTypes, FlagChanged, FlagSame, Awaits
<1>3. ASSUME NEW c \in Clicks, NEW d \in Devices, ClickOn(c, d)
      PROVE  OneAtATime'
  BY <1>3 DEF OneAtATime, OneOf, ClickOn, Clicked, Usable, Pending
<1>4. ASSUME NEW c \in Clicks, NEW d \in Devices, ClickAcquire(c, d)
      PROVE  OneAtATime'
  BY <1>4 DEF TypeOK, OneAtATime, OneOf, ClickAcquire, Clicked, Stopped, Pending, Usable
<1>5. ASSUME NEW c \in Clicks, NEW d \in Devices, Lower(c, d)
      PROVE  OneAtATime'
  <2>1. FlagSet(d, FALSE, ref[d], track, {})
    BY <1>5, Lowers
  <2>2. /\ UNCHANGED <<inside, ref, crossed>>
        /\ click[c] \in {d} \X Awaits
        /\ click' = [click EXCEPT ![c] = <<SomeDevice, "done">>]
    BY <1>5 DEF Lower, Awaits
  <2> SUFFICES ASSUME NEW e \in Devices \ crossed
               PROVE  OneOf(e)'
    BY <2>2 DEF OneAtATime
  <2>3. /\ OneOf(e)
        /\ \A k \in Clicks : click'[k] \in {e} \X Awaits => k # c /\ click'[k] = click[k]
        /\ \A k \in Clicks : click'[k] = <<e, "acquiring">> => click'[k] \in {e} \X Awaits
    BY <2>2, ClickDone DEF OneAtATime, Awaits
  <2>4. e \in ensuring' => e \in ensuring \/ (e = d /\ ~Usable(ref[d], track))
    <3>1. ensuring' = ensuring \ {d} \/ ensuring' = ensuring
      BY <2>1 DEF FlagSet, FlagChanged, FlagSame
    <3>2. QED
      BY <3>1
  <2>5. e = d => \A k \in Clicks : click'[k] \notin {e} \X Awaits
    BY <2>2, <2>3 DEF OneOf
  <2>6. e # d /\ ~Usable(ref[e], track) => ~Usable(ref[e], track')
    BY <2>1 DEF FlagSet, Usable, RefInv, TypeOK
  <2>7. e = d /\ e \in ensuring' => ~Usable(ref[e], track')
    BY <2>1, <2>2, <2>3 DEF FlagSet, FlagChanged, FlagSame, OneOf
  <2>8. QED
    BY <2>2, <2>3, <2>4, <2>5, <2>6, <2>7 DEF OneOf
<1>6. ASSUME NEW c \in Clicks, NEW d \in Devices, Raise(c, d)
      PROVE  OneAtATime'
  <2>1. FlagSet(d, TRUE, ref[d], track, {})
    BY <1>6, Raises
  <2>2. /\ UNCHANGED <<inside, ref, crossed>>
        /\ click[c] \in {d} \X Awaits
        /\ click' = [click EXCEPT ![c] = <<SomeDevice, "done">>]
    BY <1>6 DEF Raise, Awaits
  <2> SUFFICES ASSUME NEW e \in Devices \ crossed
               PROVE  OneOf(e)'
    BY <2>2 DEF OneAtATime
  <2>3. /\ OneOf(e)
        /\ \A k \in Clicks : click'[k] \in {e} \X Awaits => k # c /\ click'[k] = click[k]
        /\ \A k \in Clicks : click'[k] = <<e, "acquiring">> => click'[k] \in {e} \X Awaits
    BY <2>2, ClickDone DEF OneAtATime, Awaits
  <2>4. e \in ensuring' => e \in ensuring \/ (e = d /\ ~Usable(ref[d], track))
    <3>1. \/ ensuring' = ensuring \ {d} \/ ensuring' = ensuring
          \/ ensuring' = ensuring \cup {d} /\ ~Usable(ref[d], track)
      BY <2>1 DEF FlagSet, FlagChanged, FlagSame
    <3>2. QED
      BY <3>1
  <2>5. e = d => \A k \in Clicks : click'[k] \notin {e} \X Awaits
    BY <2>2, <2>3 DEF OneOf
  <2>6. e # d /\ ~Usable(ref[e], track) => ~Usable(ref[e], track')
    BY <2>1 DEF FlagSet, Usable, RefInv, TypeOK
  <2>7. e = d /\ e \in ensuring' => ~Usable(ref[e], track')
    BY <2>1, <2>2, <2>3 DEF FlagSet, FlagChanged, FlagSame, OneOf
  <2>8. QED
    BY <2>2, <2>3, <2>4, <2>5, <2>6, <2>7 DEF OneOf
<1>7. ASSUME NEW c \in Clicks, NEW d \in Devices, Acquire(c, d)
      PROVE  OneAtATime'
  <2>1. PICK t \in Tracks, late \in SUBSET Tracks :
          /\ HandOut(t, d)
          /\ FlagSet(d, TRUE, t, [track EXCEPT ![t] = "live"], late)
    BY <1>7, Acquires
  <2>2. /\ UNCHANGED <<inside, crossed>>
        /\ click[c] = <<d, "acquiring">>
        /\ click' = [click EXCEPT ![c] = <<SomeDevice, "done">>]
    BY <1>7 DEF Acquire
  <2> SUFFICES ASSUME NEW e \in Devices \ crossed
               PROVE  OneOf(e)'
    BY <2>2 DEF OneAtATime
  <2>3. /\ OneOf(e)
        /\ \A k \in Clicks : click'[k] \in {e} \X Awaits => k # c /\ click'[k] = click[k]
        /\ \A k \in Clicks : click'[k] = <<e, "acquiring">> => click'[k] \in {e} \X Awaits
    BY <2>2, ClickDone DEF OneAtATime, Awaits
  <2>4. CASE e = d
    <3>1. d \notin ensuring /\ click[c] \in {e} \X Awaits
      BY <2>2, <2>3, <2>4 DEF OneOf, Awaits
    <3>2. Usable(t, [track EXCEPT ![t] = "live"])
      BY MediaAssumption DEF Usable, TypeOK
    <3>3. d \notin ensuring'
      BY <2>1, <3>1, <3>2 DEF FlagSet, FlagChanged, FlagSame
    <3>4. \A k \in Clicks : click'[k] \notin {e} \X Awaits
      BY <2>3, <3>1 DEF OneOf
    <3>5. QED
      BY <2>3, <2>4, <3>3, <3>4 DEF OneOf
  <2>5. CASE e # d
    <3>1. ref'[e] = ref[e] /\ ref[e] # t
      BY <2>1, <2>5 DEF HandOut, RefInv
    <3>2. track'[ref[e]] = track[ref[e]] \/ ref[e] = NoTrack
      BY <2>1, <3>1 DEF FlagSet, TypeOK
    <3>3. e \in ensuring' => e \in ensuring
      <4>1. \/ ensuring' = ensuring \/ ensuring' = ensuring \ {d}
            \/ ensuring' = ensuring \cup {d}
        BY <2>1 DEF FlagSet, FlagChanged, FlagSame
      <4>2. QED
        BY <2>5, <4>1
    <3>4. QED
      BY <2>2, <2>3, <3>1, <3>2, <3>3 DEF OneOf, Usable
  <2>6. QED
    BY <2>4, <2>5
<1>8. ASSUME NEW c \in Clicks, NEW d \in Devices, AcquireFails(c, d)
      PROVE  OneAtATime'
  BY <1>8 DEF OneAtATime, OneOf, AcquireFails, hookVars, Awaits
<1>9. ASSUME NEW d \in Devices, Ensure(d)
      PROVE  OneAtATime'
  <2>1. PICK t \in Tracks : HandOut(t, d) /\ track' = [track EXCEPT ![t] = "live"]
    BY <1>9 DEF Ensure
  <2>2. /\ UNCHANGED <<inside, crossed, click>>
        /\ d \in ensuring /\ ensuring' = ensuring \ {d}
    BY <1>9 DEF Ensure
  <2> SUFFICES ASSUME NEW e \in Devices \ crossed
               PROVE  OneOf(e)'
    BY <2>2 DEF OneAtATime
  <2>3. OneOf(e)
    BY DEF OneAtATime
  <2>4. CASE e = d
    <3>1. \A k \in Clicks : click[k] \notin {e} \X Awaits
      BY <2>2, <2>3, <2>4 DEF OneOf
    <3>2. e \notin ensuring' /\ \A k \in Clicks : click'[k] \notin {e} \X Awaits
      BY <2>2, <2>4, <3>1
    <3>3. \A k \in Clicks : click'[k] # <<e, "acquiring">>
      BY <3>2 DEF Awaits
    <3>4. QED
      BY <3>2, <3>3 DEF OneOf
  <2>5. CASE e # d
    <3>1. ref'[e] = ref[e] /\ ref[e] # t
      BY <2>1, <2>5 DEF HandOut, RefInv
    <3>2. track'[ref[e]] = track[ref[e]] \/ ref[e] = NoTrack
      BY <2>1, <3>1
    <3>3. QED
      BY <2>2, <2>3, <3>1, <3>2 DEF OneOf, Usable
  <2>6. QED
    BY <2>4, <2>5
<1>10. ASSUME NEW d \in Devices, EnsureFails(d)
      PROVE  OneAtATime'
  BY <1>10 DEF OneAtATime, OneOf, EnsureFails
<1>11. CASE RoomConnects
  BY <1>11 DEF OneAtATime, OneOf, RoomConnects
<1>12. CASE RoomFails
  BY <1>12 DEF OneAtATime, OneOf, RoomFails
<1>13. CASE RoomLost
  BY <1>13 DEF TypeOK, OneAtATime, OneOf, RoomLost, Stopped, Usable
<1>14. CASE RoomEnds
  BY <1>14 DEF TypeOK, OneAtATime, OneOf, RoomEnds, Stopped, Usable
<1>15. CASE Leave
  BY <1>15 DEF OneAtATime, OneOf, Leave, Pending, Usable
<1> QED BY <1>1, <1>2, <1>3, <1>4, <1>5, <1>6, <1>7, <1>8, <1>9, <1>10, <1>11, <1>12, <1>13, <1>14,
   <1>15 DEF Next, Click, Continue

\* Every step preserves that a running track is its device's.
LEMMA OwnStep ==
  ASSUME TypeOK, RefInv, RoomInv, EnsuringInv, OneAtATime, OwnTracks, Next
  PROVE  OwnTracks'
<1> USE MediaAssumption, SomeIsDevice 
<1>1. ASSUME NEW c \in Clicks, NEW d \in Devices, ClickOff(c, d)
      PROVE  OwnTracks'
  BY <1>1 DEF RefInv, OwnTracks, ClickOff, Clicked, Muted
<1>2. ASSUME NEW c \in Clicks, NEW d \in Devices, ClickOffEarly(c, d)
      PROVE  OwnTracks'
  <2>1. FlagSet(d, FALSE, NoTrack, track, {})
    BY <1>2, LowersEarly
  <2>2. QED
    BY <1>2, <2>1 DEF OwnTracks, ClickOffEarly, Clicked, FlagSet
<1>3. ASSUME NEW c \in Clicks, NEW d \in Devices, ClickOn(c, d)
      PROVE  OwnTracks'
  BY <1>3 DEF RefInv, OwnTracks, ClickOn, Clicked
<1>4. ASSUME NEW c \in Clicks, NEW d \in Devices, ClickAcquire(c, d)
      PROVE  OwnTracks'
  BY <1>4 DEF OwnTracks, ClickAcquire, Clicked, Stopped
<1>5. ASSUME NEW c \in Clicks, NEW d \in Devices, Lower(c, d)
      PROVE  OwnTracks'
  <2>1. FlagSet(d, FALSE, ref[d], track, {})
    BY <1>5, Lowers
  <2>2. QED
    BY <1>5, <2>1 DEF TypeOK, RefInv, OneAtATime, OneOf, OwnTracks, Lower, FlagSet, Awaits
<1>6. ASSUME NEW c \in Clicks, NEW d \in Devices, Raise(c, d)
      PROVE  OwnTracks'
  <2>1. FlagSet(d, TRUE, ref[d], track, {})
    BY <1>6, Raises
  <2>2. QED
    BY <1>6, <2>1 DEF OwnTracks, Raise, FlagSet, FlagChanged, FlagSame, Usable
<1>7. ASSUME NEW c \in Clicks, NEW d \in Devices, Acquire(c, d)
      PROVE  OwnTracks'
  <2>1. PICK t \in Tracks, late \in SUBSET Tracks :
          /\ late = {} \/ (late = {t} /\ room.state = "connected")
          /\ HandOut(t, d)
          /\ FlagSet(d, TRUE, t, [track EXCEPT ![t] = "live"], late)
    BY <1>7, Acquires
  <2>2. QED
    BY <1>7, <2>1 DEF TypeOK, OneAtATime, OneOf, OwnTracks, Acquire, HandOut, FlagSet, FlagChanged,
       FlagSame, Usable, Awaits, Pending
<1>8. ASSUME NEW c \in Clicks, NEW d \in Devices, AcquireFails(c, d)
      PROVE  OwnTracks'
  BY <1>8 DEF OwnTracks, AcquireFails, hookVars
<1>9. ASSUME NEW d \in Devices, Ensure(d)
      PROVE  OwnTracks'
  BY <1>9 DEF TypeOK, RoomInv, OneAtATime, OneOf, OwnTracks, Ensure, HandOut, Usable
<1>10. ASSUME NEW d \in Devices, EnsureFails(d)
      PROVE  OwnTracks'
  BY <1>10 DEF OwnTracks, EnsureFails
<1>11. CASE RoomConnects
  BY <1>11 DEF OwnTracks, RoomConnects
<1>12. CASE RoomFails
  BY <1>12 DEF OwnTracks, RoomFails
<1>13. CASE RoomLost
  BY <1>13 DEF OwnTracks, RoomLost, Stopped
<1>14. CASE RoomEnds
  BY <1>14 DEF OwnTracks, RoomEnds, Stopped
<1>15. CASE Leave
  BY <1>15 DEF TypeOK, OwnTracks, Leave, Stopped
<1> QED BY <1>1, <1>2, <1>3, <1>4, <1>5, <1>6, <1>7, <1>8, <1>9, <1>10, <1>11, <1>12, <1>13, <1>14,
   <1>15 DEF Next, Click, Continue

\* Every step preserves that a device that is on has a live track.
LEMMA LiveStep ==
  ASSUME TypeOK, RefInv, UsedInv, RoomInv, EnsuringInv, LiveWhileOn, Next
  PROVE  LiveWhileOn'
<1> USE MediaAssumption, SomeIsDevice 
<1>1. ASSUME NEW c \in Clicks, NEW d \in Devices, ClickOff(c, d)
      PROVE  LiveWhileOn'
  <2>1. /\ UNCHANGED <<inside, on, ref, ensuring, denied, severed>>
        /\ click[c] = <<SomeDevice, "unused">>
        /\ click' = [click EXCEPT ![c] = <<d, "muting">>]
        /\ \A t \in Tracks \ {ref[d]} : track'[t] = track[t]
    BY <1>1 DEF ClickOff, Clicked, Muted
  <2> SUFFICES ASSUME inside, NEW e \in Devices
               PROVE  LiveOf(e)'
    BY <2>1 DEF LiveWhileOn
  <2>2. LiveOf(e)
    BY DEF LiveWhileOn
  <2>3. \A k \in Clicks : k # c => click'[k] = click[k]
    BY <2>1
  <2>4. e = d => click'[c] = <<e, "muting">>
    BY <2>1 DEF TypeOK
  <2>5. e # d => track'[ref[e]] = track[ref[e]] \/ ref[e] = NoTrack
    BY <2>1 DEF RefInv, TypeOK
  <2>6. QED
    BY <2>1, <2>2, <2>3, <2>4, <2>5 DEF LiveOf
<1>2. ASSUME NEW c \in Clicks, NEW d \in Devices, ClickOffEarly(c, d)
      PROVE  LiveWhileOn'
  <2>1. FlagSet(d, FALSE, NoTrack, track, {})
    BY <1>2, LowersEarly
  <2>2. /\ UNCHANGED <<inside, ref, denied>>
        /\ click[c] = <<SomeDevice, "unused">>
        /\ click' = [click EXCEPT ![c] = <<SomeDevice, "done">>]
    BY <1>2 DEF ClickOffEarly, Clicked
  <2> SUFFICES ASSUME inside, NEW e \in Devices
               PROVE  LiveOf(e)'
    BY <2>2 DEF LiveWhileOn
  <2>3. LiveOf(e) /\ \A k \in Clicks : k # c => click'[k] = click[k]
    BY <2>2 DEF LiveWhileOn
  <2>4. CASE e = d
    BY <2>1, <2>4 DEF FlagSet, LiveOf
  <2>5. CASE e # d
    <3>1. on'[e] = on[e] /\ (e \notin ensuring' => e \notin ensuring)
      BY <2>1, <2>5 DEF FlagSet, FlagChanged, FlagSame
    <3>2. track'[ref[e]] = track[ref[e]] \/ ref[e] = NoTrack
      BY <2>1 DEF FlagSet, TypeOK
    <3>3. ref[e] \notin severed' => ref[e] \notin severed
      BY <2>1 DEF FlagSet, FlagChanged, FlagSame
    <3>4. QED
      BY <2>2, <2>3, <2>5, <3>1, <3>2, <3>3 DEF LiveOf
  <2>6. QED
    BY <2>4, <2>5
<1>3. ASSUME NEW c \in Clicks, NEW d \in Devices, ClickOn(c, d)
      PROVE  LiveWhileOn'
  <2>1. /\ UNCHANGED <<inside, on, ref, ensuring, denied, severed>>
        /\ click[c] = <<SomeDevice, "unused">>
        /\ click' = [click EXCEPT ![c] = <<d, "unmuting">>]
        /\ ~on[d] /\ \A t \in Tracks \ {ref[d]} : track'[t] = track[t]
    BY <1>3 DEF ClickOn, Clicked, TypeOK
  <2> SUFFICES ASSUME inside, NEW e \in Devices
               PROVE  LiveOf(e)'
    BY <2>1 DEF LiveWhileOn
  <2>2. LiveOf(e) /\ \A k \in Clicks : k # c => click'[k] = click[k]
    BY <2>1 DEF LiveWhileOn
  <2>3. e # d => track'[ref[e]] = track[ref[e]] \/ ref[e] = NoTrack
    BY <2>1 DEF RefInv, TypeOK
  <2>4. QED
    BY <2>1, <2>2, <2>3 DEF LiveOf
<1>4. ASSUME NEW c \in Clicks, NEW d \in Devices, ClickAcquire(c, d)
      PROVE  LiveWhileOn'
  <2>1. /\ UNCHANGED <<inside, on, ref, ensuring, denied, severed>>
        /\ click[c] = <<SomeDevice, "unused">>
        /\ click' = [click EXCEPT ![c] = <<d, "acquiring">>]
        /\ ~on[d] /\ \A t \in Tracks \ {ref[d]} : track'[t] = track[t]
    BY <1>4 DEF ClickAcquire, Clicked, Stopped, TypeOK
  <2> SUFFICES ASSUME inside, NEW e \in Devices
               PROVE  LiveOf(e)'
    BY <2>1 DEF LiveWhileOn
  <2>2. LiveOf(e) /\ \A k \in Clicks : k # c => click'[k] = click[k]
    BY <2>1 DEF LiveWhileOn
  <2>3. e # d => track'[ref[e]] = track[ref[e]] \/ ref[e] = NoTrack
    BY <2>1 DEF RefInv, TypeOK
  <2>4. QED
    BY <2>1, <2>2, <2>3 DEF LiveOf
<1>5. ASSUME NEW c \in Clicks, NEW d \in Devices, Lower(c, d)
      PROVE  LiveWhileOn'
  <2>1. FlagSet(d, FALSE, ref[d], track, {})
    BY <1>5, Lowers
  <2>2. /\ UNCHANGED <<inside, ref, denied>>
        /\ click[c] = <<d, "muting">>
        /\ click' = [click EXCEPT ![c] = <<SomeDevice, "done">>]
    BY <1>5 DEF Lower
  <2> SUFFICES ASSUME inside, NEW e \in Devices
               PROVE  LiveOf(e)'
    BY <2>2 DEF LiveWhileOn
  <2>3. LiveOf(e) /\ \A k \in Clicks : k # c => click'[k] = click[k]
    BY <2>2 DEF LiveWhileOn
  <2>4. CASE e = d
    BY <2>1, <2>4 DEF FlagSet, LiveOf
  <2>5. CASE e # d
    <3>1. on'[e] = on[e] /\ (e \notin ensuring' => e \notin ensuring)
      BY <2>1, <2>5 DEF FlagSet, FlagChanged, FlagSame
    <3>2. track'[ref[e]] = track[ref[e]] \/ ref[e] = NoTrack
      BY <2>1, <2>5 DEF FlagSet, RefInv, TypeOK
    <3>3. ref[e] \notin severed' => ref[e] \notin severed
      BY <2>1 DEF FlagSet, FlagChanged, FlagSame
    <3>4. QED
      BY <2>2, <2>3, <2>5, <3>1, <3>2, <3>3 DEF LiveOf
  <2>6. QED
    BY <2>4, <2>5
<1>6. ASSUME NEW c \in Clicks, NEW d \in Devices, Raise(c, d)
      PROVE  LiveWhileOn'
  <2>1. FlagSet(d, TRUE, ref[d], track, {})
    BY <1>6, Raises
  <2>2. /\ UNCHANGED <<inside, ref, denied>>
        /\ click[c] = <<d, "unmuting">>
        /\ click' = [click EXCEPT ![c] = <<SomeDevice, "done">>]
    BY <1>6 DEF Raise
  <2> SUFFICES ASSUME inside, NEW e \in Devices
               PROVE  LiveOf(e)'
    BY <2>2 DEF LiveWhileOn
  <2>3. LiveOf(e) /\ \A k \in Clicks : k # c => click'[k] = click[k]
    BY <2>2 DEF LiveWhileOn
  <2>4. CASE e = d
    <3>1. CASE FlagChanged(d, TRUE, ref[d], track, {})
      BY <2>2, <2>4, <3>1 DEF FlagChanged, LiveOf, Usable
    <3>2. CASE FlagSame(d, TRUE, track, {})
      BY <2>2, <2>3, <2>4, <3>2 DEF FlagSame, LiveOf
    <3>3. QED
      BY <2>1, <3>1, <3>2 DEF FlagSet
  <2>5. CASE e # d
    <3>1. on'[e] = on[e] /\ (e \notin ensuring' => e \notin ensuring)
      BY <2>1, <2>5 DEF FlagSet, FlagChanged, FlagSame
    <3>2. track'[ref[e]] = track[ref[e]] \/ ref[e] = NoTrack
      BY <2>1, <2>5 DEF FlagSet, RefInv, TypeOK
    <3>3. ref[e] \notin severed' => ref[e] \notin severed
      BY <2>1 DEF FlagSet, FlagChanged, FlagSame
    <3>4. QED
      BY <2>2, <2>3, <2>5, <3>1, <3>2, <3>3 DEF LiveOf
  <2>6. QED
    BY <2>4, <2>5
<1>7. ASSUME NEW c \in Clicks, NEW d \in Devices, Acquire(c, d)
      PROVE  LiveWhileOn'
  <2>1. PICK t \in Tracks, late \in SUBSET Tracks :
          /\ HandOut(t, d)
          /\ FlagSet(d, TRUE, t, [track EXCEPT ![t] = "live"], late)
    BY <1>7, Acquires
  <2>2. /\ UNCHANGED inside
        /\ click[c] = <<d, "acquiring">>
        /\ click' = [click EXCEPT ![c] = <<SomeDevice, "done">>]
    BY <1>7 DEF Acquire
  <2> SUFFICES ASSUME inside, NEW e \in Devices
               PROVE  LiveOf(e)'
    BY <2>2 DEF LiveWhileOn
  <2>3. LiveOf(e) /\ \A k \in Clicks : k # c => click'[k] = click[k]
    BY <2>2 DEF LiveWhileOn
  <2>4. CASE e = d
    <3>1. ref'[e] = t /\ t # NoTrack
      BY <2>1, <2>4, MediaAssumption DEF HandOut, TypeOK
    <3>2. Usable(t, [track EXCEPT ![t] = "live"])
      BY MediaAssumption DEF Usable, TypeOK
    <3>3. track'[t] = "live"
      BY <2>1, <3>2 DEF FlagSet, FlagChanged, FlagSame, TypeOK
    <3>4. QED
      BY <3>1, <3>3 DEF LiveOf
  <2>5. CASE e # d
    <3>1. /\ on'[e] = on[e] /\ (e \notin ensuring' => e \notin ensuring)
          /\ ref[e] \notin severed' => ref[e] \notin severed
      BY <2>1, <2>5 DEF FlagSet, FlagChanged, FlagSame
    <3>2. /\ ref'[e] = ref[e] /\ ref[e] # t
          /\ e \notin denied' => e \notin denied
      BY <2>1, <2>5 DEF HandOut, RefInv
    <3>3. track'[ref[e]] = track[ref[e]] \/ ref[e] = NoTrack
      BY <2>1, <3>2 DEF FlagSet, TypeOK
    <3>4. QED
      BY <2>2, <2>3, <2>5, <3>1, <3>2, <3>3 DEF LiveOf
  <2>6. QED
    BY <2>4, <2>5
<1>8. ASSUME NEW c \in Clicks, NEW d \in Devices, AcquireFails(c, d)
      PROVE  LiveWhileOn'
  <2>1. /\ UNCHANGED <<inside, on, ref, track, ensuring, denied, severed>>
        /\ click[c] = <<d, "acquiring">>
        /\ click' = [click EXCEPT ![c] = <<SomeDevice, "done">>]
    BY <1>8 DEF AcquireFails, hookVars
  <2>2. \A k \in Clicks : k # c => click'[k] = click[k]
    BY <2>1
  <2> SUFFICES ASSUME inside, NEW e \in Devices
               PROVE  LiveOf(e)'
    BY <2>1 DEF LiveWhileOn
  <2>3. QED
    BY <2>1, <2>2 DEF LiveWhileOn, LiveOf
<1>9. ASSUME NEW d \in Devices, Ensure(d)
      PROVE  LiveWhileOn'
  <2>1. PICK t \in Tracks : HandOut(t, d) /\ track' = [track EXCEPT ![t] = "live"]
    BY <1>9 DEF Ensure
  <2>2. /\ UNCHANGED <<inside, click, on, severed>>
        /\ ensuring' = ensuring \ {d}
    BY <1>9 DEF Ensure
  <2> SUFFICES ASSUME inside, NEW e \in Devices
               PROVE  LiveOf(e)'
    BY <2>2 DEF LiveWhileOn
  <2>3. LiveOf(e)
    BY DEF LiveWhileOn
  <2>4. CASE e = d
    BY <2>1, <2>4, MediaAssumption DEF HandOut, LiveOf, TypeOK
  <2>5. CASE e # d
    <3>1. /\ ref'[e] = ref[e] /\ ref[e] # t
          /\ e \notin denied' => e \notin denied
      BY <2>1, <2>5 DEF HandOut, RefInv
    <3>2. track'[ref[e]] = track[ref[e]] \/ ref[e] = NoTrack
      BY <2>1, <3>1
    <3>3. QED
      BY <2>2, <2>3, <2>5, <3>1, <3>2 DEF LiveOf
  <2>6. QED
    BY <2>4, <2>5
<1>10. ASSUME NEW d \in Devices, EnsureFails(d)
      PROVE  LiveWhileOn'
  BY <1>10 DEF LiveWhileOn, LiveOf, EnsureFails
<1>11. CASE RoomConnects
  BY <1>11 DEF LiveWhileOn, LiveOf, RoomConnects
<1>12. CASE RoomFails
  BY <1>12 DEF LiveWhileOn, LiveOf, RoomFails
<1>13. CASE RoomLost
  BY <1>13 DEF TypeOK, UsedInv, RoomInv, EnsuringInv, LiveWhileOn, LiveOf, RoomLost, Stopped,
     Awaits, Usable
<1>14. CASE RoomEnds
  BY <1>14 DEF TypeOK, UsedInv, RoomInv, EnsuringInv, LiveWhileOn, LiveOf, RoomEnds, Stopped,
     Awaits, Usable
<1>15. CASE Leave
  BY <1>15 DEF LiveWhileOn, Leave
<1> QED BY <1>1, <1>2, <1>3, <1>4, <1>5, <1>6, <1>7, <1>8, <1>9, <1>10, <1>11, <1>12, <1>13, <1>14,
   <1>15 DEF Next, Click, Continue

-----------------------------------------------------------------------------
(* The invariant and the theorems *)

\* It holds when the page opens.
LEMMA InvInit == Init => IInv
<1> SUFFICES ASSUME Init
             PROVE  IInv
  OBVIOUS
<1> USE MediaAssumption, SomeIsDevice DEF Init
<1>1. TypeOK
  BY DEF TypeOK, TrackStates, ClickStates
<1>2. RefInv /\ UsedInv /\ RoomInv /\ EnsuringInv
  BY DEF RefInv, UsedInv, RoomInv, EnsuringInv
<1>3. OneAtATime
  BY DEF OneAtATime, OneOf, Awaits, Usable
<1>4. OwnTracks /\ LiveWhileOn
  BY DEF OwnTracks, LiveWhileOn, LiveOf
<1> QED BY <1>1, <1>2, <1>3, <1>4 DEF IInv

\* It is inductive.
LEMMA InvStep == IInv /\ [Next]_vars => IInv'
<1> SUFFICES ASSUME IInv, [Next]_vars
             PROVE  IInv'
  OBVIOUS
<1>1. CASE Next
  BY <1>1, TypeStep, RefStep, UsedStep, RoomStep, EnsuringStep, OneStep, OwnStep, LiveStep DEF IInv
<1>2. CASE UNCHANGED vars
  <2>1. UNCHANGED <<inside, on, ref, track, of, ensuring, click, room, ending, losses, denied,
                    severed, crossed>>
    BY <1>2 DEF vars, hookVars
  <2>2. TypeOK' /\ RefInv' /\ UsedInv' /\ RoomInv' /\ EnsuringInv'
    BY <2>1 DEF IInv, TypeOK, RefInv, UsedInv, RoomInv, EnsuringInv
  <2>3. OneAtATime' /\ OwnTracks' /\ LiveWhileOn'
    BY <2>1 DEF IInv, OneAtATime, OneOf, OwnTracks, LiveWhileOn, LiveOf, Usable
  <2>4. QED
    BY <2>2, <2>3 DEF IInv
<1> QED BY <1>1, <1>2

\* Every state of the page satisfies it.
THEOREM Invariance == Spec => []IInv
  BY InvInit, InvStep, PTL DEF Spec

\* The variables have their types.
THEOREM TypeCorrect == Spec => []TypeOK
<1>1. IInv => TypeOK
  BY DEF IInv
<1> QED BY <1>1, Invariance, PTL

\* No camera or microphone stays open behind the page or behind the track that took
\* its place, whatever the room, the effects and the clicks were in the middle of,
\* unless clicks on the device overlapped one another, its effect, or the end of the
\* page.
THEOREM TracksAreStopped == Spec => []NothingLeaks
<1>1. IInv => NothingLeaks
  BY DEF IInv, OwnTracks, NothingLeaks
<1> QED BY <1>1, Invariance, PTL

\* Who is muted is not heard, whatever overlaps: what is published is of a device whose
\* flag is raised, because lowering a flag takes the room down with it.
THEOREM MutedIsNotHeard == Spec => []MutedIsSilent
<1>1. IInv => MutedIsSilent
  BY DEF IInv, RoomInv, MutedIsSilent
<1> QED BY <1>1, Invariance, PTL

\* A page at rest has a live track of each device that is on, unless none could be had
\* or a room has stopped it.
THEOREM TracksAreKept == Spec => []KeptAlive
<1>1. IInv => KeptAlive
  <2> SUFFICES ASSUME IInv, inside, Settled, NEW d \in Devices,
                      on[d], d \notin denied, ref[d] \notin severed
               PROVE  ref[d] # NoTrack /\ track[ref[d]] = "live"
    BY DEF KeptAlive
  <2>1. LiveOf(d) /\ d \notin ensuring
    BY DEF IInv, LiveWhileOn, Settled
  <2>2. \A c \in Clicks : click[c] # <<d, "muting">>
    <3>1. \A c \in Clicks : click[c] \notin {d} \X Awaits
      BY DEF Settled, Pending
    <3>2. QED
      BY <3>1 DEF Awaits
  <2>3. QED
    BY <2>1, <2>2 DEF LiveOf
<1> QED BY <1>1, Invariance, PTL

=============================================================================
