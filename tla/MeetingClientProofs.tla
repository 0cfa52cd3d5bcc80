------------------------- MODULE MeetingClientProofs -------------------------
(***************************************************************************)
(* Proofs about MeetingClient, for every finite set of sockets, every      *)
(* limit of attempts, every number of overlapping calls, and with and      *)
(* without automatic reconnection.                                         *)
(***************************************************************************)
EXTENDS MeetingClient, FiniteSetTheorems, TLAPS

LiveSet == {s \in Sockets : Live(s)}

Lines == pending + Cardinality(Out)

\* What disconnect() reaches: a live this.ws, or the timer of the handle.  The
\* invariant says that it reaches something whenever every call still counts.
Reached ==
  \/ pending + Cardinality(LiveSet) < calls
  \/ calls = 0
  \/ ws # None /\ Live(ws)
  \/ handle

HandleIsTimer == handle => pending > 0

HungUp == explicit => ws = None /\ ~handle

\* Two rooms can exist only when one call of connectLiveKit() met the other.
RoomsCrossed == (joining > 0 /\ held = "up") \/ joining > 1 \/ stray > 0 => crossed

KnownSocket == calls <= 1 => \A s \in Sockets : Live(s) => s = ws

LineInv == Lines <= calls /\ KnownSocket /\ Reached /\ HandleIsTimer /\ HungUp

IInv == TypeOK /\ LineInv /\ HeartbeatFollowsSocket /\ RoomsCrossed

-----------------------------------------------------------------------------
\* Every set of sockets is finite, and the live ones are among those that are out.
LEMMA Counts ==
  /\ IsFiniteSet(Out) /\ Cardinality(Out) \in Nat
  /\ IsFiniteSet(LiveSet) /\ Cardinality(LiveSet) \in Nat
  /\ Cardinality(LiveSet) <= Cardinality(Out)
<1>1. Out \subseteq Sockets /\ LiveSet \subseteq Out
  BY DEF Out, LiveSet, Live
<1>2. IsFiniteSet(Out)
  BY <1>1, FS_Subset, ClientAssumption
<1>3. IsFiniteSet(LiveSet) /\ Cardinality(LiveSet) <= Cardinality(Out)
  BY <1>1, <1>2, FS_Subset
<1> QED BY <1>2, <1>3, FS_CardinalityType

\* The same in the next state.
LEMMA CountsNext ==
  /\ IsFiniteSet(Out') /\ Cardinality(Out') \in Nat
  /\ IsFiniteSet(LiveSet') /\ Cardinality(LiveSet') \in Nat
  /\ Cardinality(LiveSet') <= Cardinality(Out')
<1>1. Out' \subseteq Sockets /\ LiveSet' \subseteq Out'
  BY DEF Out, LiveSet, Live
<1>2. IsFiniteSet(Out')
  BY <1>1, FS_Subset, ClientAssumption
<1>3. IsFiniteSet(LiveSet') /\ Cardinality(LiveSet') <= Cardinality(Out')
  BY <1>1, <1>2, FS_Subset
<1> QED BY <1>2, <1>3, FS_CardinalityType

\* A socket that is made is one more.
LEMMA OneMore ==
  ASSUME IInv, NEW s \in Sockets, phase[s] = "none", phase' = [phase EXCEPT ![s] = "connecting"]
  PROVE  /\ Out' = Out \cup {s} /\ Cardinality(Out') = Cardinality(Out) + 1
         /\ phase' \in [Sockets -> Phases] /\ phase'[s] = "connecting"
<1>1. phase \in [Sockets -> Phases]
  BY DEF IInv, TypeOK
<1>2. Out' = Out \cup {s} /\ s \notin Out
  BY <1>1 DEF Out
<1> QED BY <1>1, <1>2, FS_AddElement, Counts DEF Phases

\* A socket that is gone is one less.
LEMMA OneLess ==
  ASSUME IInv, NEW s \in Sockets, phase[s] # "none", phase' = [phase EXCEPT ![s] = "none"]
  PROVE  /\ Out' = Out \ {s} /\ Cardinality(Out') = Cardinality(Out) - 1
         /\ Cardinality(Out) > 0
         /\ phase' \in [Sockets -> Phases]
<1>1. phase \in [Sockets -> Phases]
  BY DEF IInv, TypeOK
<1>2. Out' = Out \ {s} /\ s \in Out
  BY <1>1 DEF Out
<1>3. Cardinality(Out) > 0
  BY <1>2, Counts, FS_EmptySet
<1> QED BY <1>1, <1>2, <1>3, FS_RemoveElement, Counts DEF Phases

\* Two sockets that are out count two.
LEMMA TwoOut ==
  ASSUME NEW s \in Out, NEW t \in Out, s # t
  PROVE  Cardinality(Out) >= 2
<1>1. IsFiniteSet({s}) /\ Cardinality({s}) = 1
  BY FS_Singleton
<1>2. Cardinality({s} \cup {t}) = 2
  BY <1>1, FS_AddElement
<1>3. {s} \cup {t} \subseteq Out
  OBVIOUS
<1> QED BY <1>2, <1>3, Counts, FS_Subset

\* With one call a socket that is out leaves no room for a timer or another.
LEMMA AloneOut ==
  ASSUME IInv, calls <= 1, NEW s \in Out
  PROVE  pending = 0 /\ calls = 1 /\ \A t \in Sockets : t # s => phase[t] = "none"
<1>1. pending \in Nat /\ calls \in Nat /\ pending + Cardinality(Out) <= calls
  BY DEF IInv, LineInv, Lines, TypeOK
<1>2. Cardinality(Out) > 0
  BY Counts, FS_EmptySet
<1>3. Cardinality(Out) < 2
  BY <1>1, Counts
<1>4. \A t \in Sockets : t # s => t \notin Out
  BY <1>3, TwoOut, Counts
<1> QED BY <1>1, <1>2, <1>4, Counts DEF Out

-----------------------------------------------------------------------------
\* A client that was only constructed.
LEMMA InitInv == Init => IInv
<1> SUFFICES ASSUME Init PROVE IInv
  OBVIOUS
<1>1. TypeOK
  <2>1. phase \in [Sockets -> Phases] /\ ws \in Sockets \cup {None}
    BY DEF Init, Phases
  <2>2. pending \in Nat /\ calls \in Nat /\ joining \in Nat /\ stray \in Nat
        /\ attempts \in 0 .. MaxAttempts
    BY ClientAssumption DEF Init
  <2>3. ping \in BOOLEAN /\ explicit \in BOOLEAN /\ handle \in BOOLEAN /\ crossed \in BOOLEAN
        /\ held = "none"
    BY DEF Init
  <2> QED BY <2>1, <2>2, <2>3 DEF TypeOK
<1>2. Lines <= calls
  <2>1. Out = {}
    BY DEF Init, Out
  <2> QED BY <2>1, FS_EmptySet DEF Init, Lines
<1>3. KnownSocket /\ Reached /\ HandleIsTimer /\ HungUp
  BY DEF Init, KnownSocket, Live, Reached, HandleIsTimer, HungUp
<1>4. HeartbeatFollowsSocket /\ RoomsCrossed
  BY DEF Init, HeartbeatFollowsSocket, IsConnected, RoomsCrossed
<1> QED BY <1>1, <1>2, <1>3, <1>4 DEF IInv, LineInv

\* What both callers of OpenSocket, the application and the timer, rely on.
LEMMA DialInv ==
  ASSUME IInv, OpenSocket, ping' = ping, attempts' = attempts, UNCHANGED roomVars,
         pending' \in Nat, handle' \in BOOLEAN, calls' \in Nat,
         pending' + Cardinality(Out) + 1 <= calls', handle' => pending' > 0
  PROVE  IInv'
<1>1. PICK s \in Sockets : /\ phase[s] = "none"
                           /\ phase' = [phase EXCEPT ![s] = "connecting"]
                           /\ ws' = s
  BY DEF OpenSocket
<1>2. Out' = Out \cup {s} /\ Cardinality(Out') = Cardinality(Out) + 1
      /\ phase' \in [Sockets -> Phases] /\ phase'[s] = "connecting"
  BY <1>1, OneMore
<1>3. s # None /\ explicit' = FALSE
  BY ClientAssumption DEF OpenSocket
<1>4. Lines' <= calls'
  BY <1>2, Counts DEF Lines
<1>5. TypeOK'
  <2>1. ws' \in Sockets \cup {None} /\ explicit' \in BOOLEAN
    BY <1>1, <1>3
  <2>2. /\ ping' \in BOOLEAN /\ attempts' \in 0 .. MaxAttempts /\ joining' \in Nat
        /\ held' \in {"none", "up", "down"} /\ stray' \in Nat /\ crossed' \in BOOLEAN
    BY DEF IInv, TypeOK, roomVars
  <2> QED BY <1>2, <2>1, <2>2 DEF TypeOK
<1>6. KnownSocket'
  <2> SUFFICES ASSUME calls' <= 1, NEW t \in Sockets, t # s, Live(t)' PROVE FALSE
    BY <1>1 DEF KnownSocket
  <2>1. Cardinality(Out) = 0
    BY Counts
  <2>2. Out = {}
    BY <2>1, Counts, FS_EmptySet
  <2>3. phase[t] = "none"
    BY <2>2 DEF Out
  <2>4. phase'[t] = "none"
    BY <1>1, <2>3 DEF IInv, TypeOK
  <2> QED BY <2>4 DEF Live
<1>7. Reached' /\ HandleIsTimer' /\ HungUp'
  BY <1>1, <1>2, <1>3 DEF Reached, Live, HandleIsTimer, HungUp
<1>8. HeartbeatFollowsSocket'
  BY <1>1, <1>2, <1>3 DEF HeartbeatFollowsSocket, IsConnected
<1>9. RoomsCrossed'
  BY DEF IInv, RoomsCrossed, roomVars
<1> QED BY <1>4, <1>5, <1>6, <1>7, <1>8, <1>9 DEF IInv, LineInv

\* Connect keeps the inductive invariant.
LEMMA ConnectInv == IInv /\ Connect => IInv'
<1> SUFFICES ASSUME IInv, Connect PROVE IInv'
  OBVIOUS
<1>1. /\ OpenSocket /\ pending' = pending /\ handle' = handle /\ ping' = ping
      /\ attempts' = attempts /\ UNCHANGED roomVars
      /\ calls' = IF Idle THEN 1 ELSE calls + 1
  BY DEF Connect, timerVars, Call
<1>2. pending \in Nat /\ handle \in BOOLEAN /\ calls \in Nat /\ pending + Cardinality(Out) <= calls
      /\ (handle => pending > 0)
  BY DEF IInv, TypeOK, LineInv, Lines, HandleIsTimer
<1>3. Idle => pending = 0 /\ Cardinality(Out) = 0
  BY FS_EmptySet DEF Idle
<1>4. calls' \in Nat /\ pending' + Cardinality(Out) + 1 <= calls'
  BY <1>1, <1>2, <1>3, Counts
<1> QED BY <1>1, <1>2, <1>4, DialInv

\* TimerFires keeps the inductive invariant.
LEMMA TimerFiresInv == IInv /\ TimerFires => IInv'
<1> SUFFICES ASSUME IInv, TimerFires PROVE IInv'
  OBVIOUS
<1>1. pending \in Nat /\ calls \in Nat /\ pending + Cardinality(Out) <= calls
  BY DEF IInv, TypeOK, LineInv, Lines
<1>2. /\ pending > 0 /\ pending' = pending - 1 /\ handle' \in BOOLEAN
      /\ (handle' => pending > 1) /\ calls' = calls
      /\ OpenSocket /\ ping' = ping /\ attempts' = attempts /\ UNCHANGED roomVars
  BY DEF TimerFires
<1>3. pending' \in Nat /\ pending' + Cardinality(Out) + 1 <= calls' /\ (handle' => pending' > 0)
  BY <1>1, <1>2, Counts
<1> QED BY <1>1, <1>2, <1>3, DialInv

\* SocketOpens keeps the inductive invariant.
LEMMA SocketOpensInv ==
  ASSUME IInv, NEW s \in Sockets, SocketOpens(s)
  PROVE  IInv'
<1>1. /\ phase[s] = "connecting" /\ phase' = [phase EXCEPT ![s] = "open"] /\ attempts' = 0
      /\ ping' = IF ws # None /\ phase'[ws] = "open" THEN TRUE ELSE ping
      /\ ws' = ws /\ pending' = pending /\ handle' = handle /\ explicit' = explicit
      /\ UNCHANGED roomVars /\ calls' = calls
  BY DEF SocketOpens, StartHeartbeat
<1>2. phase \in [Sockets -> Phases]
  BY DEF IInv, TypeOK
<1>3. phase' \in [Sockets -> Phases] /\ \A t \in Sockets : phase'[t] = IF t = s THEN "open" ELSE phase[t]
  BY <1>1, <1>2 DEF Phases
<1>4. Out' = Out /\ LiveSet' = LiveSet
  BY <1>1, <1>3 DEF Out, LiveSet, Live
<1>5. ws \in Sockets \cup {None} /\ (ws # None /\ Live(ws) => Live(ws)')
  BY <1>1, <1>3 DEF Live, IInv, TypeOK
<1>6. TypeOK'
  <2>1. attempts' \in 0 .. MaxAttempts
    BY <1>1, ClientAssumption
  <2>2. ping' \in BOOLEAN
    BY <1>1 DEF IInv, TypeOK
  <2> QED BY <1>1, <1>3, <2>1, <2>2 DEF IInv, TypeOK, roomVars
<1>7. Lines' <= calls' /\ KnownSocket' /\ HandleIsTimer' /\ HungUp'
  BY <1>1, <1>3, <1>4 DEF IInv, LineInv, Lines, KnownSocket, Live, HandleIsTimer, HungUp
<1>8. Reached'
  BY <1>1, <1>4, <1>5 DEF IInv, LineInv, Reached
<1>9. HeartbeatFollowsSocket'
  BY <1>1 DEF IInv, HeartbeatFollowsSocket, IsConnected
<1>10. RoomsCrossed'
  BY <1>1 DEF IInv, RoomsCrossed, roomVars
<1> QED BY <1>6, <1>7, <1>8, <1>9, <1>10 DEF IInv, LineInv

\* ServerCloses keeps the inductive invariant.
LEMMA ServerClosesInv ==
  ASSUME IInv, NEW s \in Sockets, ServerCloses(s)
  PROVE  IInv'
<1>1. /\ phase[s] = "open" /\ phase' = [phase EXCEPT ![s] = "closing"]
      /\ ws' = ws /\ ping' = ping /\ pending' = pending /\ handle' = handle /\ attempts' = attempts
      /\ explicit' = explicit /\ UNCHANGED roomVars /\ calls' = calls
  BY DEF ServerCloses, timerVars
<1>2. phase \in [Sockets -> Phases] /\ pending \in Nat /\ calls \in Nat
  BY DEF IInv, TypeOK
<1>3. phase' \in [Sockets -> Phases]
      /\ \A t \in Sockets : phase'[t] = IF t = s THEN "closing" ELSE phase[t]
  BY <1>1, <1>2 DEF Phases
<1>4. Out' = Out /\ LiveSet' = LiveSet \ {s} /\ s \in LiveSet
  BY <1>1, <1>3 DEF Out, LiveSet, Live
<1>5. Cardinality(LiveSet') = Cardinality(LiveSet) - 1
  BY <1>4, Counts, FS_RemoveElement
<1>6. pending' + Cardinality(LiveSet') < calls'
  BY <1>1, <1>2, <1>5, Counts DEF IInv, LineInv, Lines
<1>7. TypeOK'
  BY <1>1, <1>3 DEF IInv, TypeOK, roomVars
<1>8. Lines' <= calls' /\ KnownSocket' /\ HandleIsTimer' /\ HungUp'
  BY <1>1, <1>3, <1>4 DEF IInv, LineInv, Lines, KnownSocket, Live, HandleIsTimer, HungUp
<1>9. HeartbeatFollowsSocket'
  BY <1>1, <1>3 DEF IInv, HeartbeatFollowsSocket, IsConnected, TypeOK
<1>10. RoomsCrossed'
  BY <1>1 DEF IInv, RoomsCrossed, roomVars
<1> QED BY <1>6, <1>7, <1>8, <1>9, <1>10 DEF IInv, LineInv, Reached

\* scheduleReconnect adds a timer and its handle, or nothing.
LEMMA ReconnectFacts ==
  ASSUME IInv, NEW wanted \in BOOLEAN, Reconnect(wanted)
  PROVE  /\ attempts' \in 0 .. MaxAttempts
         /\ \/ pending' = pending + 1 /\ handle' = TRUE /\ wanted
            \/ pending' = pending /\ handle' = handle
<1>1. attempts \in 0 .. MaxAttempts /\ MaxAttempts \in Nat
  BY ClientAssumption DEF IInv, TypeOK
<1> QED BY <1>1 DEF Reconnect, ScheduleReconnect

\* disconnect() takes one timer away, or none.
LEMMA ClearFacts ==
  ASSUME IInv, ClearTimer
  PROVE  /\ pending' \in Nat /\ pending' <= pending /\ handle' = FALSE
         /\ pending' = pending \/ pending' = pending - 1
         /\ handle => pending' < pending
  BY DEF IInv, TypeOK, LineInv, HandleIsTimer, ClearTimer

\* onclose when the listener does nothing, or calls disconnect().
LEMMA ClosedInv ==
  ASSUME IInv, NEW s \in Sockets, phase[s] # "none", phase' = [phase EXCEPT ![s] = "none"],
         ws' = None, ping' = FALSE, calls' = calls, explicit' \in BOOLEAN,
         attempts' \in 0 .. MaxAttempts, pending' \in Nat,
         joining' = joining, stray' = stray, crossed' = crossed, held' \in {held, "none"},
         \/ pending' = pending + 1 /\ handle' = TRUE /\ explicit' = FALSE
         \/ /\ pending' <= pending
            /\ handle' \in BOOLEAN /\ (handle' => pending' > 0) /\ (explicit' => ~handle')
  PROVE  IInv'
<1>1. /\ Out' = Out \ {s} /\ Cardinality(Out') = Cardinality(Out) - 1
      /\ phase' \in [Sockets -> Phases]
  BY OneLess
<1>2. pending \in Nat /\ calls \in Nat /\ pending + Cardinality(Out) <= calls
  BY DEF IInv, TypeOK, LineInv, Lines
<1>3. TypeOK'
  <2>1. handle' \in BOOLEAN /\ held' \in {"none", "up", "down"}
    BY DEF IInv, TypeOK
  <2> QED BY <1>1, <2>1 DEF IInv, TypeOK
<1>4. Lines' <= calls'
  BY <1>1, <1>2, Counts DEF Lines
<1>5. KnownSocket'
  <2> SUFFICES ASSUME calls <= 1, NEW t \in Sockets, Live(t)' PROVE FALSE
    BY DEF KnownSocket
  <2>1. \A u \in Sockets : u # s => phase[u] = "none"
    BY AloneOut DEF Out
  <2>2. phase'[t] = "none"
    BY <2>1 DEF IInv, TypeOK
  <2> QED BY <2>2 DEF Live
<1>6. Reached'
  <2>1. CASE handle'
    BY <2>1 DEF Reached
  <2>2. CASE pending' <= pending
    <3>1. pending' + Cardinality(LiveSet') < calls'
      BY <1>1, <1>2, <2>2, Counts, CountsNext
    <3> QED BY <3>1 DEF Reached
  <2> QED BY <2>1, <2>2
<1>7. HandleIsTimer' /\ HungUp'
  BY <1>2 DEF HandleIsTimer, HungUp
<1>8. HeartbeatFollowsSocket' /\ RoomsCrossed'
  BY DEF HeartbeatFollowsSocket, IsConnected, IInv, RoomsCrossed
<1> QED BY <1>3, <1>4, <1>5, <1>6, <1>7, <1>8 DEF IInv, LineInv

\* onclose when the listener calls connect().
LEMMA ClosedAndConnectInv ==
  ASSUME IInv, NEW s \in Sockets, NEW t \in Sockets, phase[s] # "none", t = s \/ phase[t] = "none",
         phase' = [phase EXCEPT ![s] = "none", ![t] = "connecting"],
         ws' = t, ping' = FALSE, calls' = calls + 1, explicit' = FALSE,
         Reconnect(TRUE), UNCHANGED roomVars
  PROVE  IInv'
<1>1. phase \in [Sockets -> Phases] /\ pending \in Nat /\ calls \in Nat /\ handle \in BOOLEAN
      /\ pending + Cardinality(Out) <= calls /\ (handle => pending > 0)
  BY DEF IInv, TypeOK, LineInv, Lines, HandleIsTimer
<1>2. /\ attempts' \in 0 .. MaxAttempts
      /\ \/ pending' = pending + 1 /\ handle' = TRUE
         \/ pending' = pending /\ handle' = handle
  BY ReconnectFacts
<1>3. phase' \in [Sockets -> Phases] /\ phase'[t] = "connecting"
  BY <1>1 DEF Phases
<1>4. Out' = (Out \ {s}) \cup {t} /\ s \in Out /\ t \notin Out \ {s}
  BY <1>1 DEF Out
<1>5. IsFiniteSet(Out \ {s}) /\ Cardinality(Out \ {s}) = Cardinality(Out) - 1
  BY <1>4, Counts, FS_RemoveElement
<1>6. Cardinality(Out') = Cardinality(Out)
  <2>1. Cardinality((Out \ {s}) \cup {t}) = Cardinality(Out \ {s}) + 1
    BY <1>4, <1>5, FS_AddElement
  <2> QED BY <1>4, <1>5, <2>1, Counts
<1>7. Cardinality(Out) > 0
  BY <1>4, Counts, FS_EmptySet
<1>8. Lines' <= calls' /\ calls' > 1
  BY <1>1, <1>2, <1>6, <1>7, Counts DEF Lines
<1>9. TypeOK'
  <2>1. pending' \in Nat /\ calls' \in Nat
    BY <1>1, <1>2
  <2>4. handle' \in BOOLEAN
    BY <1>1, <1>2
  <2>2. ws' \in Sockets \cup {None} /\ ping' \in BOOLEAN /\ explicit' \in BOOLEAN
    OBVIOUS
  <2>3. joining' \in Nat /\ held' \in {"none", "up", "down"} /\ stray' \in Nat /\ crossed' \in BOOLEAN
    BY DEF IInv, TypeOK, roomVars
  <2> QED BY <1>2, <1>3, <2>1, <2>2, <2>3, <2>4 DEF TypeOK
<1>10. KnownSocket'
  BY <1>1, <1>8 DEF KnownSocket
<1>11. t # None
  BY ClientAssumption
<1>12. Reached' /\ HandleIsTimer' /\ HungUp'
  BY <1>1, <1>2, <1>3, <1>11 DEF Reached, Live, HandleIsTimer, HungUp
<1>13. HeartbeatFollowsSocket' /\ RoomsCrossed'
  BY <1>3, <1>11 DEF HeartbeatFollowsSocket, IsConnected, IInv, RoomsCrossed, roomVars
<1> QED BY <1>8, <1>9, <1>10, <1>12, <1>13 DEF IInv, LineInv

\* The three ways an onclose goes.
LEMMA ClosedCases ==
  ASSUME NEW s \in Sockets, SocketClosed(s)
  PROVE  /\ phase[s] # "none" /\ ping' = FALSE
         /\ \/ /\ phase' = [phase EXCEPT ![s] = "none"] /\ ws' = None
               /\ Reconnect(~explicit) /\ explicit' = explicit
               /\ UNCHANGED roomVars /\ calls' = calls
            \/ /\ phase' = [phase EXCEPT ![s] = "none"] /\ ws' = None
               /\ explicit' = TRUE /\ ClearTimer /\ LeaveRoom
               /\ attempts' = attempts /\ calls' = calls
            \/ /\ calls' = calls + 1 /\ explicit' = FALSE
               /\ \E t \in Sockets :
                    /\ t = s \/ phase[t] = "none"
                    /\ phase' = [phase EXCEPT ![s] = "none", ![t] = "connecting"]
                    /\ ws' = t
               /\ Reconnect(TRUE) /\ UNCHANGED roomVars
  BY DEF SocketClosed, StopHeartbeat

\* SocketClosed keeps the inductive invariant.
LEMMA SocketClosedInv ==
  ASSUME IInv, NEW s \in Sockets, SocketClosed(s)
  PROVE  IInv'
<1>1. phase[s] # "none" /\ ping' = FALSE
  BY ClosedCases
<1>2. /\ pending \in Nat /\ handle \in BOOLEAN /\ explicit \in BOOLEAN
      /\ attempts \in 0 .. MaxAttempts /\ (handle => pending > 0) /\ (explicit => ~handle)
  BY DEF IInv, TypeOK, LineInv, HandleIsTimer, HungUp
<1>3. CASE /\ phase' = [phase EXCEPT ![s] = "none"] /\ ws' = None
           /\ Reconnect(~explicit) /\ explicit' = explicit
           /\ UNCHANGED roomVars /\ calls' = calls
  <2>1. /\ attempts' \in 0 .. MaxAttempts
        /\ \/ pending' = pending + 1 /\ handle' = TRUE /\ ~explicit
           \/ pending' = pending /\ handle' = handle
    BY <1>2, <1>3, ReconnectFacts
  <2>3. joining' = joining /\ stray' = stray /\ crossed' = crossed /\ held' = held
    BY <1>3 DEF roomVars
  <2>4. CASE pending' = pending + 1 /\ handle' = TRUE /\ ~explicit
    <3>1. pending' \in Nat /\ explicit' = FALSE
      BY <1>2, <1>3, <2>4
    <3> QED BY <1>1, <1>2, <1>3, <2>1, <2>3, <2>4, <3>1, ClosedInv
  <2>5. CASE pending' = pending /\ handle' = handle
    <3>1. pending' \in Nat /\ pending' <= pending
      BY <1>2, <2>5
    <3>2. handle' \in BOOLEAN /\ (handle' => pending' > 0) /\ (explicit' => ~handle')
      BY <1>2, <1>3, <2>5
    <3> QED BY <1>1, <1>2, <1>3, <2>1, <2>3, <2>5, <3>1, <3>2, ClosedInv
  <2> QED BY <2>1, <2>4, <2>5
<1>4. CASE /\ phase' = [phase EXCEPT ![s] = "none"] /\ ws' = None
           /\ explicit' = TRUE /\ ClearTimer /\ LeaveRoom
           /\ attempts' = attempts /\ calls' = calls
  <2>1. pending' \in Nat /\ pending' <= pending /\ handle' = FALSE
    BY <1>4, ClearFacts
  <2>2. joining' = joining /\ stray' = stray /\ crossed' = crossed /\ held' = "none"
    BY <1>4 DEF LeaveRoom
  <2> QED BY <1>1, <1>2, <1>4, <2>1, <2>2, ClosedInv
<1>5. CASE /\ calls' = calls + 1 /\ explicit' = FALSE
           /\ \E t \in Sockets :
                /\ t = s \/ phase[t] = "none"
                /\ phase' = [phase EXCEPT ![s] = "none", ![t] = "connecting"]
                /\ ws' = t
           /\ Reconnect(TRUE) /\ UNCHANGED roomVars
  BY <1>1, <1>5, ClosedAndConnectInv
<1> QED BY <1>3, <1>4, <1>5, ClosedCases

\* Disconnect keeps the inductive invariant.
LEMMA DisconnectInv == IInv /\ Disconnect => IInv'
<1> SUFFICES ASSUME IInv, Disconnect PROVE IInv'
  OBVIOUS
<1>1. /\ explicit' = TRUE /\ ping' = FALSE /\ ws' = None /\ attempts' = attempts /\ calls' = calls
      /\ held' = "none" /\ joining' = joining /\ stray' = stray /\ crossed' = crossed
  BY DEF Disconnect, StopHeartbeat, LeaveRoom
<1>2. /\ pending' \in Nat /\ pending' <= pending /\ handle' = FALSE
      /\ handle => pending' < pending
  BY ClearFacts DEF Disconnect
<1>3. /\ phase \in [Sockets -> Phases] /\ pending \in Nat /\ calls \in Nat
      /\ ws \in Sockets \cup {None} /\ pending + Cardinality(Out) <= calls
  BY DEF IInv, TypeOK, LineInv, Lines
<1>4. \A t \in Sockets : phase'[t] = IF t = ws /\ phase[t] # "none" THEN "closing" ELSE phase[t]
  BY DEF Disconnect
<1>5. phase' \in [Sockets -> Phases]
  BY <1>3 DEF Disconnect, Phases
<1>6. Out' = Out /\ LiveSet' = LiveSet \ {ws}
  BY <1>4 DEF Out, LiveSet, Live
<1>7. TypeOK'
  <2>1. ws' \in Sockets \cup {None} /\ explicit' \in BOOLEAN /\ ping' \in BOOLEAN
        /\ handle' \in BOOLEAN /\ held' \in {"none", "up", "down"}
    BY <1>1, <1>2
  <2> QED BY <1>1, <1>2, <1>5, <2>1 DEF IInv, TypeOK
<1>8. Lines' <= calls' /\ HandleIsTimer' /\ HungUp'
  BY <1>1, <1>2, <1>3, <1>6, Counts DEF Lines, HandleIsTimer, HungUp
<1>9. KnownSocket'
  BY <1>1, <1>4 DEF IInv, LineInv, KnownSocket, Live
<1>10. Cardinality(LiveSet') <= Cardinality(LiveSet)
  BY <1>6, Counts, FS_Subset
<1>11. Reached'
  <2>1. CASE handle
    BY <1>1, <1>2, <1>3, <1>10, <2>1, Counts, CountsNext DEF Reached
  <2>2. CASE ws # None /\ Live(ws)
    <3>1. ws \in LiveSet
      BY <1>3, <2>2 DEF LiveSet
    <3>2. Cardinality(LiveSet') = Cardinality(LiveSet) - 1
      BY <1>6, <3>1, Counts, FS_RemoveElement
    <3>3. pending' + Cardinality(LiveSet') < calls'
      BY <1>1, <1>2, <1>3, <3>2, Counts
    <3> QED BY <3>3 DEF Reached
  <2>3. CASE calls = 0 \/ pending + Cardinality(LiveSet) < calls
    BY <1>1, <1>2, <1>3, <1>10, <2>3, Counts, CountsNext DEF Reached
  <2> QED BY <2>1, <2>2, <2>3 DEF IInv, LineInv, Reached
<1>12. HeartbeatFollowsSocket' /\ RoomsCrossed'
  BY <1>1 DEF HeartbeatFollowsSocket, IsConnected, IInv, RoomsCrossed
<1> QED BY <1>7, <1>8, <1>9, <1>11, <1>12 DEF IInv, LineInv

\* The steps of the LiveKit rooms leave the line alone.
LEMMA RoomInv ==
  ASSUME IInv, UNCHANGED <<socketVars, timerVars, explicit, calls>>,
         joining' \in Nat, held' \in {"none", "up", "down"}, stray' \in Nat, crossed' \in BOOLEAN,
         RoomsCrossed'
  PROVE  IInv'
<1>1. phase' = phase /\ ws' = ws /\ ping' = ping /\ pending' = pending /\ handle' = handle
      /\ attempts' = attempts /\ explicit' = explicit /\ calls' = calls
  BY DEF socketVars, timerVars
<1>2. Out' = Out /\ LiveSet' = LiveSet
  BY <1>1 DEF Out, LiveSet, Live
<1>3. TypeOK'
  BY <1>1 DEF IInv, TypeOK
<1>4. LineInv'
  BY <1>1, <1>2 DEF IInv, LineInv, Lines, KnownSocket, Live, Reached, HandleIsTimer, HungUp
<1>5. HeartbeatFollowsSocket'
  BY <1>1 DEF IInv, HeartbeatFollowsSocket, IsConnected
<1> QED BY <1>3, <1>4, <1>5 DEF IInv

\* The steps of the LiveKit rooms keep the inductive invariant.
LEMMA RoomStepsInv ==
  ASSUME IInv, ConnectLiveKit \/ RoomJoined \/ RoomLost
  PROVE  IInv'
<1>1. /\ joining \in Nat /\ held \in {"none", "up", "down"} /\ stray \in Nat /\ crossed \in BOOLEAN
      /\ RoomsCrossed
  BY DEF IInv, TypeOK
<1>2. CASE ConnectLiveKit
  <2>1. /\ joining' = joining + 1 /\ held' = held /\ stray' = stray /\ crossed' = ~NoRoom
        /\ UNCHANGED <<socketVars, timerVars, explicit, calls>>
    BY <1>2 DEF ConnectLiveKit
  <2>2. RoomsCrossed'
    <3>1. (joining' > 0 /\ held' = "up") \/ joining' > 1 \/ stray' > 0 => ~NoRoom
      BY <1>1, <2>1 DEF NoRoom
    <3> QED BY <2>1, <3>1 DEF RoomsCrossed
  <2>3. joining' \in Nat /\ crossed' \in BOOLEAN
    BY <1>1, <2>1
  <2> QED BY <1>1, <2>1, <2>2, <2>3, RoomInv
<1>3. CASE RoomJoined
  <2>1. /\ joining > 0 /\ joining' = joining - 1 /\ held' = "up" /\ crossed' = crossed
        /\ stray' = IF held = "up" THEN stray + 1 ELSE stray
        /\ UNCHANGED <<socketVars, timerVars, explicit, calls>>
    BY <1>3 DEF RoomJoined
  <2>2. RoomsCrossed'
    BY <1>1, <2>1 DEF RoomsCrossed
  <2>3. joining' \in Nat /\ stray' \in Nat
    BY <1>1, <2>1
  <2> QED BY <1>1, <2>1, <2>2, <2>3, RoomInv
<1>4. CASE RoomLost
  <2>1. /\ joining' \in Nat /\ joining' <= joining /\ stray' \in Nat /\ stray' <= stray
        /\ held' \in {held, "down"} /\ crossed' = crossed
        /\ UNCHANGED <<socketVars, timerVars, explicit, calls>>
    BY <1>1, <1>4 DEF RoomLost
  <2>2. RoomsCrossed'
    BY <1>1, <2>1 DEF RoomsCrossed
  <2> QED BY <1>1, <2>1, <2>2, RoomInv
<1> QED BY <1>2, <1>3, <1>4

\* Every step keeps the inductive invariant, and so does stuttering.
LEMMA StepInv == IInv /\ [Next]_vars => IInv'
<1> SUFFICES ASSUME IInv, [Next]_vars PROVE IInv'
  OBVIOUS
<1>1. CASE Connect
  BY <1>1, ConnectInv
<1>2. CASE TimerFires
  BY <1>2, TimerFiresInv
<1>3. ASSUME NEW s \in Sockets, SocketOpens(s) \/ ServerCloses(s) \/ SocketClosed(s)
      PROVE  IInv'
  BY <1>3, SocketOpensInv, ServerClosesInv, SocketClosedInv
<1>4. CASE Disconnect
  BY <1>4, DisconnectInv
<1>5. CASE ConnectLiveKit \/ RoomJoined \/ RoomLost
  BY <1>5, RoomStepsInv
<1>6. CASE UNCHANGED vars
  <2>1. /\ joining' \in Nat /\ held' \in {"none", "up", "down"} /\ stray' \in Nat
        /\ crossed' \in BOOLEAN /\ RoomsCrossed'
    BY <1>6 DEF vars, roomVars, IInv, TypeOK, RoomsCrossed
  <2> QED BY <1>6, <2>1, RoomInv DEF vars
<1> QED BY <1>1, <1>2, <1>3, <1>4, <1>5, <1>6 DEF Next

\* In every reachable state the client has its types and the strengthening.
THEOREM Invariance == Spec => []IInv
<1>1. Init => IInv
  BY InitInv
<1>2. IInv /\ [Next]_vars => IInv'
  BY StepInv
<1> QED BY <1>1, <1>2, PTL DEF Spec

\* Type correctness of the SDK's state.
THEOREM TypeCorrect == Spec => []TypeOK
  BY Invariance, PTL DEF IInv

\* The late closes of old sockets, each of which drops this.ws and schedules a
\* timer (connect, onclose and scheduleReconnect together), never make more
\* sockets and timers than connect() was called.
THEOREM OneLineAlways == Spec => []OneLine
<1>1. IInv => OneLine
  BY DEF IInv, LineInv, Lines, KnownSocket, OneLine
<1> QED BY <1>1, Invariance, PTL

\* disconnect() always takes back one call, and after one call leaves nothing
\* that could open a connection.
THEOREM HangUpIsFinal == Spec => []HangUpReachesAll
<1>1. IInv => HangUpReachesAll
  BY DEF IInv, LineInv, Reached, HungUp, RoomsCrossed, HangUpReachesAll, LiveSet
<1> QED BY <1>1, Invariance, PTL

\* The heartbeat timer runs while this.ws is open, also after an older socket's
\* onclose has stopped it.
THEOREM HeartbeatInStep == Spec => []HeartbeatFollowsSocket
  BY Invariance, PTL DEF IInv
-----------------------------------------------------------------------------
\* A client that was only constructed has no line.
LEMMA LineInit == Init => L!LinkInit
<1>1. Init => Out = {}
  BY DEF Init, Out
<1> QED BY <1>1, FS_EmptySet DEF Init, L!LinkInit

\* connect() and a reconnect timer dial.
LEMMA DialCounts ==
  ASSUME IInv, OpenSocket
  PROVE  Cardinality(Out') = Cardinality(Out) + 1 /\ explicit' = FALSE
  BY OneMore DEF OpenSocket

\* The application's connect() is a line more.
LEMMA ConnectSimulates == IInv /\ Connect => L!Dial
<1> SUFFICES ASSUME IInv, Connect PROVE L!Dial
  OBVIOUS
<1>1. Cardinality(Out') = Cardinality(Out) + 1 /\ explicit' = FALSE
  BY DialCounts DEF Connect
<1>2. /\ pending' = pending /\ attempts' = attempts
      /\ calls' = IF Idle THEN 1 ELSE calls + 1
  BY DEF Connect, timerVars, Call
<1>3. Idle <=> Cardinality(Out) + pending = 0
  <2>1. Out = {} <=> Cardinality(Out) = 0
    BY Counts, FS_EmptySet
  <2>2. pending \in Nat
    BY DEF IInv, TypeOK
  <2> QED BY <2>1, <2>2, Counts DEF Idle
<1> QED BY <1>1, <1>2, <1>3 DEF L!Dial, L!Grant

\* A reconnect timer redials the line that waited.
LEMMA TimerSimulates == IInv /\ TimerFires => L!Redial
  BY DialCounts DEF TimerFires, L!Redial

\* onopen is the answer on one line.
LEMMA OpensSimulates ==
  ASSUME IInv, NEW s \in Sockets, SocketOpens(s)
  PROVE  L!Answer
<1>1. phase[s] = "connecting" /\ phase' = [phase EXCEPT ![s] = "open"] /\ attempts' = 0
      /\ pending' = pending /\ explicit' = explicit /\ calls' = calls
  BY DEF SocketOpens
<1>2. Out' = Out /\ s \in Out
  BY <1>1 DEF IInv, TypeOK, Out
<1>3. Cardinality(Out) > 0
  BY <1>2, Counts, FS_EmptySet
<1> QED BY <1>1, <1>2, <1>3 DEF L!Answer

\* The server's close changes nothing before the close event.
LEMMA ServerClosesSimulates ==
  ASSUME IInv, NEW s \in Sockets, ServerCloses(s)
  PROVE  UNCHANGED L!linkVars
<1>1. phase[s] = "open" /\ phase' = [phase EXCEPT ![s] = "closing"] /\ attempts' = attempts
      /\ pending' = pending /\ explicit' = explicit /\ calls' = calls
  BY DEF ServerCloses, timerVars
<1>2. Out' = Out
  BY <1>1 DEF IInv, TypeOK, Out
<1> QED BY <1>1, <1>2 DEF L!linkVars

\* scheduleReconnect is the retry of Link.
LEMMA ReconnectSimulates ==
  ASSUME IInv, NEW wanted \in BOOLEAN, Reconnect(wanted)
  PROVE  L!Retry(wanted)
<1>1. attempts \in 0 .. MaxAttempts /\ MaxAttempts \in Nat
  BY ClientAssumption DEF IInv, TypeOK
<1> QED BY <1>1 DEF Reconnect, ScheduleReconnect, L!Retry

\* The clearing of the reconnect timer takes back at most one waiting line.
LEMMA ClearSimulates ==
  ASSUME IInv, ClearTimer
  PROVE  L!TakeBack
  BY ClearFacts DEF L!TakeBack

\* onclose loses a line, whichever socket this.ws is.
LEMMA ClosedSimulates ==
  ASSUME IInv, NEW s \in Sockets, SocketClosed(s)
  PROVE  L!LinkNext
<1>1. phase[s] # "none" /\ explicit \in BOOLEAN
  BY ClosedCases DEF IInv, TypeOK
<1>2. CASE /\ phase' = [phase EXCEPT ![s] = "none"] /\ ws' = None
           /\ Reconnect(~explicit) /\ explicit' = explicit
           /\ UNCHANGED roomVars /\ calls' = calls
  <2>1. Cardinality(Out') = Cardinality(Out) - 1 /\ Cardinality(Out) > 0
    BY <1>1, <1>2, OneLess
  <2>2. L!Retry(~explicit)
    BY <1>1, <1>2, ReconnectSimulates
  <2> QED BY <1>2, <2>1, <2>2 DEF L!LinkNext, L!Lose
<1>3. CASE /\ phase' = [phase EXCEPT ![s] = "none"] /\ ws' = None
           /\ explicit' = TRUE /\ ClearTimer /\ LeaveRoom
           /\ attempts' = attempts /\ calls' = calls
  <2>1. Cardinality(Out') = Cardinality(Out) - 1 /\ Cardinality(Out) > 0
    BY <1>1, <1>3, OneLess
  <2>2. L!TakeBack
    BY <1>3, ClearSimulates
  <2> QED BY <1>3, <2>1, <2>2 DEF L!LinkNext, L!LoseAndHangUp
<1>4. CASE /\ calls' = calls + 1 /\ explicit' = FALSE
           /\ \E t \in Sockets :
                /\ t = s \/ phase[t] = "none"
                /\ phase' = [phase EXCEPT ![s] = "none", ![t] = "connecting"]
                /\ ws' = t
           /\ Reconnect(TRUE) /\ UNCHANGED roomVars
  <2>1. PICK t \in Sockets : /\ t = s \/ phase[t] = "none"
                             /\ phase' = [phase EXCEPT ![s] = "none", ![t] = "connecting"]
    BY <1>4
  <2>2. Out' = (Out \ {s}) \cup {t} /\ s \in Out /\ t \notin Out \ {s}
    BY <1>1, <2>1 DEF IInv, TypeOK, Out
  <2>3. IsFiniteSet(Out \ {s}) /\ Cardinality(Out \ {s}) = Cardinality(Out) - 1
    BY <2>2, Counts, FS_RemoveElement
  <2>4. Cardinality(Out') = Cardinality(Out) /\ Cardinality(Out) > 0
    <3>1. Cardinality((Out \ {s}) \cup {t}) = Cardinality(Out \ {s}) + 1
      BY <2>2, <2>3, FS_AddElement
    <3>2. Cardinality(Out) > 0
      BY <2>2, Counts, FS_EmptySet
    <3> QED BY <2>2, <2>3, <3>1, <3>2, Counts
  <2>5. L!Retry(TRUE)
    BY <1>4, ReconnectSimulates
  <2> QED BY <1>4, <2>4, <2>5 DEF L!LinkNext, L!LoseAndDial
<1> QED BY <1>2, <1>3, <1>4, ClosedCases

\* disconnect() hangs up, and takes back at most one waiting line.
LEMMA DisconnectSimulates ==
  ASSUME IInv, Disconnect
  PROVE  L!HangUp
<1>1. Out' = Out
  BY DEF Disconnect, IInv, TypeOK, Out
<1>2. L!TakeBack
  BY ClearSimulates DEF Disconnect
<1> QED BY <1>1, <1>2 DEF Disconnect, L!HangUp

\* One step of the client is one step of the lines, or none.
LEMMA StepSimulates == IInv /\ [Next]_vars => [L!LinkNext]_(L!linkVars)
<1> SUFFICES ASSUME IInv, [Next]_vars PROVE L!LinkNext \/ UNCHANGED L!linkVars
  OBVIOUS
<1>1. CASE Connect
  BY <1>1, ConnectSimulates DEF L!LinkNext
<1>2. CASE TimerFires
  BY <1>2, TimerSimulates DEF L!LinkNext
<1>3. ASSUME NEW s \in Sockets, SocketOpens(s)
      PROVE  L!LinkNext \/ UNCHANGED L!linkVars
  BY <1>3, OpensSimulates DEF L!LinkNext
<1>4. ASSUME NEW s \in Sockets, ServerCloses(s)
      PROVE  L!LinkNext \/ UNCHANGED L!linkVars
  BY <1>4, ServerClosesSimulates
<1>5. ASSUME NEW s \in Sockets, SocketClosed(s)
      PROVE  L!LinkNext \/ UNCHANGED L!linkVars
  BY <1>5, ClosedSimulates
<1>6. CASE Disconnect
  BY <1>6, DisconnectSimulates DEF L!LinkNext
<1>7. CASE ConnectLiveKit \/ RoomJoined \/ RoomLost \/ UNCHANGED vars
  <2>1. UNCHANGED <<phase, pending, attempts, explicit, calls>>
    BY <1>7 DEF ConnectLiveKit, RoomJoined, RoomLost, vars, socketVars, timerVars
  <2> QED BY <2>1 DEF L!linkVars, Out
<1> QED BY <1>1, <1>2, <1>3, <1>4, <1>5, <1>6, <1>7 DEF Next

\* The client, with connect() called whenever the application likes, implements
\* the bundle of lines of Link.
THEOREM Implementation == Spec => ImplementsLink
<1>1. Init => L!LinkInit
  BY LineInit
<1>2. IInv /\ [Next]_vars => [L!LinkNext]_(L!linkVars)
  BY StepSimulates
<1> QED BY <1>1, <1>2, Invariance, PTL DEF Spec, ImplementsLink, L!LinkSpec
=============================================================================
