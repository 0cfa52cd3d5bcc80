----------------------------- MODULE GatewayProofs -----------------------------
(***************************************************************************)
(* Proofs about Gateway, for any number of participants and connections.   *)
(* What is said of the clients' views holds while every participant        *)
(* connects once: a second session under an id is unregistered by the end  *)
(* of the first.  What is said of the presence set in Redis holds of any   *)
(* number of reconnections and errors.                                     *)
(***************************************************************************)
EXTENDS Gateway, FiniteSetTheorems, TLAPS

OncePerParticipant == \A c, d \in Conns : Pid[c] = Pid[d] => c = d

Elems(s) == {s[i] : i \in DOMAIN s}

Distinct(s) == \A i, j \in DOMAIN s : Pid[s[i]] = Pid[s[j]] => i = j

\* The client has its room state, and its handler is not on its way out.
Greeted == {"announce", "announcing", "loop", "chatting"}

\* A connection is registered from connect() to disconnect().
RoomInv ==
  \A c \in Conns : c \in Registered <=> pc[c] \in {"presence", "greet", "failed"} \cup Greeted

LinkInv ==
  \A c \in Conns :
    /\ link[c] = "open" => pc[c] \in {"presence", "greet"} \cup Greeted
    /\ link[c] = "new" => pc[c] = "new"

\* What a handler broadcasts is about its own participant.
FrameInv ==
  \A c \in Conns :
    /\ pc[c] = "announcing" => frame[c].kind = "JOINED" /\ frame[c].who = {Pid[c]}
    /\ pc[c] = "leaving" => frame[c].kind = "LEFT" /\ frame[c].who = {Pid[c]}
    /\ pc[c] = "chatting" => frame[c].kind = "CAPTION"

PartsInv == \A c \in Conns : view[c].parts \subseteq {Pid[d] : d \in Conns}

\* What c has to know of d: d is there once its arrival has been sent to c, and
\* is not once its leaving has.  In between c may have it either way.
KnownInv(c, d) ==
  link[c] = "open" /\ pc[c] \in Greeted =>
    /\ \/ d = c
       \/ pc[d] \in {"loop", "chatting"}
       \/ pc[d] = "announcing" /\ c \notin Elems(todo[d])
       => Pid[d] \in view[c].parts
    /\ \/ pc[d] \in {"new", "done"}
       \/ pc[d] = "leaving" /\ c \notin Elems(todo[d])
       => Pid[d] \notin view[c].parts

ViewInv == RoomInv /\ LinkInv /\ FrameInv /\ PartsInv /\ \A c, d \in Conns : KnownInv(c, d)

\* A handler between telling Redis that its participant is there, and gone.
Told == {"greet", "announce", "announcing", "loop", "chatting"}

\* A handler that has the id p to itself: it is registered until its disconnect(),
\* and in Redis from the end of connect() to then.  Without one, they agree.
IdInv(p) ==
  /\ \A c, d \in Conns : Pid[c] = p /\ Pid[d] = p /\ InTouch(c) /\ InTouch(d) => c = d
  /\ \A c \in Conns : Pid[c] = p /\ InTouch(c) =>
       /\ p \in Present <=> pc[c] # "absent"
       /\ pc[c] \in Told => p \in presence
  /\ (\A c \in Conns : Pid[c] = p => ~InTouch(c)) => (p \in presence <=> p \in Present)

PresenceInv ==
  /\ \A c \in Conns : link[c] = "new" => pc[c] = "new"
  /\ \A p \in Participants \ hazy : IdInv(p)

-----------------------------------------------------------------------------
(* The room *)

\* One sequence after another.
LEMMA Joined ==
  ASSUME NEW S, NEW a \in Seq(S), NEW b \in Seq(S)
  PROVE  /\ a \o b \in Seq(S) /\ Len(a \o b) = Len(a) + Len(b)
         /\ \A j \in 1 .. Len(a) : (a \o b)[j] = a[j]
         /\ \A j \in Len(a) + 1 .. Len(a) + Len(b) : (a \o b)[j] = b[j - Len(a)]
<1>1. a \o b \in Seq(S) /\ Len(a \o b) = Len(a) + Len(b)
  OBVIOUS
<1>2. \A j \in 1 .. Len(a) : (a \o b)[j] = a[j]
  OBVIOUS
<1>3. ASSUME NEW j \in Len(a) + 1 .. Len(a) + Len(b)
      PROVE  (a \o b)[j] = b[j - Len(a)]
  OBVIOUS
<1> QED BY <1>1, <1>2, <1>3

\* A sequence without the entry at i.
LEMMA RemoveAtTyped ==
  ASSUME NEW S, NEW s \in Seq(S), NEW i \in DOMAIN s
  PROVE  /\ RemoveAt(s, i) \in Seq(S)
         /\ Len(RemoveAt(s, i)) = Len(s) - 1
         /\ DOMAIN RemoveAt(s, i) = 1 .. Len(s) - 1
         /\ \A j \in 1 .. Len(s) - 1 : RemoveAt(s, i)[j] = s[IF j < i THEN j ELSE j + 1]
<1> DEFINE a == SubSeq(s, 1, i - 1)
           b == SubSeq(s, i + 1, Len(s))
<1>1. i \in 1 .. Len(s) /\ Len(s) \in Nat
  OBVIOUS
<1>2. /\ a \in Seq(S) /\ b \in Seq(S)
      /\ Len(a) = i - 1 /\ Len(b) = Len(s) - i
      /\ \A j \in 1 .. i - 1 : a[j] = s[j]
      /\ \A j \in 1 .. Len(s) - i : b[j] = s[i + j]
  OBVIOUS
<1>3. RemoveAt(s, i) = a \o b
  BY DEF RemoveAt
<1> HIDE DEF a, b
<1>4. /\ a \o b \in Seq(S) /\ Len(a \o b) = Len(a) + Len(b)
      /\ \A j \in 1 .. Len(a) : (a \o b)[j] = a[j]
      /\ \A j \in Len(a) + 1 .. Len(a) + Len(b) : (a \o b)[j] = b[j - Len(a)]
  BY <1>2, Joined
<1>5. ASSUME NEW j \in 1 .. Len(s) - 1
      PROVE  RemoveAt(s, i)[j] = s[IF j < i THEN j ELSE j + 1]
  <2>1. CASE j < i
    <3>1. j \in 1 .. i - 1 /\ j \in 1 .. Len(a)
      BY <1>1, <1>2, <2>1
    <3>2. QED
      BY <1>2, <1>3, <1>4, <2>1, <3>1
  <2>2. CASE ~(j < i)
    <3>1. /\ j - Len(a) \in 1 .. Len(s) - i /\ j \in Len(a) + 1 .. Len(a) + Len(b)
          /\ i + (j - Len(a)) = j + 1
      BY <1>1, <1>2, <2>2
    <3>2. (a \o b)[j] = b[j - Len(a)] /\ b[j - Len(a)] = s[i + (j - Len(a))]
      BY <1>2, <1>4, <3>1
    <3>3. QED
      BY <1>3, <2>2, <3>1, <3>2
  <2>3. QED
    BY <2>1, <2>2
<1>6. RemoveAt(s, i) \in Seq(S) /\ Len(RemoveAt(s, i)) = Len(s) - 1
  BY <1>1, <1>2, <1>3, <1>4
<1>7. DOMAIN RemoveAt(s, i) = 1 .. Len(s) - 1
  BY <1>6
<1> QED BY <1>5, <1>6, <1>7

\* The room without the session of p.
LEMMA OthersTyped ==
  ASSUME TypeOK, NEW p
  PROVE  /\ Others(p) \in Seq(Conns) /\ Distinct(Others(p))
         /\ \A c \in Conns : c \in Elems(Others(p)) <=> c \in Registered /\ Pid[c] # p
<1>1. room \in Seq(Conns) /\ Distinct(room)
  BY DEF TypeOK, Distinct
<1>2. CASE p \notin Present
  <2>1. Others(p) = room
    BY <1>2 DEF Others
  <2>2. \A c \in Conns : c \in Registered => Pid[c] # p
    BY <1>2 DEF Present
  <2>3. QED
    BY <1>1, <2>1, <2>2 DEF Elems, Registered
<1>3. CASE p \in Present
  <2> DEFINE k == CHOOSE i \in DOMAIN room : Pid[room[i]] = p
             t == Others(p)
  <2>1. \E i \in DOMAIN room : Pid[room[i]] = p
    BY <1>3 DEF Present, Registered
  <2>2. k \in DOMAIN room /\ Pid[room[k]] = p
    BY <2>1
  <2>3. t = RemoveAt(room, k)
    BY <1>3 DEF Others
  <2> HIDE DEF k, t
  <2>4. /\ t \in Seq(Conns) /\ DOMAIN t = 1 .. Len(room) - 1
        /\ \A j \in 1 .. Len(room) - 1 : t[j] = room[IF j < k THEN j ELSE j + 1]
    BY <1>1, <2>2, <2>3, RemoveAtTyped
  <2>5. DOMAIN room = 1 .. Len(room) /\ Len(room) \in Nat /\ k \in 1 .. Len(room)
    BY <1>1, <2>2
  <2>6. Distinct(t)
    <3> SUFFICES ASSUME NEW i \in DOMAIN t, NEW j \in DOMAIN t, Pid[t[i]] = Pid[t[j]]
                 PROVE  i = j
      BY DEF Distinct
    <3> DEFINE at(n) == IF n < k THEN n ELSE n + 1
    <3>1. i \in Nat /\ j \in Nat /\ k \in Nat /\ at(i) \in DOMAIN room /\ at(j) \in DOMAIN room
      BY <2>4, <2>5
    <3>2. at(i) = at(j)
      BY <1>1, <2>4, <3>1 DEF Distinct
    <3>3. QED
      BY <3>1, <3>2
  <2>7. ASSUME NEW c \in Conns
        PROVE  c \in Elems(t) <=> c \in Registered /\ Pid[c] # p
    <3>1. ASSUME NEW j \in DOMAIN t, c = t[j]
          PROVE  c \in Registered /\ Pid[c] # p
      <4> DEFINE n == IF j < k THEN j ELSE j + 1
      <4>1. n \in DOMAIN room /\ n # k /\ c = room[n]
        BY <2>4, <2>5, <3>1
      <4> HIDE DEF n
      <4>2. QED
        BY <1>1, <2>2, <4>1 DEF Registered, Distinct
    <3>2. ASSUME NEW i \in DOMAIN room, c = room[i], Pid[c] # p
          PROVE  c \in Elems(t)
      <4> DEFINE j == IF i < k THEN i ELSE i - 1
      <4>1. i # k
        BY <2>2, <3>2
      <4>2. j \in 1 .. Len(room) - 1 /\ (IF j < k THEN j ELSE j + 1) = i
        BY <2>5, <4>1
      <4> HIDE DEF j
      <4>3. t[j] = c /\ j \in DOMAIN t
        BY <2>4, <3>2, <4>2
      <4>4. QED
        BY <4>3 DEF Elems
    <3>3. QED
      BY <3>1, <3>2 DEF Elems, Registered
  <2>8. QED
    BY <2>4, <2>6, <2>7 DEF t
<1> QED BY <1>2, <1>3

\* A registration takes the place of the participant's last one.
LEMMA RegisterTyped ==
  ASSUME TypeOK, NEW c \in Conns, Register(c)
  PROVE  /\ room' \in Seq(Conns) /\ Distinct(room')
         /\ \A d \in Conns : d \in Registered' <=> d = c \/ (d \in Registered /\ Pid[d] # Pid[c])
<1>1. /\ room \in Seq(Conns) /\ Distinct(room)
      /\ DOMAIN room = 1 .. Len(room) /\ Len(room) \in Nat
      /\ \A i \in DOMAIN room : room[i] \in Conns
  BY DEF TypeOK, Distinct
<1>2. CASE Pid[c] \in Present
  <2>1. room' = [i \in DOMAIN room |-> IF Pid[room[i]] = Pid[c] THEN c ELSE room[i]]
    BY <1>2 DEF Register
  <2>2. room' \in Seq(Conns) /\ DOMAIN room' = DOMAIN room
    BY <1>1, <2>1
  <2>3. \A i \in DOMAIN room : room'[i] = IF Pid[room[i]] = Pid[c] THEN c ELSE room[i]
    BY <2>1
  <2>4. Distinct(room')
    BY <1>1, <2>2, <2>3 DEF Distinct
  <2>5. PICK i \in DOMAIN room : Pid[room[i]] = Pid[c]
    BY <1>2 DEF Present, Registered
  <2>6. ASSUME NEW d \in Conns
        PROVE  d \in Registered' <=> d = c \/ (d \in Registered /\ Pid[d] # Pid[c])
    BY <2>2, <2>3, <2>5 DEF Registered
  <2>7. QED
    BY <2>2, <2>4, <2>6
<1>3. CASE Pid[c] \notin Present
  <2>1. room' = Append(room, c)
    BY <1>3 DEF Register
  <2>2. /\ room' \in Seq(Conns) /\ DOMAIN room' = 1 .. Len(room) + 1
        /\ room'[Len(room) + 1] = c /\ \A i \in 1 .. Len(room) : room'[i] = room[i]
    BY <1>1, <2>1
  <2>3. \A i \in 1 .. Len(room) : Pid[room[i]] # Pid[c]
    BY <1>1, <1>3 DEF Present, Registered
  <2>4. Distinct(room')
    <3> SUFFICES ASSUME NEW i \in 1 .. Len(room) + 1, NEW j \in 1 .. Len(room) + 1,
                        Pid[room'[i]] = Pid[room'[j]]
                 PROVE  i = j
      BY <2>2 DEF Distinct
    <3>1. CASE i \in 1 .. Len(room) /\ j \in 1 .. Len(room)
      BY <1>1, <2>2, <3>1 DEF Distinct
    <3>2. CASE i = Len(room) + 1 /\ j = Len(room) + 1
      BY <3>2
    <3>3. CASE i = Len(room) + 1 /\ j \in 1 .. Len(room)
      BY <2>2, <2>3, <3>3
    <3>4. CASE i \in 1 .. Len(room) /\ j = Len(room) + 1
      BY <2>2, <2>3, <3>4
    <3>5. QED
      BY <1>1, <3>1, <3>2, <3>3, <3>4
  <2>5. ASSUME NEW d \in Conns
        PROVE  d \in Registered' <=> d = c \/ (d \in Registered /\ Pid[d] # Pid[c])
    <3>1. d \in Registered => Pid[d] # Pid[c]
      BY <1>3 DEF Present
    <3>2. d \in Registered' <=> d = c \/ d \in Registered
      BY <1>1, <2>2 DEF Registered
    <3>3. QED
      BY <3>1, <3>2
  <2>6. QED
    BY <2>2, <2>4, <2>5
<1> QED BY <1>2, <1>3

-----------------------------------------------------------------------------
(* Types *)

Framed(k, v, who) == [kind |-> k, ver |-> v, who |-> who]

\* Frames, and what a client makes of them.
LEMMA FrameTyped ==
  /\ \A k \in Kinds, v \in Nat, w \in SUBSET Participants : Framed(k, v, w) \in Frame
  /\ NoFrame \in Frame
  /\ \A v \in View, f \in Frame : Apply(v, f) \in View
  BY DEF Framed, Frame, Kinds, NoFrame, View, Apply

\* Participants are ids.
LEMMA PresentTyped ==
  ASSUME TypeOK
  PROVE  Present \in SUBSET Participants /\ \A c \in Conns : {Pid[c]} \in SUBSET Participants
  BY GatewayAssumption DEF TypeOK, Present, Registered

\* The window of the last frames.
LEMMA KeepTyped ==
  ASSUME NEW h \in Seq(Frame)
  PROVE  Keep(h) \in Seq(Frame)
<1>1. MaxHistory \in Nat /\ Len(h) \in Nat
  BY GatewayAssumption
<1>2. CASE Len(h) > MaxHistory
  <2>1. Len(h) - MaxHistory + 1 \in 1 .. Len(h)
    BY GatewayAssumption, <1>1, <1>2
  <2>2. \A i \in 1 .. Len(h) : SubSeq(h, i, Len(h)) \in Seq(Frame)
    OBVIOUS
  <2>3. Keep(h) = SubSeq(h, Len(h) - MaxHistory + 1, Len(h))
    BY <1>2 DEF Keep
  <2>4. QED
    BY <2>1, <2>2, <2>3
<1>3. CASE ~(Len(h) > MaxHistory)
  <2>1. SubSeq(h, 1, Len(h)) \in Seq(Frame)
    OBVIOUS
  <2>2. QED
    BY <1>3, <2>1 DEF Keep
<1> QED BY <1>2, <1>3

\* A frame that is recorded.
LEMMA RecordTyped ==
  ASSUME TypeOK, NEW f \in Frame, Record(f) \/ UNCHANGED <<history, log>>
  PROVE  history' \in Seq(Frame) /\ log' \in Seq(Frame)
<1>1. history \in Seq(Frame) /\ log \in Seq(Frame)
  BY DEF TypeOK
<1>2. Append(history, f) \in Seq(Frame) /\ Append(log, f) \in Seq(Frame)
  BY <1>1
<1>3. CASE Record(f)
  BY <1>2, <1>3, KeepTyped DEF Record
<1>4. CASE UNCHANGED <<history, log>>
  BY <1>1, <1>4
<1> QED BY <1>3, <1>4

\* A broadcasting handler.
Casting == {"announcing", "chatting", "leaving"}

\* A frame that is received.
LEMMA Received ==
  ASSUME TypeOK, NEW c \in Conns, NEW f \in Frame, Receive(c, f)
  PROVE  /\ view' \in [Conns -> View]
         /\ \A d \in Conns : d # c => view'[d] = view[d]
         /\ view'[c] = IF link[c] = "open" THEN Apply(view[c], f) ELSE view[c]
<1>1. Apply(view[c], f) \in View
  BY FrameTyped DEF TypeOK
<1> QED BY <1>1 DEF TypeOK, Receive

\* One send of a broadcast: the first recipient has the frame, the others are left.
LEMMA SendTyped ==
  ASSUME TypeOK, NEW c \in Conns, NEW f \in Frame, NEW to \in Seq(Conns), NEW state \in Casting,
         Send(c, f, to, state)
  PROVE  /\ view' \in [Conns -> View]
         /\ todo' \in [Conns -> Seq(Conns)]
         /\ frame' \in [Conns -> Frame]
         /\ pc' \in [Conns -> HandlerStates]
         /\ \A d \in Conns : view'[d] = view[d] \/ view'[d] = Apply(view[d], f)
         /\ \A d \in Conns : d \in Elems(to) => \/ d \in Elems(todo'[c]) \/ link[d] # "open"
                                               \/ view'[d] = Apply(view[d], f)
         /\ \A d \in Conns : d \notin Elems(to) => d \notin Elems(todo'[c])
         /\ \A d \in Conns \ {c} : pc'[d] = pc[d] /\ todo'[d] = todo[d] /\ frame'[d] = frame[d]
         /\ \/ pc'[c] = state /\ frame'[c] = f
            \/ pc'[c] = After[state] /\ Elems(todo'[c]) = {}
<1> DEFINE rest == IF to = << >> THEN << >> ELSE Tail(to)
<1>1. rest \in Seq(Conns) /\ (to # << >> => Head(to) \in Conns)
  OBVIOUS
<1>2. /\ to = << >> => rest = << >>
      /\ to # << >> => \A d \in Conns : d \in Elems(to) <=> d = Head(to) \/ d \in Elems(rest)
  <2>1. ASSUME to # << >>, NEW d \in Conns
        PROVE  d \in Elems(to) <=> d = Head(to) \/ d \in Elems(Tail(to))
    <3> DEFINE t == Tail(to)
    <3>1. /\ t \in Seq(Conns) /\ Len(to) \in Nat /\ Len(to) >= 1 /\ Len(t) = Len(to) - 1
          /\ DOMAIN to = 1 .. Len(to) /\ DOMAIN t = 1 .. Len(t)
          /\ Head(to) = to[1] /\ \A i \in 1 .. Len(t) : t[i] = to[i + 1]
      BY <2>1
    <3> HIDE DEF t
    <3>2. ASSUME NEW i \in DOMAIN to, d = to[i]
          PROVE  d = Head(to) \/ d \in Elems(t)
      <4>1. CASE i = 1
        BY <3>1, <3>2, <4>1
      <4>2. CASE i # 1
        <5>1. i - 1 \in DOMAIN t /\ (i - 1) + 1 = i
          BY <3>1, <4>2
        <5>2. QED
          BY <3>1, <3>2, <5>1 DEF Elems
      <4>3. QED
        BY <4>1, <4>2
    <3>3. Head(to) \in Elems(to)
      BY <3>1 DEF Elems
    <3>4. ASSUME NEW i \in DOMAIN t, d = t[i]
          PROVE  d \in Elems(to)
      <4>1. i + 1 \in DOMAIN to /\ d = to[i + 1]
        BY <3>1, <3>4
      <4>2. QED
        BY <4>1 DEF Elems
    <3>5. QED
      BY <3>2, <3>3, <3>4 DEF Elems, t
  <2>2. QED
    BY <2>1
<1>3. Elems(<< >>) = {}
  BY DEF Elems
<1>4. /\ todo' = [todo EXCEPT ![c] = rest]
      /\ frame' = [frame EXCEPT ![c] = IF rest = << >> THEN NoFrame ELSE f]
      /\ pc' = [pc EXCEPT ![c] = IF rest = << >> THEN After[state] ELSE state]
      /\ IF to = << >> THEN view' = view ELSE Receive(Head(to), f)
  BY DEF Send
<1> HIDE DEF rest
<1>5. After[state] \in HandlerStates /\ state \in HandlerStates
  BY DEF After, Casting, HandlerStates
<1>6. /\ view' \in [Conns -> View]
      /\ \A d \in Conns : view'[d] = view[d] \/ view'[d] = Apply(view[d], f)
      /\ to # << >> => link[Head(to)] # "open" \/ view'[Head(to)] = Apply(view[Head(to)], f)
  <2>1. CASE to = << >>
    BY <1>4, <2>1 DEF TypeOK
  <2>2. CASE to # << >>
    BY <1>1, <1>4, <2>2, Received
  <2>3. QED
    BY <2>1, <2>2
<1>7. todo' \in [Conns -> Seq(Conns)] /\ todo'[c] = rest
  BY <1>1, <1>4 DEF TypeOK
<1>8. /\ frame' \in [Conns -> Frame]
      /\ pc' \in [Conns -> HandlerStates]
      /\ \A d \in Conns \ {c} : pc'[d] = pc[d] /\ todo'[d] = todo[d] /\ frame'[d] = frame[d]
  BY <1>4, <1>5, FrameTyped DEF TypeOK
<1>9. \/ pc'[c] = state /\ frame'[c] = f
      \/ pc'[c] = After[state] /\ Elems(todo'[c]) = {}
  BY <1>3, <1>4, <1>7 DEF TypeOK
<1>10. ASSUME NEW d \in Conns
       PROVE  /\ d \in Elems(to) => \/ d \in Elems(rest) \/ link[d] # "open"
                                    \/ view'[d] = Apply(view[d], f)
              /\ d \notin Elems(to) => d \notin Elems(rest)
  BY <1>2, <1>3, <1>6
<1> QED BY <1>6, <1>7, <1>8, <1>9, <1>10

-----------------------------------------------------------------------------
(* The type invariant *)

\* What SetPresence does to the state.
LEMMA SetPresenceTyped ==
  ASSUME TypeOK, NEW p \in SUBSET Participants, NEW id \in Participants, SetPresence(p, id)
  PROVE  /\ presence' \in SUBSET Participants /\ redisErrors' \in 0 .. MaxRedisErrors
         /\ hazy' \subseteq Participants
<1> QED BY GatewayAssumption DEF TypeOK, SetPresence

\* The broadcasting states are those After tells a handler where to go on from.
LEMMA CastingIsAfter == DOMAIN After = Casting
  BY DEF After, Casting

\* Every step keeps the variables in their types.
LEMMA TypeStep ==
  ASSUME TypeOK, [Next]_vars
  PROVE  TypeOK'
<1> USE GatewayAssumption
<1>t. \A p \in Participants : presence \cup {p} \in SUBSET Participants
                           /\ presence \ {p} \in SUBSET Participants
  BY DEF TypeOK
<1>p. \A c \in Conns : Pid[c] \in Participants
  OBVIOUS
<1>1. ASSUME NEW c \in Conns, Connect(c)
      PROVE  TypeOK'
  <2>1. room' \in Seq(Conns) /\ Distinct(room')
    BY <1>1, RegisterTyped DEF Connect
  <2>2. pc' \in [Conns -> HandlerStates] /\ link' \in [Conns -> {"new", "open", "closed"}]
    BY <1>1 DEF Connect, TypeOK, HandlerStates
  <2>3. /\ UNCHANGED <<frameVars, presence, todo, frame, view, chats, errorVars>>
        /\ hazy' \subseteq Participants
    BY <1>1 DEF Connect, TypeOK
  <2>4. QED
    BY <2>1, <2>2, <2>3 DEF TypeOK, Distinct, frameVars, errorVars
<1>2. ASSUME NEW c \in Conns, AddPresence(c) \/ RemovePresence(c)
      PROVE  TypeOK'
  <2>1. /\ presence' \in SUBSET Participants /\ redisErrors' \in 0 .. MaxRedisErrors
        /\ hazy' \subseteq Participants
    <3>1. PICK p \in SUBSET Participants : SetPresence(p, Pid[c])
      BY <1>2, <1>t, <1>p DEF AddPresence, RemovePresence
    <3>2. QED
      BY <1>p, <3>1, SetPresenceTyped
  <2>2. /\ pc' \in [Conns -> HandlerStates]
        /\ UNCHANGED <<frameVars, room, todo, frame, link, view, chats, sendErrors>>
    BY <1>2 DEF AddPresence, RemovePresence, TypeOK, HandlerStates
  <2>3. QED
    BY <2>1, <2>2 DEF TypeOK, frameVars
<1>3. ASSUME NEW c \in Conns, Greet(c)
      PROVE  TypeOK'
  <2> DEFINE f == Framed("ROOM_STATE", version + 1, Present)
  <2>1. f \in Frame /\ version + 1 \in Nat
    <3>1. version + 1 \in Nat
      BY DEF TypeOK
    <3>2. QED
      BY <3>1, FrameTyped, PresentTyped DEF Kinds, Framed, Frame
  <2>2. Record(f) /\ Receive(c, f) /\ version' = version + 1
    BY <1>3 DEF Greet, Framed
  <2> HIDE DEF f
  <2>3. history' \in Seq(Frame) /\ log' \in Seq(Frame)
    BY <2>1, <2>2, RecordTyped
  <2>4. view' \in [Conns -> View]
    BY <2>1, <2>2, Received
  <2>5. pc' \in [Conns -> HandlerStates] /\ sendErrors' \in 0 .. MaxSendErrors
    <3>1. \/ pc' = [pc EXCEPT ![c] = "announce"] /\ sendErrors' = sendErrors
          \/ /\ sendErrors < MaxSendErrors
             /\ sendErrors' = sendErrors + 1
             /\ pc' = [pc EXCEPT ![c] = "failed"]
      BY <1>3 DEF Greet
    <3>2. sendErrors' \in 0 .. MaxSendErrors
      BY <3>1 DEF TypeOK
    <3>3. QED
      BY <3>1, <3>2 DEF TypeOK, HandlerStates
  <2>6. UNCHANGED <<room, presence, hazy, todo, frame, link, chats, redisErrors>>
    BY <1>3 DEF Greet
  <2>7. QED
    BY <2>1, <2>2, <2>3, <2>4, <2>5, <2>6 DEF TypeOK
<1>4. ASSUME NEW c \in Conns, NEW f \in Frame, NEW to \in Seq(Conns), NEW state \in Casting,
             Send(c, f, to, state), history' \in Seq(Frame), log' \in Seq(Frame),
             version' \in Nat, chats' \in 0 .. MaxChats, room' = room,
             UNCHANGED <<presence, hazy, link, errorVars>>
      PROVE  TypeOK'
  <2>1. /\ view' \in [Conns -> View]
        /\ todo' \in [Conns -> Seq(Conns)]
        /\ frame' \in [Conns -> Frame]
        /\ pc' \in [Conns -> HandlerStates]
    BY <1>4, SendTyped
  <2>2. QED
    BY <1>4, <2>1 DEF TypeOK, errorVars
<1>5. ASSUME NEW c \in Conns, Announce(c) \/ Farewell(c)
      PROVE  TypeOK'
  <2> DEFINE kind == IF Announce(c) THEN "JOINED" ELSE "LEFT"
             f == Framed(kind, version + 1, {Pid[c]})
  <2>1. f \in Frame /\ version + 1 \in Nat
    <3>1. version + 1 \in Nat
      BY DEF TypeOK
    <3>2. QED
      BY <3>1, FrameTyped, PresentTyped DEF Kinds, Framed, Frame
  <2>2. PICK to \in Seq(Conns), state \in Casting : Broadcast(c, f, to, state)
    <3>1. CASE Announce(c)
      <4>1. Broadcast(c, f, Others(Pid[c]), "announcing")
        BY <3>1 DEF Announce, Framed
      <4>2. Others(Pid[c]) \in Seq(Conns)
        BY OthersTyped
      <4>3. QED
        BY <4>1, <4>2 DEF Casting
    <3>2. CASE ~Announce(c)
      <4>1. Broadcast(c, f, room, "leaving")
        BY <1>5, <3>2 DEF Farewell, Framed
      <4>2. QED
        BY <4>1 DEF Casting, TypeOK
    <3>3. QED
      BY <3>1, <3>2
  <2>3. /\ version' = version + 1
        /\ UNCHANGED <<room, presence, hazy, link, chats, errorVars>>
    BY <1>5 DEF Announce, Farewell
  <2> HIDE DEF f
  <2>4. history' \in Seq(Frame) /\ log' \in Seq(Frame)
    BY <2>1, <2>2, RecordTyped DEF Broadcast
  <2>5. Send(c, f, to, state)
    BY <2>2 DEF Broadcast
  <2>6. chats' \in 0 .. MaxChats
    BY <2>3 DEF TypeOK
  <2>7. QED
    BY <1>4, <2>1, <2>3, <2>4, <2>5, <2>6
<1>6. ASSUME NEW c \in Conns, SendNext(c)
      PROVE  TypeOK'
  <2>1. /\ frame[c] \in Frame /\ todo[c] \in Seq(Conns)
        /\ history \in Seq(Frame) /\ log \in Seq(Frame) /\ version \in Nat
        /\ chats \in 0 .. MaxChats
    BY DEF TypeOK
  <2>2. pc[c] \in Casting /\ Send(c, frame[c], todo[c], pc[c])
    BY <1>6, CastingIsAfter DEF SendNext
  <2>3. UNCHANGED <<frameVars, room, presence, hazy, link, chats, errorVars>>
    BY <1>6 DEF SendNext
  <2>4. /\ history' \in Seq(Frame) /\ log' \in Seq(Frame) /\ version' \in Nat
        /\ chats' \in 0 .. MaxChats
    BY <2>1, <2>3 DEF frameVars
  <2>5. QED
    BY <1>4, <2>1, <2>2, <2>3, <2>4
<1>7. ASSUME NEW c \in Conns, Chat(c)
      PROVE  TypeOK'
  <2> DEFINE message == Framed("CHAT", version + 1, {Pid[c]})
             caption == Framed("CAPTION", version + 1, {Pid[c]})
             frames  == IF room = << >> THEN <<message>> ELSE <<message, caption>>
  <2>1. message \in Frame /\ caption \in Frame /\ version + 1 \in Nat
    <3>1. version + 1 \in Nat
      BY DEF TypeOK
    <3>2. QED
      BY <3>1, FrameTyped, PresentTyped DEF Kinds, Framed, Frame
  <2>2. /\ chats < MaxChats /\ chats' = chats + 1
        /\ version' = version + 1
        /\ log' = log \o frames
        /\ history' = IF room = << >> THEN history \o frames ELSE Keep(history \o frames)
        /\ Send(c, caption, room, "chatting")
        /\ UNCHANGED <<room, presence, hazy, link, errorVars>>
    <3>1. [[kind |-> "CHAT", ver |-> version + 1, who |-> {Pid[c]}] EXCEPT !.kind = "CAPTION"]
          = caption
      BY DEF Framed
    <3>2. message = [kind |-> "CHAT", ver |-> version + 1, who |-> {Pid[c]}]
      BY DEF Framed
    <3> HIDE DEF message, caption
    <3>3. QED
      BY <1>7, <3>1, <3>2 DEF Chat
  <2> HIDE DEF message, caption
  <2>3. frames \in Seq(Frame)
    <3>1. <<message>> \in Seq(Frame)
      BY <2>1
    <3>2. <<message, caption>> \in Seq(Frame)
      BY <2>1
    <3>3. QED
      BY <3>1, <3>2
  <2> HIDE DEF frames
  <2>4. history \o frames \in Seq(Frame) /\ log \o frames \in Seq(Frame)
    BY <2>3, Joined DEF TypeOK
  <2>5. history' \in Seq(Frame) /\ log' \in Seq(Frame)
    BY <2>2, <2>4, KeepTyped
  <2>6. room \in Seq(Conns) /\ chats' \in 0 .. MaxChats /\ "chatting" \in Casting
    BY <2>2 DEF TypeOK, Casting
  <2>7. version' \in Nat
    BY <2>1, <2>2
  <2>8. QED
    BY <1>4, <2>1, <2>2, <2>5, <2>6, <2>7
<1>8. ASSUME NEW c \in Conns, Drop(c)
      PROVE  TypeOK'
  BY <1>8 DEF Drop, TypeOK, frameVars, serverVars, errorVars
<1>9. ASSUME NEW c \in Conns, Leave(c)
      PROVE  TypeOK'
  <2>1. room' \in Seq(Conns) /\ Distinct(room')
    BY <1>9, OthersTyped DEF Leave
  <2>2. pc' \in [Conns -> HandlerStates]
    BY <1>9 DEF Leave, TypeOK, HandlerStates
  <2>3. UNCHANGED <<frameVars, presence, hazy, todo, frame, link, view, chats, errorVars>>
    BY <1>9 DEF Leave
  <2>4. QED
    BY <2>1, <2>2, <2>3 DEF TypeOK, Distinct, frameVars, errorVars
<1>10. CASE UNCHANGED vars
  BY <1>10 DEF vars, TypeOK, frameVars, serverVars, errorVars
<1> QED BY <1>1, <1>2, <1>3, <1>5, <1>6, <1>7, <1>8, <1>9, <1>10 DEF Next, HandlerStep

\* The first states are well typed.
LEMMA TypeInit ==
  ASSUME Init
  PROVE  TypeOK
<1>1. << >> \in Seq(Conns) /\ << >> \in Seq(Frame)
  OBVIOUS
<1>2. [ver |-> 0, parts |-> {}] \in View
  BY DEF View
<1> QED BY <1>1, <1>2, FrameTyped, GatewayAssumption DEF Init, TypeOK, HandlerStates

\* The state of the gateway and of its clients stays within its types, however
\* often and in whatever order the participants connect and reconnect, and no
\* participant ever has two sessions in ConnectionManager._rooms.
THEOREM TypeCorrect == Spec => []TypeOK
<1>1. Init => TypeOK
  BY TypeInit
<1>2. TypeOK /\ [Next]_vars => TypeOK'
  BY TypeStep
<1> QED BY <1>1, <1>2, PTL DEF Spec

-----------------------------------------------------------------------------
(* Who is where *)

\* What each kind of broadcast is.
KindOf == [announcing |-> "JOINED", chatting |-> "CAPTION", leaving |-> "LEFT"]

\* Where a handler comes from.
Before == [announcing |-> "announce", chatting |-> "loop", leaving |-> "farewell"]

\* e sends f to the first of to, in a broadcast that the others in to are still
\* to have and everyone else has had.
Casts(e, f, to, state) ==
  /\ f \in Frame /\ to \in Seq(Conns) /\ state \in Casting
  /\ Send(e, f, to, state)
  /\ room' = room /\ link' = link
  /\ f.kind = KindOf[state]
  /\ state # "chatting" => f.who = {Pid[e]}
  /\ pc[e] \in {Before[state], state}
  /\ \A c \in Conns \ {e} :
       link[c] = "open" /\ pc[c] \in Greeted /\ c \notin Elems(to) =>
         (Pid[e] \in view[c].parts <=> state # "leaving")

\* The three kinds of broadcast.
LEMMA Kinds3 ==
  /\ KindOf["announcing"] = "JOINED" /\ KindOf["chatting"] = "CAPTION" /\ KindOf["leaving"] = "LEFT"
  /\ After["announcing"] = "loop" /\ After["chatting"] = "loop" /\ After["leaving"] = "done"
  /\ Before["announcing"] = "announce" /\ Before["chatting"] = "loop" /\ Before["leaving"] = "farewell"
  BY DEF KindOf, After, Before

\* Whoever sends casts.
LEMMA SenderCasts ==
  ASSUME OncePerParticipant, TypeOK, ViewInv, NEW e \in Conns,
         Announce(e) \/ SendNext(e) \/ Chat(e) \/ Farewell(e)
  PROVE  \E f \in Frame, to \in Seq(Conns), state \in Casting : Casts(e, f, to, state)
<1>v. version + 1 \in Nat
  BY DEF TypeOK
<1>r. /\ room \in Seq(Conns)
      /\ \A c \in Conns : pc[c] \in Greeted => c \in Registered
  BY DEF TypeOK, ViewInv, RoomInv
<1>f. \A k \in Kinds : Framed(k, version + 1, {Pid[e]}) \in Frame
  BY <1>v, FrameTyped, PresentTyped
<1>1. CASE Announce(e)
  <2> DEFINE f == Framed("JOINED", version + 1, {Pid[e]})
             to == Others(Pid[e])
  <2>1. f \in Frame /\ f.kind = "JOINED" /\ f.who = {Pid[e]}
    BY <1>f DEF Framed, Kinds
  <2>2. /\ pc[e] = "announce" /\ Broadcast(e, f, to, "announcing")
        /\ UNCHANGED <<room, presence, link, chats, errorVars>>
    BY <1>1 DEF Announce, Framed
  <2> HIDE DEF f
  <2>3. to \in Seq(Conns) /\ \A c \in Conns : c \in Elems(to) <=> c \in Registered /\ Pid[c] # Pid[e]
    BY OthersTyped
  <2> HIDE DEF to
  <2>4. \A c \in Conns \ {e} : pc[c] \in Greeted => c \in Elems(to)
    BY <1>r, <2>3 DEF OncePerParticipant
  <2>5. Casts(e, f, to, "announcing")
    BY <2>1, <2>2, <2>3, <2>4, Kinds3 DEF Casts, Casting, Broadcast, Greeted
  <2>6. QED
    BY <2>1, <2>3, <2>5 DEF Casting
<1>2. CASE SendNext(e)
  <2>1. /\ pc[e] \in Casting /\ Send(e, frame[e], todo[e], pc[e])
        /\ UNCHANGED <<frameVars, room, presence, link, chats, errorVars>>
    BY <1>2, CastingIsAfter DEF SendNext
  <2>2. frame[e] \in Frame /\ todo[e] \in Seq(Conns)
    BY DEF TypeOK
  <2>3. frame[e].kind = KindOf[pc[e]] /\ (pc[e] # "chatting" => frame[e].who = {Pid[e]})
    BY <2>1, Kinds3 DEF ViewInv, FrameInv, Casting
  <2>4. \A c \in Conns \ {e} :
          link[c] = "open" /\ pc[c] \in Greeted /\ c \notin Elems(todo[e]) =>
            (Pid[e] \in view[c].parts <=> pc[e] # "leaving")
    BY <2>1 DEF ViewInv, KnownInv, Casting
  <2>5. Casts(e, frame[e], todo[e], pc[e])
    BY <2>1, <2>2, <2>3, <2>4 DEF Casts, Casting, Greeted
  <2>6. QED
    BY <2>1, <2>2, <2>5
<1>3. CASE Chat(e)
  <2> DEFINE f == Framed("CAPTION", version + 1, {Pid[e]})
  <2>1. f \in Frame /\ f.kind = "CAPTION"
    BY <1>f DEF Framed, Kinds
  <2>2. pc[e] = "loop" /\ Send(e, f, room, "chatting") /\ room' = room /\ link' = link
    <3>1. [[kind |-> "CHAT", ver |-> version + 1, who |-> {Pid[e]}] EXCEPT !.kind = "CAPTION"] = f
      BY DEF Framed
    <3> HIDE DEF f
    <3>2. QED
      BY <1>3, <3>1 DEF Chat
  <2> HIDE DEF f
  <2>3. \A c \in Conns \ {e} : pc[c] \in Greeted => c \in Elems(room)
    BY <1>r DEF Registered, Elems
  <2>4. Casts(e, f, room, "chatting")
    BY <1>r, <2>1, <2>2, <2>3, Kinds3 DEF Casts, Casting, Greeted
  <2>5. QED
    BY <1>r, <2>1, <2>4 DEF Casting
<1>4. CASE Farewell(e)
  <2> DEFINE f == Framed("LEFT", version + 1, {Pid[e]})
  <2>1. f \in Frame /\ f.kind = "LEFT" /\ f.who = {Pid[e]}
    BY <1>f DEF Framed, Kinds
  <2>2. /\ pc[e] = "farewell" /\ Broadcast(e, f, room, "leaving")
        /\ UNCHANGED <<room, presence, link, chats, errorVars>>
    BY <1>4 DEF Farewell, Framed
  <2> HIDE DEF f
  <2>3. \A c \in Conns \ {e} : pc[c] \in Greeted => c \in Elems(room)
    BY <1>r DEF Registered, Elems
  <2>4. Casts(e, f, room, "leaving")
    BY <1>r, <2>1, <2>2, <2>3, Kinds3 DEF Casts, Casting, Broadcast
  <2>5. QED
    BY <1>r, <2>1, <2>4 DEF Casting
<1> QED BY <1>1, <1>2, <1>3, <1>4

\* A registered handler, by where it is.
InRoom == {"presence", "greet", "failed"} \cup Greeted

\* A frame changes only whether its own participant is known.
LEMMA ApplyParts ==
  ASSUME NEW v \in View, NEW f \in Frame
  PROVE  /\ f.kind = "JOINED" => Apply(v, f).parts = v.parts \cup f.who
         /\ f.kind = "LEFT" => Apply(v, f).parts = v.parts \ f.who
         /\ f.kind = "CAPTION" => Apply(v, f).parts = v.parts
         /\ f.kind = "ROOM_STATE" => Apply(v, f).parts = f.who
  BY DEF Apply, View

\* A send keeps what is known.
LEMMA CastStep ==
  ASSUME OncePerParticipant, TypeOK, ViewInv, NEW e \in Conns,
         NEW f \in Frame, NEW to \in Seq(Conns), NEW state \in Casting, Casts(e, f, to, state)
  PROVE  ViewInv'
<1>s. state \in {"announcing", "chatting", "leaving"}
  BY DEF Casting
<1>1. /\ \A d \in Conns : view'[d] = view[d] \/ view'[d] = Apply(view[d], f)
      /\ \A d \in Conns : d \in Elems(to) => \/ d \in Elems(todo'[e]) \/ link[d] # "open"
                                            \/ view'[d] = Apply(view[d], f)
      /\ \A d \in Conns \ {e} : pc'[d] = pc[d] /\ todo'[d] = todo[d] /\ frame'[d] = frame[d]
      /\ \/ pc'[e] = state /\ frame'[e] = f
         \/ pc'[e] = After[state] /\ Elems(todo'[e]) = {}
  <2>1. Send(e, f, to, state)
    BY DEF Casts
  <2>2. /\ \A d \in Conns : view'[d] = view[d] \/ view'[d] = Apply(view[d], f)
        /\ \A d \in Conns : d \in Elems(to) => \/ d \in Elems(todo'[e]) \/ link[d] # "open"
                                              \/ view'[d] = Apply(view[d], f)
    BY <2>1, SendTyped
  <2>3. /\ \A d \in Conns \ {e} : pc'[d] = pc[d] /\ todo'[d] = todo[d] /\ frame'[d] = frame[d]
        /\ \/ pc'[e] = state /\ frame'[e] = f
           \/ pc'[e] = After[state] /\ Elems(todo'[e]) = {}
    BY <2>1, SendTyped
  <2>4. QED
    BY <2>2, <2>3
<1>2. /\ room' = room /\ link' = link
      /\ f.kind = KindOf[state]
      /\ state # "chatting" => f.who = {Pid[e]}
      /\ state = "leaving" => pc[e] \in {"farewell", "leaving"}
      /\ state = "chatting" => pc[e] \in {"loop", "chatting"}
      /\ state # "leaving" => pc[e] \in Greeted
  BY <1>s, Kinds3 DEF Casts, Greeted
<1>3. \A d \in Conns : view[d] \in View
  BY DEF TypeOK
<1>4. \A d \in Conns :
        /\ state = "announcing" => /\ Apply(view[d], f).parts = view[d].parts \cup {Pid[e]}
        /\ state = "chatting" => Apply(view[d], f).parts = view[d].parts
        /\ state = "leaving" => Apply(view[d], f).parts = view[d].parts \ {Pid[e]}
  BY <1>2, <1>3, Kinds3, ApplyParts
<1>5. pc'[e] \in IF state = "leaving" THEN {"leaving", "done"} ELSE Greeted
  BY <1>s, <1>1, Kinds3 DEF Greeted
<1>6. Registered' = Registered
  BY <1>2 DEF Registered
<1>7. RoomInv'
  <2>1. ASSUME NEW d \in Conns
        PROVE  d \in Registered <=> pc'[d] \in InRoom
    <3>1. d \in Registered <=> pc[d] \in InRoom
      BY DEF ViewInv, RoomInv, InRoom
    <3>2. QED
      BY <1>1, <1>2, <1>5, <3>1 DEF InRoom, Greeted
  <2>2. QED
    BY <1>6, <2>1 DEF RoomInv, InRoom
<1>8. LinkInv'
  <2>1. ASSUME NEW d \in Conns
        PROVE  /\ link[d] = "open" => pc'[d] \in {"presence", "greet"} \cup Greeted
               /\ link[d] = "new" => pc'[d] = "new"
    <3>1. /\ link[d] = "open" => pc[d] \in {"presence", "greet"} \cup Greeted
          /\ link[d] = "new" => pc[d] = "new"
      BY DEF ViewInv, LinkInv
    <3>2. QED
      BY <1>1, <1>2, <1>5, <3>1 DEF Greeted
  <2>2. QED
    BY <1>2, <2>1 DEF LinkInv
<1>9. FrameInv'
  <2>1. ASSUME NEW d \in Conns
        PROVE  /\ pc'[d] = "announcing" => frame'[d].kind = "JOINED" /\ frame'[d].who = {Pid[d]}
               /\ pc'[d] = "leaving" => frame'[d].kind = "LEFT" /\ frame'[d].who = {Pid[d]}
               /\ pc'[d] = "chatting" => frame'[d].kind = "CAPTION"
    <3>1. CASE d # e
      BY <1>1, <3>1 DEF ViewInv, FrameInv
    <3>2. CASE d = e
      BY <1>s, <1>1, <1>2, <3>2, Kinds3
    <3>3. QED
      BY <3>1, <3>2
  <2>2. QED
    BY <2>1 DEF FrameInv
<1>10. PartsInv'
  <2>1. ASSUME NEW d \in Conns
        PROVE  view'[d].parts \subseteq {Pid[x] : x \in Conns}
    <3>1. view[d].parts \subseteq {Pid[x] : x \in Conns}
      BY DEF ViewInv, PartsInv
    <3>2. Apply(view[d], f).parts \subseteq view[d].parts \cup {Pid[e]}
      BY <1>s, <1>4
    <3>3. view'[d] = view[d] \/ view'[d] = Apply(view[d], f)
      BY <1>1
    <3>4. QED
      BY <3>1, <3>2, <3>3
  <2>2. QED
    BY <2>1 DEF PartsInv
<1>11. ASSUME NEW c \in Conns, NEW d \in Conns
       PROVE  KnownInv(c, d)'
  <2> SUFFICES ASSUME link[c] = "open", pc'[c] \in Greeted
               PROVE  /\ \/ d = c
                         \/ pc'[d] \in {"loop", "chatting"}
                         \/ pc'[d] = "announcing" /\ c \notin Elems(todo'[d])
                         => Pid[d] \in view'[c].parts
                      /\ \/ pc'[d] \in {"new", "done"}
                         \/ pc'[d] = "leaving" /\ c \notin Elems(todo'[d])
                         => Pid[d] \notin view'[c].parts
    BY <1>2 DEF KnownInv, Elems
  <2>1. pc[c] \in Greeted /\ KnownInv(c, d)
    BY <1>1, <1>2, <1>5 DEF ViewInv, Greeted
  <2>2. CASE d # e
    <3>1. Pid[d] # Pid[e]
      BY <2>2 DEF OncePerParticipant
    <3>2. Pid[d] \in view'[c].parts <=> Pid[d] \in view[c].parts
      BY <1>s, <1>1, <1>4, <3>1
    <3>3. pc'[d] = pc[d] /\ todo'[d] = todo[d]
      BY <1>1, <2>2
    <3>4. QED
      BY <2>1, <3>2, <3>3 DEF KnownInv
  <2>3. CASE d = e
    <3>1. c # e /\ c \notin Elems(to) => (Pid[e] \in view[c].parts <=> state # "leaving")
      BY <2>1 DEF Casts
    <3>2. c = e => Pid[e] \in view[c].parts
      BY <2>1, <2>3 DEF KnownInv
    <3>3. c \in Elems(to) /\ c \notin Elems(todo'[e]) => view'[c] = Apply(view[c], f)
      BY <1>1
    <3>4. CASE state = "announcing"
      <4>1. c = e \/ c \notin Elems(todo'[e]) => Pid[e] \in view'[c].parts
        BY <1>1, <1>4, <3>1, <3>2, <3>3, <3>4
      <4>2. pc'[e] \in {"announcing", "loop"} /\ (pc'[e] = "loop" => c \notin Elems(todo'[e]))
        BY <1>1, <3>4, Kinds3
      <4>3. QED
        BY <2>3, <4>1, <4>2
    <3>5. CASE state = "chatting"
      <4>1. pc'[e] \in {"chatting", "loop"}
        BY <1>1, <3>5, Kinds3
      <4>2. view'[c].parts = view[c].parts
        BY <1>1, <1>4, <3>5
      <4>3. Pid[e] \in view[c].parts
        <5>1. pc[e] \in {"loop", "chatting"}
          BY <1>2, <3>5
        <5>2. QED
          BY <2>1, <2>3, <5>1 DEF KnownInv
      <4>4. QED
        BY <2>3, <4>1, <4>2, <4>3
    <3>6. CASE state = "leaving"
      <4>1. pc'[e] \in {"leaving", "done"} /\ c # e
        BY <1>5, <3>6 DEF Greeted
      <4>2. pc'[e] = "done" => c \notin Elems(todo'[e])
        BY <1>1, <3>6
      <4>3. c \notin Elems(todo'[e]) => Pid[e] \notin view'[c].parts
        BY <1>1, <1>4, <3>1, <3>3, <3>6, <4>1
      <4>4. QED
        BY <2>3, <4>1, <4>2, <4>3
    <3>7. QED
      BY <1>s, <3>4, <3>5, <3>6
  <2>4. QED
    BY <2>2, <2>3
<1> QED BY <1>7, <1>8, <1>9, <1>10, <1>11 DEF ViewInv

\* Steps that send nothing, by what they do to the connection they are of.
Moves(e, from, to) ==
  /\ pc[e] = from /\ pc' = [pc EXCEPT ![e] = to]
  /\ UNCHANGED <<todo, frame>>

\* What is known is kept by a step of e that shows nothing to another client and
\* leaves e where nobody has to know of it, or not to.
LEMMA MoveStep ==
  ASSUME OncePerParticipant, TypeOK, ViewInv, NEW e \in Conns,
         NEW from \in HandlerStates, NEW to \in {"presence", "greet", "announce", "failed", "absent", "farewell"},
         Moves(e, from, to),
         \A d \in Conns \ {e} : view'[d] = view[d] /\ link'[d] = link[d]
                             /\ (d \in Registered' <=> d \in Registered),
         e \in Registered' <=> to \in InRoom,
         link'[e] = "open" => to \in {"presence", "greet", "announce"},
         link'[e] # "new",
         view'[e].parts \subseteq {Pid[x] : x \in Conns},
         link'[e] = "open" /\ to = "announce" => e \in Registered,
         link'[e] = "open" /\ to = "announce" =>
           \A d \in Conns : Pid[d] \in view'[e].parts <=> d \in Registered
  PROVE  ViewInv'
<1>1. /\ pc'[e] = to
      /\ \A d \in Conns \ {e} : pc'[d] = pc[d]
      /\ \A d \in Conns : todo'[d] = todo[d] /\ frame'[d] = frame[d]
  BY DEF Moves, TypeOK
<1>2. RoomInv'
  <2>1. ASSUME NEW d \in Conns
        PROVE  d \in Registered' <=> pc'[d] \in InRoom
    <3>1. d \in Registered <=> pc[d] \in InRoom
      BY DEF ViewInv, RoomInv, InRoom
    <3>2. CASE d # e
      BY <1>1, <3>1, <3>2
    <3>3. CASE d = e
      BY <1>1, <3>3
    <3>4. QED
      BY <3>2, <3>3
  <2>2. QED
    BY <2>1 DEF RoomInv, InRoom
<1>3. LinkInv'
  <2>1. ASSUME NEW d \in Conns
        PROVE  /\ link'[d] = "open" => pc'[d] \in {"presence", "greet"} \cup Greeted
               /\ link'[d] = "new" => pc'[d] = "new"
    <3>1. /\ link[d] = "open" => pc[d] \in {"presence", "greet"} \cup Greeted
          /\ link[d] = "new" => pc[d] = "new"
      BY DEF ViewInv, LinkInv
    <3>2. CASE d # e
      BY <1>1, <3>1, <3>2
    <3>3. CASE d = e
      BY <1>1, <3>3 DEF Greeted
    <3>4. QED
      BY <3>2, <3>3
  <2>2. QED
    BY <2>1 DEF LinkInv
<1>4. FrameInv'
  <2>1. ASSUME NEW d \in Conns
        PROVE  /\ pc'[d] = "announcing" => frame'[d].kind = "JOINED" /\ frame'[d].who = {Pid[d]}
               /\ pc'[d] = "leaving" => frame'[d].kind = "LEFT" /\ frame'[d].who = {Pid[d]}
               /\ pc'[d] = "chatting" => frame'[d].kind = "CAPTION"
    <3>1. CASE d # e
      BY <1>1, <3>1 DEF ViewInv, FrameInv
    <3>2. CASE d = e
      BY <1>1, <3>2
    <3>3. QED
      BY <3>1, <3>2
  <2>2. QED
    BY <2>1 DEF FrameInv
<1>5. PartsInv'
  <2>1. ASSUME NEW d \in Conns
        PROVE  view'[d].parts \subseteq {Pid[x] : x \in Conns}
    <3>1. CASE d # e
      BY <3>1 DEF ViewInv, PartsInv
    <3>2. CASE d = e
      BY <3>2
    <3>3. QED
      BY <3>1, <3>2
  <2>2. QED
    BY <2>1 DEF PartsInv
<1>6. ASSUME NEW c \in Conns, NEW d \in Conns
      PROVE  KnownInv(c, d)'
  <2> SUFFICES ASSUME link'[c] = "open", pc'[c] \in Greeted
               PROVE  /\ \/ d = c
                         \/ pc'[d] \in {"loop", "chatting"}
                         \/ pc'[d] = "announcing" /\ c \notin Elems(todo'[d])
                         => Pid[d] \in view'[c].parts
                      /\ \/ pc'[d] \in {"new", "done"}
                         \/ pc'[d] = "leaving" /\ c \notin Elems(todo'[d])
                         => Pid[d] \notin view'[c].parts
    BY DEF KnownInv, Elems
  <2>1. CASE c = e
    <3>1. to = "announce"
      BY <1>1, <2>1 DEF Greeted
    <3>2. \A x \in Conns : Pid[x] \in view'[c].parts <=> x \in Registered
      BY <2>1, <3>1
    <3>3. \A x \in Conns : x \in Registered' <=> pc'[x] \in InRoom
      BY <1>2 DEF RoomInv, InRoom
    <3>4. e \in Registered
      BY <2>1, <3>1
    <3>5. QED
      BY <2>1, <3>1, <3>2, <3>3, <3>4, <1>1 DEF InRoom, Greeted
  <2>2. CASE c # e /\ d # e
    BY <1>1, <2>2 DEF ViewInv, KnownInv
  <2>3. CASE c # e /\ d = e
    BY <1>1, <2>3
  <2>4. QED
    BY <2>1, <2>2, <2>3
<1> QED BY <1>2, <1>3, <1>4, <1>5, <1>6 DEF ViewInv

\* The handlers of c's that do not broadcast.
LEMMA SilentStep ==
  ASSUME OncePerParticipant, TypeOK, ViewInv, NEW e \in Conns,
         Connect(e) \/ AddPresence(e) \/ Greet(e) \/ Leave(e) \/ RemovePresence(e)
  PROVE  ViewInv'
<1>1. /\ \A c \in Conns : c \in Registered <=> pc[c] \in InRoom
      /\ \A c \in Conns : /\ link[c] = "open" => pc[c] \in {"presence", "greet"} \cup Greeted
                          /\ link[c] = "new" => pc[c] = "new"
      /\ \A c \in Conns : view[c].parts \subseteq {Pid[d] : d \in Conns}
  BY DEF ViewInv, RoomInv, LinkInv, PartsInv, InRoom
<1>2. room' = room => Registered' = Registered
  BY DEF Registered
<1>3. link \in [Conns -> {"new", "open", "closed"}]
  BY DEF TypeOK
<1>s. HandlerStates =
        {"new", "presence", "greet", "announce", "announcing", "loop", "chatting",
         "absent", "farewell", "leaving", "done", "failed"}
  BY DEF HandlerStates
<1>4. CASE Connect(e)
  <2>1. \A d \in Conns : d \in Registered' <=> d = e \/ d \in Registered
    <3>1. \A d \in Conns : d \in Registered' <=> d = e \/ (d \in Registered /\ Pid[d] # Pid[e])
      BY <1>4, RegisterTyped DEF Connect
    <3>2. QED
      BY <3>1 DEF OncePerParticipant
  <2>2. /\ link[e] = "new" /\ pc[e] = "new" /\ link' = [link EXCEPT ![e] = "open"]
        /\ pc' = [pc EXCEPT ![e] = "presence"]
        /\ UNCHANGED <<todo, frame, view>>
    BY <1>1, <1>4 DEF Connect
  <2>3. link'[e] = "open" /\ \A d \in Conns \ {e} : link'[d] = link[d]
    BY <1>3, <2>2
  <2>4. Moves(e, "new", "presence")
    BY <2>2 DEF Moves
  <2>5. e \in Registered' /\ \A d \in Conns \ {e} : d \in Registered' <=> d \in Registered
    BY <2>1
  <2>6. QED
    BY <1>1, <1>s, <2>2, <2>3, <2>4, <2>5, MoveStep DEF InRoom
<1>5. CASE AddPresence(e)
  <2>1. Moves(e, "presence", "greet") /\ UNCHANGED <<room, link, view>>
    BY <1>5 DEF AddPresence, Moves
  <2>2. pc[e] = "presence" /\ link[e] # "new"
    BY <1>1, <1>5 DEF AddPresence
  <2>3. QED
    BY <1>1, <1>2, <1>s, <2>1, <2>2, MoveStep DEF InRoom
<1>6. CASE RemovePresence(e)
  <2>1. Moves(e, "absent", "farewell") /\ UNCHANGED <<room, link, view>>
    BY <1>6 DEF RemovePresence, Moves
  <2>2. pc[e] = "absent" /\ link[e] # "new" /\ link[e] # "open" /\ e \notin Registered
    BY <1>1, <1>6 DEF RemovePresence, InRoom, Greeted
  <2>3. QED
    BY <1>1, <1>2, <1>s, <2>1, <2>2, MoveStep DEF InRoom, Greeted
<1>7. CASE Leave(e)
  <2>1. /\ pc[e] = "loop" /\ link[e] = "closed" /\ room' = Others(Pid[e])
        /\ UNCHANGED <<todo, frame, link, view>>
        /\ pc' = [pc EXCEPT ![e] = IF Pid[e] \in Present THEN "absent" ELSE "farewell"]
    BY <1>7 DEF Leave
  <2>2. e \in Registered /\ Pid[e] \in Present
    BY <1>1, <2>1 DEF InRoom, Greeted, Present
  <2>3. \A d \in Conns : d \in Registered' <=> d \in Registered /\ d # e
    <3>1. \A d \in Conns : d \in Elems(room') <=> d \in Registered /\ Pid[d] # Pid[e]
      BY <2>1, OthersTyped
    <3>2. \A d \in Conns : d \in Registered' <=> d \in Elems(room')
      BY DEF Registered, Elems
    <3>3. QED
      BY <3>1, <3>2 DEF OncePerParticipant
  <2>4. Moves(e, "loop", "absent")
    BY <2>1, <2>2 DEF Moves
  <2>5. link'[e] = "closed" /\ e \notin Registered'
    BY <2>1, <2>3
  <2>6. QED
    BY <1>1, <1>s, <2>1, <2>3, <2>4, <2>5, MoveStep DEF InRoom, Greeted
<1>8. CASE Greet(e)
  <2> DEFINE f == Framed("ROOM_STATE", version + 1, Present)
  <2>1. f \in Frame /\ f.kind = "ROOM_STATE" /\ f.who = Present
    <3>1. version + 1 \in Nat
      BY DEF TypeOK
    <3>2. QED
      BY <3>1, FrameTyped, PresentTyped DEF Kinds, Framed, Frame
  <2>2. /\ pc[e] = "greet" /\ Receive(e, f) /\ UNCHANGED <<room, todo, frame, link>>
        /\ \/ pc' = [pc EXCEPT ![e] = "announce"]
           \/ link[e] = "closed" /\ pc' = [pc EXCEPT ![e] = "failed"]
    BY <1>8 DEF Greet, Framed
  <2> HIDE DEF f
  <2>3. /\ \A d \in Conns : d # e => view'[d] = view[d]
        /\ view'[e] = IF link[e] = "open" THEN Apply(view[e], f) ELSE view[e]
    BY <2>1, <2>2, Received
  <2>4. Apply(view[e], f).parts = Present
    BY <2>1, ApplyParts DEF TypeOK
  <2>5. e \in Registered /\ link[e] # "new"
    BY <1>1, <2>2 DEF InRoom
  <2>6. \A d \in Conns : Pid[d] \in Present <=> d \in Registered
    BY DEF Present, Registered, OncePerParticipant, TypeOK
  <2>7. view'[e].parts \subseteq {Pid[d] : d \in Conns}
    <3>1. Present \subseteq {Pid[d] : d \in Conns}
      BY DEF Present, Registered, TypeOK
    <3>2. QED
      BY <1>1, <2>3, <2>4, <3>1
  <2>8. link'[e] = "open" => \A d \in Conns : Pid[d] \in view'[e].parts <=> d \in Registered
    BY <2>2, <2>3, <2>4, <2>6
  <2>9. CASE pc' = [pc EXCEPT ![e] = "announce"]
    <3>1. Moves(e, "greet", "announce")
      BY <2>2, <2>9 DEF Moves
    <3>2. QED
      BY <1>2, <1>s, <2>2, <2>3, <2>5, <2>7, <2>8, <3>1, MoveStep DEF InRoom, Greeted
  <2>10. CASE link[e] = "closed" /\ pc' = [pc EXCEPT ![e] = "failed"]
    <3>1. Moves(e, "greet", "failed")
      BY <2>2, <2>10 DEF Moves
    <3>2. QED
      BY <1>2, <1>s, <2>2, <2>3, <2>5, <2>7, <2>10, <3>1, MoveStep DEF InRoom
  <2>11. QED
    BY <2>2, <2>9, <2>10
<1> QED BY <1>4, <1>5, <1>6, <1>7, <1>8

\* A socket that closes takes a client out of those who have to know.
LEMMA DropStep ==
  ASSUME TypeOK, ViewInv, NEW e \in Conns, Drop(e)
  PROVE  ViewInv'
<1>1. /\ link[e] = "open" /\ link' = [link EXCEPT ![e] = "closed"]
      /\ UNCHANGED <<room, pc, todo, frame, view>>
  BY DEF Drop, serverVars
<1>2. \A d \in Conns : link'[d] = IF d = e THEN "closed" ELSE link[d]
  BY <1>1 DEF TypeOK
<1>3. RoomInv' /\ FrameInv' /\ PartsInv'
  BY <1>1 DEF ViewInv, RoomInv, FrameInv, PartsInv, Registered
<1>4. LinkInv'
  BY <1>1, <1>2 DEF ViewInv, LinkInv
<1>5. ASSUME NEW c \in Conns, NEW d \in Conns
      PROVE  KnownInv(c, d)'
  <2>1. KnownInv(c, d) /\ (link'[c] = "open" => link[c] = "open")
    BY <1>2 DEF ViewInv
  <2>2. QED
    BY <1>1, <2>1 DEF KnownInv, Elems
<1> QED BY <1>3, <1>4, <1>5 DEF ViewInv

\* Every step keeps what the clients know.
LEMMA ViewStep ==
  ASSUME OncePerParticipant, TypeOK, ViewInv, [Next]_vars
  PROVE  ViewInv'
<1>1. ASSUME NEW e \in Conns, Connect(e) \/ HandlerStep(e) \/ Chat(e) \/ Drop(e)
      PROVE  ViewInv'
  <2>1. CASE Announce(e) \/ SendNext(e) \/ Chat(e) \/ Farewell(e)
    <3>1. PICK f \in Frame, to \in Seq(Conns), state \in Casting : Casts(e, f, to, state)
      BY <2>1, SenderCasts
    <3>2. QED
      BY <3>1, CastStep
  <2>2. CASE Connect(e) \/ AddPresence(e) \/ Greet(e) \/ Leave(e) \/ RemovePresence(e)
    BY <2>2, SilentStep
  <2>3. CASE Drop(e)
    BY <2>3, DropStep
  <2>4. QED
    BY <1>1, <2>1, <2>2, <2>3 DEF HandlerStep
<1>2. CASE UNCHANGED vars
  <2>1. UNCHANGED <<room, pc, todo, frame, link, view>>
    BY <1>2 DEF vars, serverVars
  <2>2. RoomInv' /\ LinkInv' /\ FrameInv' /\ PartsInv'
    BY <2>1 DEF ViewInv, RoomInv, LinkInv, FrameInv, PartsInv, Registered
  <2>3. \A c, d \in Conns : KnownInv(c, d)'
    BY <2>1 DEF ViewInv, KnownInv, Elems
  <2>4. QED
    BY <2>2, <2>3 DEF ViewInv
<1> QED BY <1>1, <1>2 DEF Next

\* At first nobody has to know of anybody.
LEMMA ViewInit ==
  ASSUME Init
  PROVE  ViewInv
<1>1. Registered = {}
  BY DEF Init, Registered
<1> QED BY <1>1 DEF Init, ViewInv, RoomInv, LinkInv, FrameInv, PartsInv, KnownInv, Greeted

\* Once the joins and the leaves are through, what has to be known is who is there.
LEMMA KnownIsPresent ==
  ASSUME OncePerParticipant, TypeOK, ViewInv
  PROVE  ViewConverges
<1> SUFFICES ASSUME Quiet, NEW c \in Conns, pc[c] = "loop"
             PROVE  view[c].parts = Present
  BY DEF ViewConverges
<1>1. link[c] = "open" /\ pc[c] \in Greeted
  BY DEF Quiet, Greeted
<1>2. \A d \in Conns : pc[d] \in {"new", "done", "loop"}
  BY DEF Quiet
<1>3. \A d \in Conns : Pid[d] \in view[c].parts <=> pc[d] = "loop"
  BY <1>1, <1>2 DEF ViewInv, KnownInv
<1>4. \A d \in Conns : d \in Registered <=> pc[d] = "loop"
  BY <1>2 DEF ViewInv, RoomInv, Greeted
<1>5. Registered \subseteq Conns
  BY DEF Registered, TypeOK
<1>6. view[c].parts \subseteq {Pid[d] : d \in Conns}
  BY DEF ViewInv, PartsInv
<1> QED BY <1>3, <1>4, <1>5, <1>6 DEF Present

\* Once the gateway is quiet, every client's participants map names exactly the
\* participants of ConnectionManager._rooms, however the room state of its own
\* join, sent by one coroutine, overlapped the broadcasts of the joins and leaves
\* of others; with no bound on connections, chats or failing sends.
THEOREM ViewsConverge ==
  ASSUME OncePerParticipant
  PROVE  Spec => []ViewConverges
<1>1. Init => TypeOK /\ ViewInv
  BY TypeInit, ViewInit
<1>2. (TypeOK /\ ViewInv) /\ [Next]_vars => (TypeOK /\ ViewInv)'
  BY TypeStep, ViewStep
<1>3. TypeOK /\ ViewInv => ViewConverges
  BY KnownIsPresent
<1> QED BY <1>1, <1>2, <1>3, PTL DEF Spec

-----------------------------------------------------------------------------
(* The presence set *)

\* Two states of a handler mean the same to Redis.
Alike(s, t) ==
  /\ s = "presence" <=> t = "presence"
  /\ s = "absent" <=> t = "absent"
  /\ s \in Told <=> t \in Told

\* A step that concerns neither Redis nor the room as to p keeps what is said of p.
LEMMA IdKept ==
  ASSUME NEW p, IdInv(p), \A c \in Conns : Pid[c] = p => Alike(pc[c], pc'[c]),
         p \in presence' <=> p \in presence, p \in Present' <=> p \in Present
  PROVE  IdInv(p)'
<1>1. \A c \in Conns : Pid[c] = p => (InTouch(c)' <=> InTouch(c))
  BY DEF Alike, InTouch, Told
<1> QED BY <1>1 DEF IdInv, Alike

\* What a handler that broadcasts means to Redis stays.
LEMMA CastAlike ==
  ASSUME TypeOK, NEW e \in Conns, Announce(e) \/ SendNext(e) \/ Chat(e) \/ Farewell(e)
  PROVE  \A c \in Conns : Alike(pc[c], pc'[c])
<1>1. PICK from \in {"announce", "loop", "farewell"} \cup Casting, state \in Casting :
        /\ pc[e] = from /\ from \in {Before[state], state}
        /\ \E t \in {state, After[state]} : pc' = [pc EXCEPT ![e] = t]
  <2>1. ASSUME NEW f, NEW to, NEW state \in Casting, Send(e, f, to, state)
        PROVE  \E t \in {state, After[state]} : pc' = [pc EXCEPT ![e] = t]
    BY <2>1 DEF Send
  <2>2. CASE Announce(e)
    BY <2>1, <2>2, Kinds3 DEF Announce, Broadcast, Casting
  <2>3. CASE SendNext(e)
    BY <2>1, <2>3, Kinds3, CastingIsAfter DEF SendNext, Casting
  <2>4. CASE Chat(e)
    BY <2>1, <2>4, Kinds3 DEF Chat, Casting
  <2>5. CASE Farewell(e)
    BY <2>1, <2>5, Kinds3 DEF Farewell, Broadcast, Casting
  <2>6. QED
    BY <2>2, <2>3, <2>4, <2>5
<1>2. PICK t \in {state, After[state]} : pc' = [pc EXCEPT ![e] = t]
  BY <1>1
<1>3. Alike(pc[e], t)
  BY <1>1, <1>2, Kinds3 DEF Alike, Casting, Told
<1>4. \A c \in Conns : pc'[c] = IF c = e THEN t ELSE pc[c]
  BY <1>2 DEF TypeOK
<1> QED BY <1>3, <1>4 DEF Alike

\* Every step keeps what is said of Redis.
LEMMA PresenceStep ==
  ASSUME TypeOK, PresenceInv, [Next]_vars
  PROVE  PresenceInv'
<1>1. /\ \A c \in Conns : link[c] = "new" => pc[c] = "new"
      /\ \A p \in Participants \ hazy : IdInv(p)
      /\ \A c \in Conns : Pid[c] \in Participants
  BY GatewayAssumption DEF PresenceInv
<1>2. ASSUME NEW e \in Conns, \A c \in Conns \ {e} : pc'[c] = pc[c],
             \A c \in Conns : link'[c] = "new" => link[c] = "new",
             link[e] # "new" \/ link'[e] # "new",
             \A p \in Participants \ {Pid[e]} :
               /\ p \notin hazy' => p \notin hazy
               /\ p \in presence' <=> p \in presence
               /\ p \in Present' <=> p \in Present,
             Pid[e] \notin hazy' => IdInv(Pid[e])'
      PROVE  PresenceInv'
  <2>1. \A c \in Conns : link'[c] = "new" => pc'[c] = "new"
    BY <1>1, <1>2
  <2>2. ASSUME NEW p \in Participants \ hazy', p # Pid[e]
        PROVE  IdInv(p)'
    <3>1. \A c \in Conns : Pid[c] = p => Alike(pc[c], pc'[c])
      BY <1>2, <2>2 DEF Alike
    <3>2. QED
      BY <1>1, <1>2, <2>2, <3>1, IdKept
  <2>3. QED
    BY <1>2, <2>1, <2>2 DEF PresenceInv
<1>3. ASSUME UNCHANGED <<presence, hazy, room>>, \A c \in Conns : Alike(pc[c], pc'[c]),
             \A c \in Conns : link'[c] = "new" => pc'[c] = "new"
      PROVE  PresenceInv'
  <2>1. Present' = Present
    BY <1>3 DEF Present, Registered
  <2>2. \A p \in Participants \ hazy : IdInv(p)'
    BY <1>1, <1>3, <2>1, IdKept
  <2>3. QED
    BY <1>3, <2>2 DEF PresenceInv
<1>4. ASSUME NEW e \in Conns, Connect(e)
      PROVE  PresenceInv'
  <2>1. /\ link[e] = "new" /\ pc[e] = "new" /\ presence' = presence
        /\ link' = [link EXCEPT ![e] = "open"] /\ pc' = [pc EXCEPT ![e] = "presence"]
        /\ hazy' = IF \E d \in Conns : Pid[d] = Pid[e] /\ InTouch(d)
                   THEN hazy \cup {Pid[e]} ELSE hazy \ {Pid[e]}
    BY <1>1, <1>4 DEF Connect
  <2>2. \A c \in Conns : /\ pc'[c] = IF c = e THEN "presence" ELSE pc[c]
                         /\ link'[c] = IF c = e THEN "open" ELSE link[c]
    BY <2>1 DEF TypeOK
  <2>3. \A p : p \in Present' <=> p = Pid[e] \/ p \in Present
    <3>1. \A d \in Conns : d \in Registered' <=> d = e \/ (d \in Registered /\ Pid[d] # Pid[e])
      BY <1>4, RegisterTyped DEF Connect
    <3>2. Registered \subseteq Conns
      BY DEF Registered, TypeOK
    <3>3. Registered' \subseteq Conns
      BY <1>4, RegisterTyped DEF Connect, Registered
    <3>4. QED
      BY <3>1, <3>2, <3>3 DEF Present
  <2>4. Pid[e] \notin hazy' => IdInv(Pid[e])'
    <3> SUFFICES ASSUME \A d \in Conns : Pid[d] = Pid[e] => ~InTouch(d)
                 PROVE  IdInv(Pid[e])'
      BY <2>1
    <3>1. \A d \in Conns : Pid[d] = Pid[e] => (InTouch(d)' <=> d = e)
      BY <2>2 DEF InTouch
    <3>2. pc'[e] = "presence" /\ Pid[e] \in Present'
      BY <2>2, <2>3
    <3>3. QED
      BY <3>1, <3>2 DEF IdInv, Told
  <2>5. QED
    BY <1>2, <2>1, <2>2, <2>3, <2>4
<1>5. ASSUME NEW e \in Conns, AddPresence(e) \/ RemovePresence(e)
      PROVE  PresenceInv'
  <2> DEFINE next == IF AddPresence(e) THEN "greet" ELSE "farewell"
  <2>1. /\ pc[e] = IF AddPresence(e) THEN "presence" ELSE "absent"
        /\ \A c \in Conns : pc'[c] = IF c = e THEN next ELSE pc[c]
        /\ UNCHANGED <<room, link>>
    BY <1>5 DEF AddPresence, RemovePresence, TypeOK
  <2>2. Present' = Present
    BY <2>1 DEF Present, Registered
  <2>3. \/ /\ hazy' = hazy
           /\ presence' = IF AddPresence(e) THEN presence \cup {Pid[e]} ELSE presence \ {Pid[e]}
        \/ /\ hazy' = hazy \cup {Pid[e]}
           /\ presence' \in {presence \cup {Pid[e]}, presence \ {Pid[e]}, presence}
    BY <1>5, <2>1 DEF AddPresence, RemovePresence, SetPresence
  <2>4. Pid[e] \notin hazy' => IdInv(Pid[e])'
    <3> SUFFICES ASSUME Pid[e] \notin hazy'
                 PROVE  IdInv(Pid[e])'
      OBVIOUS
    <3>1. IdInv(Pid[e]) /\ InTouch(e)
      BY <1>1, <2>1, <2>3 DEF InTouch
    <3>2. /\ \A d \in Conns : Pid[d] = Pid[e] /\ d # e => ~InTouch(d) /\ ~InTouch(d)'
          /\ Pid[e] \in Present <=> AddPresence(e)
      BY <2>1, <3>1 DEF IdInv, InTouch
    <3>3. Pid[e] \in presence' <=> AddPresence(e)
      BY <2>3
    <3>4. pc'[e] = next /\ (InTouch(e)' <=> AddPresence(e))
      BY <2>1 DEF InTouch
    <3>5. QED
      BY <2>2, <3>2, <3>3, <3>4 DEF IdInv, Told
  <2>5. /\ link[e] # "new" /\ \A c \in Conns \ {e} : pc'[c] = pc[c]
        /\ \A c \in Conns : link'[c] = "new" => link[c] = "new"
    BY <1>1, <2>1
  <2>6. \A p \in Participants \ {Pid[e]} :
          /\ p \notin hazy' => p \notin hazy
          /\ p \in presence' <=> p \in presence
    BY <2>3
  <2>7. QED
    BY <1>2, <2>2, <2>4, <2>5, <2>6
<1>6. ASSUME NEW e \in Conns, Greet(e)
      PROVE  PresenceInv'
  <2>1. /\ UNCHANGED <<room, presence, hazy, link>> /\ pc[e] = "greet"
        /\ \E t \in {"announce", "failed"} : pc' = [pc EXCEPT ![e] = t]
    BY <1>6 DEF Greet
  <2>2. PICK t \in {"announce", "failed"} : \A c \in Conns : pc'[c] = IF c = e THEN t ELSE pc[c]
    BY <2>1 DEF TypeOK
  <2>3. Present' = Present
    BY <2>1 DEF Present, Registered
  <2>4. Pid[e] \notin hazy' => IdInv(Pid[e])'
    <3> SUFFICES ASSUME Pid[e] \notin hazy'
                 PROVE  IdInv(Pid[e])'
      OBVIOUS
    <3>1. IdInv(Pid[e]) /\ InTouch(e) /\ pc[e] \in Told
      BY <1>1, <2>1 DEF InTouch, Told
    <3>2. Pid[e] \in Present /\ Pid[e] \in presence
      BY <2>1, <3>1 DEF IdInv
    <3>3. \A d \in Conns : Pid[d] = Pid[e] /\ d # e => ~InTouch(d) /\ ~InTouch(d)'
      BY <2>2, <3>1 DEF IdInv, InTouch
    <3>4. QED
      BY <2>1, <2>2, <2>3, <3>2, <3>3 DEF IdInv
  <2>5. QED
    BY <1>1, <1>2, <2>1, <2>2, <2>3, <2>4
<1>7. ASSUME NEW e \in Conns, Leave(e)
      PROVE  PresenceInv'
  <2>1. /\ UNCHANGED <<presence, hazy, link>> /\ pc[e] = "loop" /\ link[e] = "closed"
        /\ room' = Others(Pid[e])
        /\ \A c \in Conns : pc'[c] = IF c = e
                                    THEN IF Pid[e] \in Present THEN "absent" ELSE "farewell"
                                    ELSE pc[c]
    BY <1>7 DEF Leave, TypeOK
  <2>2. \A p : p \in Present' <=> p # Pid[e] /\ p \in Present
    <3>1. \A c \in Conns : c \in Elems(Others(Pid[e])) <=> c \in Registered /\ Pid[c] # Pid[e]
      BY OthersTyped
    <3>2. Registered' = Elems(Others(Pid[e]))
      BY <2>1 DEF Registered, Elems
    <3>3. Registered \subseteq Conns /\ Registered' \subseteq Conns
      <4>1. Others(Pid[e]) \in Seq(Conns)
        BY OthersTyped
      <4>2. QED
        BY <2>1, <4>1 DEF Registered, TypeOK
    <3>4. QED
      BY <3>1, <3>2, <3>3 DEF Present
  <2>3. Pid[e] \notin hazy' => IdInv(Pid[e])'
    <3> SUFFICES ASSUME Pid[e] \notin hazy'
                 PROVE  IdInv(Pid[e])'
      OBVIOUS
    <3>1. IdInv(Pid[e]) /\ InTouch(e)
      BY <1>1, <2>1 DEF InTouch
    <3>2. Pid[e] \in Present
      BY <2>1, <3>1 DEF IdInv
    <3>3. /\ \A d \in Conns : Pid[d] = Pid[e] /\ d # e => ~InTouch(d) /\ ~InTouch(d)'
          /\ pc'[e] = "absent" /\ InTouch(e)'
      BY <2>1, <3>1, <3>2 DEF IdInv, InTouch
    <3>4. QED
      BY <2>2, <3>3 DEF IdInv, Told
  <2>4. QED
    BY <1>2, <2>1, <2>2, <2>3
<1>8. ASSUME NEW e \in Conns, Announce(e) \/ SendNext(e) \/ Chat(e) \/ Farewell(e)
      PROVE  PresenceInv'
  <2>1. UNCHANGED <<presence, hazy, room, link>> /\ pc[e] # "new"
    BY <1>8, CastingIsAfter DEF Announce, SendNext, Chat, Farewell, Casting
  <2>2. \A c \in Conns \ {e} : pc'[c] = pc[c]
    <3>1. ASSUME NEW f, NEW to, NEW state, Send(e, f, to, state)
          PROVE  \A c \in Conns \ {e} : pc'[c] = pc[c]
      BY <3>1 DEF Send, TypeOK
    <3>2. QED
      BY <1>8, <3>1 DEF Announce, SendNext, Chat, Farewell, Broadcast
  <2>3. QED
    BY <1>1, <1>3, <1>8, <2>1, <2>2, CastAlike
<1>9. ASSUME NEW e \in Conns, Drop(e)
      PROVE  PresenceInv'
  <2>1. UNCHANGED <<presence, hazy, room, pc>> /\ \A c \in Conns : link'[c] = "new" => link[c] = "new"
    BY <1>9 DEF Drop, serverVars, TypeOK
  <2>2. QED
    BY <1>1, <1>3, <2>1 DEF Alike
<1>10. CASE UNCHANGED vars
  <2>1. UNCHANGED <<presence, hazy, room, pc, link>>
    BY <1>10 DEF vars, serverVars
  <2>2. QED
    BY <1>1, <1>3, <2>1 DEF Alike
<1> QED BY <1>4, <1>5, <1>6, <1>7, <1>8, <1>9, <1>10 DEF Next, HandlerStep

\* Once the connections of a participant are settled, presence:meeting:<id> has the
\* participant if and only if ConnectionManager._rooms has, after any number of
\* reconnections, evictions, failing sends and failing calls to Redis, unless a call
\* about this participant failed, or its handlers overlapped in telling Redis, since
\* a handler last had the id to itself: the next one repairs what those left behind.
THEOREM PresenceIsRight == Spec => []PresenceConverges
<1>1. Init => TypeOK /\ PresenceInv
  <2>1. Init => PresenceInv
    BY DEF Init, PresenceInv, IdInv, InTouch, Present, Registered
  <2>2. QED
    BY <2>1, TypeInit
<1>2. (TypeOK /\ PresenceInv) /\ [Next]_vars => (TypeOK /\ PresenceInv)'
  BY TypeStep, PresenceStep
<1>3. TypeOK /\ PresenceInv => PresenceConverges
  <2> SUFFICES ASSUME PresenceInv, NEW p \in Participants \ hazy, Settled(p)
               PROVE  p \in presence <=> p \in Present
    BY DEF PresenceConverges
  <2>1. IdInv(p)
    BY DEF PresenceInv
  <2>2. CASE \E c \in Conns : Pid[c] = p /\ InTouch(c)
    <3>1. PICK c \in Conns : Pid[c] = p /\ InTouch(c)
      BY <2>2
    <3>2. pc[c] = "loop"
      BY <3>1 DEF Settled, InTouch
    <3>3. QED
      BY <2>1, <3>1, <3>2 DEF IdInv, Told
  <2>3. QED
    BY <2>1, <2>2 DEF IdInv
<1> QED BY <1>1, <1>2, <1>3, PTL DEF Spec

-----------------------------------------------------------------------------
(* What a RESYNC is answered with *)

\* The last entries of a sequence.
IsTail(h, l) ==
  Len(h) <= Len(l) /\ \A i \in 1 .. Len(h) : h[i] = l[Len(l) - Len(h) + i]

\* The history is the end of all that was recorded, and not empty once anything
\* was; versions never decrease along it and are never ahead of the counter.
HistoryInv ==
  /\ IsTail(history, log)
  /\ history = << >> => log = << >>
  /\ \A i, j \in 1 .. Len(log) : i <= j => log[i].ver <= log[j].ver
  /\ \A i \in 1 .. Len(log) : log[i].ver <= version

\* Induction over the natural numbers, for a set of them: otherwise the least
\* numbers up to n could be mapped one to one to fewer.
LEMMA Induction ==
  ASSUME NEW S, 0 \in S, NEW n \in Nat, \A k \in 0 .. n - 1 : k \in S => k + 1 \in S
  PROVE  n \in S
<1> SUFFICES ASSUME n \notin S
             PROVE  FALSE
  OBVIOUS
<1> DEFINE low == S \cap 0 .. n
           next == [k \in low |-> k + 1]
<1>1. \A k \in low : k + 1 \in low \ {0}
  <2> TAKE k \in low
  <2>1. k \in 0 .. n - 1
    OBVIOUS
  <2>2. QED
    BY <2>1
<1>2. next \in Injection(low, low \ {0})
  BY <1>1 DEF Injection, IsInjective
<1>3. IsFiniteSet(low) /\ 0 \in low
  <2>1. IsFiniteSet(0 .. n)
    BY FS_Interval
  <2>2. QED
    BY <2>1, FS_Subset
<1>4. IsFiniteSet(low \ {0}) /\ Cardinality(low \ {0}) = Cardinality(low) - 1
  BY <1>3, FS_RemoveElement
<1>5. Cardinality(low) <= Cardinality(low \ {0})
  BY <1>2, <1>4, FS_Injection
<1>6. Cardinality(low) \in Nat
  BY <1>3, FS_CardinalityType
<1> QED BY <1>4, <1>5, <1>6

\* The frame n of s, if it is newer than v, after what was found before it.
Found(s, v, n, before) == IF s[n].ver > v THEN Append(before, s[n]) ELSE before

\* A scan of the first m frames of s.
IsScan(g, s, v, m) ==
  g = [n \in 0 .. m |-> IF n = 0 THEN << >> ELSE Found(s, v, n, g[n - 1])]

\* Every sequence can be scanned, a frame at a time.
LEMMA ScanExists ==
  ASSUME NEW s, NEW v, NEW m \in Nat
  PROVE  \E g : IsScan(g, s, v, m)
<1> DEFINE S == {n \in Nat : \E g : IsScan(g, s, v, n)}
<1>1. 0 \in S
  <2> DEFINE g == [n \in 0 .. 0 |-> << >>]
  <2>1. IsScan(g, s, v, 0)
    BY DEF IsScan
  <2>2. QED
    BY <2>1
<1>2. ASSUME NEW k \in Nat, k \in S
      PROVE  k + 1 \in S
  <2>1. PICK g : IsScan(g, s, v, k)
    BY <1>2
  <2> DEFINE h == [n \in 0 .. k + 1 |-> IF n <= k THEN g[n] ELSE Found(s, v, n, g[k])]
  <2>2. ASSUME NEW n \in 0 .. k + 1
        PROVE  h[n] = IF n = 0 THEN << >> ELSE Found(s, v, n, h[n - 1])
    <3>1. CASE n = 0
      BY <2>1, <3>1 DEF IsScan
    <3>2. CASE n \in 1 .. k
      <4>1. n \in 0 .. k /\ n - 1 \in 0 .. k /\ n # 0
        BY <3>2
      <4>2. g[n] = Found(s, v, n, g[n - 1])
        BY <2>1, <4>1 DEF IsScan
      <4>3. h[n] = g[n] /\ h[n - 1] = g[n - 1]
        BY <4>1
      <4>4. QED
        BY <4>1, <4>2, <4>3
    <3>3. CASE n = k + 1
      <4>1. h[n] = Found(s, v, n, g[k]) /\ h[n - 1] = g[k] /\ n # 0
        BY <3>3
      <4>2. QED
        BY <4>1
    <3>4. QED
      BY <3>1, <3>2, <3>3
  <2>3. h = [n \in 0 .. k + 1 |-> h[n]]
    OBVIOUS
  <2> HIDE DEF h
  <2>4. h = [n \in 0 .. k + 1 |-> IF n = 0 THEN << >> ELSE Found(s, v, n, h[n - 1])]
    BY <2>2, <2>3
  <2>5. QED
    BY <2>4 DEF IsScan
<1> HIDE DEF S
<1>3. m \in S
  BY <1>1, <1>2, Induction
<1> QED BY <1>3 DEF S

\* What is newer is where such a scan ends.
LEMMA NewerIsScan ==
  ASSUME NEW s \in Seq(Frame), NEW v
  PROVE  \E g : IsScan(g, s, v, Len(s)) /\ Newer(s, v) = g[Len(s)]
<1> DEFINE g == CHOOSE g : IsScan(g, s, v, Len(s))
<1>1. IsScan(g, s, v, Len(s))
  <2>1. Len(s) \in Nat
    OBVIOUS
  <2>2. \E f : IsScan(f, s, v, Len(s))
    BY <2>1, ScanExists
  <2>3. QED
    BY <2>2
<1>2. Newer(s, v) = g[Len(s)]
  BY DEF Newer, IsScan, Found
<1> QED BY <1>1, <1>2

\* Frames that are not newer may be dropped from the front.
LEMMA NewerOfTail ==
  ASSUME NEW h \in Seq(Frame), NEW l \in Seq(Frame), IsTail(h, l), NEW v \in Nat,
         \A i \in 1 .. Len(l) - Len(h) : ~ (l[i].ver > v)
  PROVE  Newer(h, v) = Newer(l, v)
<1> DEFINE d == Len(l) - Len(h)
<1>1. PICK g : IsScan(g, h, v, Len(h)) /\ Newer(h, v) = g[Len(h)]
  BY NewerIsScan
<1>2. PICK f : IsScan(f, l, v, Len(l)) /\ Newer(l, v) = f[Len(l)]
  BY NewerIsScan
<1>3. d \in Nat /\ Len(h) \in Nat /\ Len(l) = d + Len(h)
  BY DEF IsTail
<1>4. /\ g[0] = << >> /\ f[0] = << >>
      /\ \A n \in 1 .. Len(h) : g[n] = Found(h, v, n, g[n - 1])
      /\ \A n \in 1 .. Len(l) : f[n] = Found(l, v, n, f[n - 1])
  <2>1. ASSUME NEW m \in Nat, NEW s, NEW e, IsScan(e, s, v, m)
        PROVE  e[0] = << >> /\ \A n \in 1 .. m : e[n] = Found(s, v, n, e[n - 1])
    BY <2>1 DEF IsScan
  <2>2. Len(l) \in Nat
    OBVIOUS
  <2>3. QED
    BY <1>1, <1>2, <1>3, <2>1, <2>2
<1>5. \A i \in 1 .. d : ~ (l[i].ver > v)
  OBVIOUS
<1>6. \A i \in 1 .. Len(h) : h[i] = l[d + i]
  BY DEF IsTail
<1> HIDE DEF d
<1>7. f[d] = << >>
  <2> DEFINE S == {n \in 0 .. d : f[n] = << >>}
  <2>1. 0 \in S
    BY <1>3, <1>4
  <2>2. ASSUME NEW k \in 0 .. d - 1, k \in S
        PROVE  k + 1 \in S
    <3>1. k + 1 \in 1 .. d /\ k + 1 \in 1 .. Len(l) /\ (k + 1) - 1 = k
      BY <1>3
    <3>2. f[k + 1] = Found(l, v, k + 1, f[k])
      BY <1>4, <3>1
    <3>3. QED
      BY <1>5, <2>2, <3>1, <3>2 DEF Found
  <2> HIDE DEF S
  <2>3. d \in S
    BY <1>3, <2>1, <2>2, Induction
  <2>4. QED
    BY <2>3 DEF S
<1>8. f[d + Len(h)] = g[Len(h)]
  <2> DEFINE S == {n \in 0 .. Len(h) : f[d + n] = g[n]}
  <2>1. 0 \in S
    BY <1>3, <1>4, <1>7
  <2>2. ASSUME NEW k \in 0 .. Len(h) - 1, k \in S
        PROVE  k + 1 \in S
    <3>1. /\ k + 1 \in 1 .. Len(h) /\ (k + 1) - 1 = k
          /\ d + (k + 1) \in 1 .. Len(l) /\ (d + (k + 1)) - 1 = d + k
      <4>1. k \in Int /\ 0 <= k /\ k <= Len(h) - 1
        BY <1>3
      <4>2. k + 1 \in 1 .. Len(h) /\ (k + 1) - 1 = k
        BY <1>3, <4>1
      <4>3. d + (k + 1) \in 1 .. Len(l) /\ (d + (k + 1)) - 1 = d + k
        BY <1>3, <4>1
      <4>4. QED
        BY <4>2, <4>3
    <3>2. /\ f[d + (k + 1)] = Found(l, v, d + (k + 1), f[d + k])
          /\ g[k + 1] = Found(h, v, k + 1, g[k])
          /\ h[k + 1] = l[d + (k + 1)]
          /\ f[d + k] = g[k]
      BY <1>4, <1>6, <2>2, <3>1
    <3>3. QED
      BY <3>1, <3>2 DEF Found
  <2> HIDE DEF S
  <2>3. Len(h) \in S
    BY <1>3, <2>1, <2>2, Induction
  <2>4. QED
    BY <2>3 DEF S
<1> QED BY <1>1, <1>2, <1>3, <1>8

\* Versions are numbers.
LEMMA VersionsTyped ==
  ASSUME NEW s \in Seq(Frame)
  PROVE  \A i \in 1 .. Len(s) : s[i].ver \in Nat
<1> TAKE i \in 1 .. Len(s)
<1>1. s[i] \in Frame
  OBVIOUS
<1> QED BY <1>1 DEF Frame

\* The window is the end of the history, and not empty if that is not.
LEMMA KeepIsTail ==
  ASSUME NEW h \in Seq(Frame)
  PROVE  Keep(h) \in Seq(Frame) /\ IsTail(Keep(h), h) /\ (Keep(h) = << >> => h = << >>)
<1>1. MaxHistory \in Nat \ {0} /\ Len(h) \in Nat
  BY GatewayAssumption
<1>2. PICK a \in 1 .. Len(h) + 1 : Keep(h) = SubSeq(h, a, Len(h)) /\ (Len(h) > 0 => a <= Len(h))
  <2> DEFINE a == IF Len(h) > MaxHistory THEN Len(h) - MaxHistory + 1 ELSE 1
  <2>1. a \in 1 .. Len(h) + 1 /\ (Len(h) > 0 => a <= Len(h))
    BY <1>1
  <2>2. Keep(h) = SubSeq(h, a, Len(h))
    BY DEF Keep
  <2> HIDE DEF a
  <2>3. QED
    BY <2>1, <2>2
<1>3. /\ Len(SubSeq(h, a, Len(h))) = Len(h) - a + 1
      /\ \A i \in 1 .. Len(h) - a + 1 : SubSeq(h, a, Len(h))[i] = h[a + i - 1]
  BY <1>1
<1>4. IsTail(Keep(h), h)
  <2>1. \A i \in 1 .. Len(h) - a + 1 : a + i - 1 = Len(h) - (Len(h) - a + 1) + i
    BY <1>1
  <2>2. QED
    BY <1>1, <1>2, <1>3, <2>1 DEF IsTail
<1>5. Keep(h) = << >> => h = << >>
  <2>1. ASSUME Keep(h) = << >>
        PROVE  Len(h) = 0
    <3>1. Len(Keep(h)) = 0
      BY <2>1
    <3>2. QED
      BY <1>1, <1>2, <1>3, <3>1
  <2>2. QED
    BY <2>1
<1> QED BY <1>4, <1>5, KeepTyped

\* The end of the end of a sequence is an end of it.
LEMMA TailOfTail ==
  ASSUME NEW a \in Seq(Frame), NEW b \in Seq(Frame), NEW c \in Seq(Frame),
         IsTail(a, b), IsTail(b, c)
  PROVE  IsTail(a, c)
<1>1. Len(a) \in Nat /\ Len(b) \in Nat /\ Len(c) \in Nat
  OBVIOUS
<1>2. ASSUME NEW i \in 1 .. Len(a)
      PROVE  a[i] = c[Len(c) - Len(a) + i]
  <2>1. /\ Len(b) - Len(a) + i \in 1 .. Len(b)
        /\ Len(c) - Len(b) + (Len(b) - Len(a) + i) = Len(c) - Len(a) + i
    BY <1>1 DEF IsTail
  <2>2. QED
    BY <2>1 DEF IsTail
<1> QED BY <1>1, <1>2 DEF IsTail

\* Ends stay ends when both sequences grow by the same frames.
LEMMA TailGrows ==
  ASSUME NEW h \in Seq(Frame), NEW l \in Seq(Frame), NEW fs \in Seq(Frame), IsTail(h, l)
  PROVE  IsTail(h \o fs, l \o fs)
<1> DEFINE g == h \o fs
           k == l \o fs
<1>1. Len(h) \in Nat /\ Len(l) \in Nat /\ Len(fs) \in Nat /\ Len(h) <= Len(l)
  BY DEF IsTail
<1>2. /\ Len(g) = Len(h) + Len(fs)
      /\ \A j \in 1 .. Len(h) : g[j] = h[j]
      /\ \A j \in Len(h) + 1 .. Len(h) + Len(fs) : g[j] = fs[j - Len(h)]
  BY Joined
<1>3. /\ Len(k) = Len(l) + Len(fs)
      /\ \A j \in 1 .. Len(l) : k[j] = l[j]
      /\ \A j \in Len(l) + 1 .. Len(l) + Len(fs) : k[j] = fs[j - Len(l)]
  BY Joined
<1> HIDE DEF g, k
<1>4. ASSUME NEW i \in 1 .. Len(g)
      PROVE  g[i] = k[Len(k) - Len(g) + i]
  <2> DEFINE j == Len(l) - Len(h) + i
  <2>1. Len(k) - Len(g) + i = j
    BY <1>1, <1>2, <1>3
  <2>2. CASE i \in 1 .. Len(h)
    <3>1. j \in 1 .. Len(l) /\ h[i] = l[j]
      BY <1>1, <2>2 DEF IsTail
    <3>2. QED
      BY <1>2, <1>3, <2>1, <2>2, <3>1
  <2>3. CASE i \in Len(h) + 1 .. Len(h) + Len(fs)
    <3>1. j \in Len(l) + 1 .. Len(l) + Len(fs) /\ j - Len(l) = i - Len(h)
      BY <1>1, <2>3
    <3>2. g[i] = fs[i - Len(h)]
      BY <1>2, <2>3
    <3>3. k[j] = fs[j - Len(l)]
      BY <1>3, <3>1
    <3>4. QED
      BY <2>1, <3>1, <3>2, <3>3
  <2>4. QED
    BY <1>1, <1>2, <2>2, <2>3
<1>5. Len(g) <= Len(k)
  BY <1>1, <1>2, <1>3
<1> QED BY <1>4, <1>5 DEF IsTail, g, k

\* Frames are put into history in one way: all of them under the next version.
Records(fs) ==
  /\ fs # << >>
  /\ \A i \in DOMAIN fs : fs[i].ver = version + 1
  /\ version' = version + 1
  /\ log' = log \o fs
  /\ history' \in {history \o fs, Keep(history \o fs)}

\* Recording keeps the history what it should be.
LEMMA RecordsStep ==
  ASSUME TypeOK, HistoryInv, NEW fs \in Seq(Frame), Records(fs)
  PROVE  HistoryInv'
<1>1. /\ history \in Seq(Frame) /\ log \in Seq(Frame) /\ version \in Nat
      /\ Len(log) \in Nat /\ Len(fs) \in Nat \ {0} /\ Len(history) \in Nat
  BY DEF TypeOK, Records
<1>2. /\ log \o fs \in Seq(Frame)
      /\ history \o fs \in Seq(Frame)
      /\ Len(history \o fs) = Len(history) + Len(fs)
  BY <1>1, Joined
<1>3. IsTail(history \o fs, log \o fs)
  BY <1>1, TailGrows DEF HistoryInv
<1>4. IsTail(history', log')
  <2>1. IsTail(Keep(history \o fs), log \o fs)
    BY <1>2, <1>3, KeepIsTail, TailOfTail
  <2>2. QED
    BY <1>3, <2>1 DEF Records
<1>5. history' # << >>
  <2>1. history \o fs # << >>
    BY <1>1, <1>2
  <2>2. Keep(history \o fs) # << >>
    BY <1>2, <2>1, KeepIsTail
  <2>3. QED
    BY <2>1, <2>2 DEF Records
<1>6. /\ Len(log') = Len(log) + Len(fs)
      /\ \A j \in 1 .. Len(log) : log'[j] = log[j]
      /\ \A j \in Len(log) + 1 .. Len(log) + Len(fs) : log'[j] = fs[j - Len(log)]
  BY <1>1, Joined DEF Records
<1>7. \A j \in Len(log) + 1 .. Len(log) + Len(fs) : log'[j].ver = version + 1
  <2>1. \A j \in Len(log) + 1 .. Len(log) + Len(fs) : j - Len(log) \in DOMAIN fs
    BY <1>1
  <2>2. QED
    BY <1>6, <2>1 DEF Records
<1>8. \A j \in 1 .. Len(log) : log'[j].ver <= version /\ log'[j].ver = log[j].ver
  BY <1>6 DEF HistoryInv
<1>9. \A j \in 1 .. Len(log) : log[j].ver \in Nat
  BY <1>1, VersionsTyped
<1>10. ASSUME NEW i \in 1 .. Len(log'), NEW j \in 1 .. Len(log'), i <= j
       PROVE  log'[i].ver <= log'[j].ver
  <2>1. CASE j \in 1 .. Len(log)
    <3>1. i \in 1 .. Len(log)
      BY <1>10, <2>1
    <3>2. log[i].ver <= log[j].ver
      BY <1>10, <2>1, <3>1 DEF HistoryInv
    <3>3. QED
      BY <1>8, <2>1, <3>1, <3>2
  <2>2. CASE j \in Len(log) + 1 .. Len(log) + Len(fs) /\ i \in 1 .. Len(log)
    <3>1. log'[j].ver = version + 1
      BY <1>7, <2>2
    <3>2. log'[i].ver <= version /\ log'[i].ver \in Nat
      BY <1>8, <1>9, <2>2
    <3>3. QED
      BY <1>1, <3>1, <3>2
  <2>3. CASE j \in Len(log) + 1 .. Len(log) + Len(fs) /\ i \in Len(log) + 1 .. Len(log) + Len(fs)
    <3>1. log'[j].ver = version + 1 /\ log'[i].ver = version + 1
      BY <1>7, <2>3
    <3>2. QED
      BY <1>1, <3>1
  <2>4. QED
    BY <1>1, <1>6, <2>1, <2>2, <2>3
<1>11. ASSUME NEW i \in 1 .. Len(log')
       PROVE  log'[i].ver <= version'
  <2>1. CASE i \in 1 .. Len(log)
    BY <1>1, <1>8, <1>9, <2>1 DEF Records
  <2>2. CASE i \in Len(log) + 1 .. Len(log) + Len(fs)
    BY <1>1, <1>7, <2>2 DEF Records
  <2>3. QED
    BY <1>1, <1>6, <2>1, <2>2
<1> QED BY <1>4, <1>5, <1>10, <1>11 DEF HistoryInv

\* What a step does to the history: nothing, whether or not it takes a version,
\* or it records frames.
LEMMA HistoryMoves ==
  ASSUME TypeOK, [Next]_vars
  PROVE  \/ UNCHANGED <<history, log>> /\ version' \in {version, version + 1}
         \/ \E fs \in Seq(Frame) : Records(fs)
<1>1. history \in Seq(Frame) /\ log \in Seq(Frame) /\ version \in Nat
  BY DEF TypeOK
<1>2. ASSUME NEW k \in Kinds, NEW who \in SUBSET Participants,
             Record(Framed(k, version + 1, who)), version' = version + 1
      PROVE  \E fs \in Seq(Frame) : Records(fs)
  <2> DEFINE f == Framed(k, version + 1, who)
             fs == <<f>>
  <2>1. f \in Frame /\ f.ver = version + 1
    <3>1. version + 1 \in Nat
      BY <1>1
    <3>2. QED
      BY <3>1, FrameTyped DEF Framed
  <2>2. history' = Keep(Append(history, f)) /\ log' = Append(log, f)
    BY <1>2 DEF Record
  <2> HIDE DEF f
  <2>3. Append(history, f) = history \o fs /\ Append(log, f) = log \o fs /\ fs \in Seq(Frame)
    <3>1. fs \in Seq(Frame)
      BY <2>1
    <3>2. Append(history, f) = history \o fs
      BY <1>1, <2>1
    <3>3. Append(log, f) = log \o fs
      BY <1>1, <2>1
    <3>4. QED
      BY <3>1, <3>2, <3>3
  <2>4. fs # << >> /\ \A i \in DOMAIN fs : fs[i].ver = version + 1
    BY <2>1
  <2> HIDE DEF fs
  <2>5. Records(fs)
    BY <1>2, <2>2, <2>3, <2>4 DEF Records
  <2>6. QED
    BY <2>3, <2>5
<1>3. ASSUME NEW c \in Conns, Greet(c)
      PROVE  \E fs \in Seq(Frame) : Records(fs)
  <2>1. Record(Framed("ROOM_STATE", version + 1, Present)) /\ version' = version + 1
    BY <1>3 DEF Greet, Framed
  <2>2. "ROOM_STATE" \in Kinds /\ Present \in SUBSET Participants
    BY PresentTyped DEF Kinds
  <2>3. QED
    BY <1>2, <2>1, <2>2
<1>4. ASSUME NEW c \in Conns, Announce(c) \/ Farewell(c)
      PROVE  \/ UNCHANGED <<history, log>> /\ version' = version + 1
             \/ \E fs \in Seq(Frame) : Records(fs)
  <2>1. version' = version + 1
    BY <1>4 DEF Announce, Farewell
  <2>2. PICK k \in Kinds : \E to, state : Broadcast(c, Framed(k, version + 1, {Pid[c]}), to, state)
    <3>1. CASE Announce(c)
      <4>1. Broadcast(c, Framed("JOINED", version + 1, {Pid[c]}), Others(Pid[c]), "announcing")
        BY <3>1 DEF Announce, Framed
      <4>2. QED
        BY <4>1 DEF Kinds
    <3>2. CASE Farewell(c)
      <4>1. Broadcast(c, Framed("LEFT", version + 1, {Pid[c]}), room, "leaving")
        BY <3>2 DEF Farewell, Framed
      <4>2. QED
        BY <4>1 DEF Kinds
    <3>3. QED
      BY <1>4, <3>1, <3>2
  <2>3. {Pid[c]} \in SUBSET Participants
    BY PresentTyped
  <2>4. UNCHANGED <<history, log>> \/ Record(Framed(k, version + 1, {Pid[c]}))
    BY <2>2 DEF Broadcast
  <2>5. QED
    BY <1>2, <2>1, <2>3, <2>4
<1>5. ASSUME NEW c \in Conns, Chat(c)
      PROVE  \E fs \in Seq(Frame) : Records(fs)
  <2> DEFINE message == Framed("CHAT", version + 1, {Pid[c]})
             caption == [message EXCEPT !.kind = "CAPTION"]
             fs == IF room = << >> THEN <<message>> ELSE <<message, caption>>
  <2>1. /\ version' = version + 1
        /\ log' = log \o fs
        /\ history' = IF room = << >> THEN history \o fs ELSE Keep(history \o fs)
    BY <1>5 DEF Chat, Framed
  <2>2. /\ message \in Frame /\ message.ver = version + 1
        /\ caption \in Frame /\ caption.ver = version + 1
    <3>1. version + 1 \in Nat
      BY <1>1
    <3>2. caption = Framed("CAPTION", version + 1, {Pid[c]})
      BY DEF Framed
    <3>3. QED
      BY <3>1, <3>2, FrameTyped, PresentTyped DEF Framed, Kinds
  <2> HIDE DEF message, caption
  <2>3. fs \in Seq(Frame) /\ fs # << >> /\ \A i \in DOMAIN fs : fs[i].ver = version + 1
    <3>1. /\ <<message>> \in Seq(Frame) /\ <<message>> # << >>
          /\ \A i \in DOMAIN <<message>> : <<message>>[i].ver = version + 1
      BY <2>2
    <3>2. /\ <<message, caption>> \in Seq(Frame) /\ <<message, caption>> # << >>
          /\ \A i \in DOMAIN <<message, caption>> : <<message, caption>>[i].ver = version + 1
      BY <2>2
    <3>3. QED
      BY <3>1, <3>2
  <2> HIDE DEF fs
  <2>4. Records(fs)
    BY <2>1, <2>3 DEF Records
  <2>5. QED
    BY <2>3, <2>4
<1>6. ASSUME NEW c \in Conns,
             \/ Connect(c) \/ AddPresence(c) \/ SendNext(c) \/ Leave(c)
             \/ RemovePresence(c) \/ Drop(c)
      PROVE  UNCHANGED frameVars
  BY <1>6 DEF Connect, AddPresence, SendNext, Leave, RemovePresence, Drop
<1>7. CASE UNCHANGED vars
  BY <1>7 DEF vars, frameVars
<1> QED BY <1>3, <1>4, <1>5, <1>6, <1>7 DEF Next, HandlerStep, frameVars

\* Every step keeps the history what it should be.
LEMMA HistoryStep ==
  ASSUME TypeOK, HistoryInv, [Next]_vars
  PROVE  HistoryInv'
<1>1. CASE \E fs \in Seq(Frame) : Records(fs)
  BY <1>1, RecordsStep
<1>2. CASE UNCHANGED <<history, log>> /\ version' \in {version, version + 1}
  <2>1. version \in Nat /\ \A i \in 1 .. Len(log) : log[i].ver \in Nat
    BY VersionsTyped DEF TypeOK
  <2>2. \A i \in 1 .. Len(log) : log[i].ver <= version'
    BY <1>2, <2>1 DEF HistoryInv
  <2>3. QED
    BY <1>2, <2>2 DEF HistoryInv, IsTail
<1> QED BY <1>1, <1>2, HistoryMoves

\* Such a history answers every RESYNC it takes.
LEMMA HistoryAnswers ==
  ASSUME TypeOK, HistoryInv
  PROVE  ResyncGapFree
<1> SUFFICES ASSUME NEW v \in 0 .. version, ~ SnapshotRequired(v)
             PROVE  Missed(v) = Newer(log, v)
  BY DEF ResyncGapFree
<1>1. /\ history \in Seq(Frame) /\ log \in Seq(Frame) /\ v \in Nat
      /\ Len(history) \in Nat /\ Len(log) \in Nat
  BY DEF TypeOK
<1>2. ASSUME NEW i \in 1 .. Len(log) - Len(history)
      PROVE  ~ (log[i].ver > v)
  <2>1. history # << >>
    <3>1. Len(log) # 0
      BY <1>1
    <3>2. log # << >>
      BY <3>1
    <3>3. QED
      BY <3>2 DEF HistoryInv
  <2>2. v >= history[1].ver
    <3>1. Len(history) \in Nat \ {0} /\ history[1].ver \in Nat
      <4>1. Len(history) \in Nat \ {0}
        BY <1>1, <2>1
      <4>2. QED
        BY <1>1, <4>1, VersionsTyped
    <3>2. QED
      BY <1>1, <2>1, <3>1 DEF SnapshotRequired
  <2>3. Len(history) \in Nat \ {0}
    BY <1>1, <2>1
  <2>4. history[1] = log[Len(log) - Len(history) + 1]
    BY <2>3 DEF HistoryInv, IsTail
  <2>5. /\ i \in 1 .. Len(log) /\ Len(log) - Len(history) + 1 \in 1 .. Len(log)
        /\ i <= Len(log) - Len(history) + 1
    BY <1>1, <2>3
  <2>6. log[i].ver <= history[1].ver /\ log[i].ver \in Nat /\ history[1].ver \in Nat
    <3>1. log[i].ver <= log[Len(log) - Len(history) + 1].ver
      BY <2>5 DEF HistoryInv
    <3>2. QED
      BY <1>1, <2>4, <2>5, <3>1, VersionsTyped
  <2>7. QED
    BY <1>1, <2>2, <2>6
<1>3. Newer(history, v) = Newer(log, v)
  BY <1>1, <1>2, NewerOfTail DEF HistoryInv
<1> QED BY <1>3 DEF Missed

\* A RESYNC leaves no gap, for any connections, window and chat: unless
\* get_missed_frames asks for a snapshot, what it returns is every frame ever
\* recorded after the version of the client.
THEOREM ResyncLeavesNoGap == Spec => []ResyncGapFree
<1>1. Init => TypeOK /\ HistoryInv
  <2>1. Init => HistoryInv
    BY DEF Init, HistoryInv, IsTail
  <2>2. QED
    BY <2>1, TypeInit
<1>2. TypeOK /\ HistoryInv /\ [Next]_vars => TypeOK' /\ HistoryInv'
  BY TypeStep, HistoryStep
<1>3. TypeOK /\ HistoryInv => ResyncGapFree
  BY HistoryAnswers
<1> QED BY <1>1, <1>2, <1>3, PTL DEF Spec
=============================================================================
