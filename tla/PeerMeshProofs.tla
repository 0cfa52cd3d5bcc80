---------------------------- MODULE PeerMeshProofs ----------------------------
(***************************************************************************)
(* Proofs about PeerMesh, for any number of tabs and of the steps the      *)
(* bounds count.                                                           *)
(***************************************************************************)
EXTENDS PeerMesh, TLAPS

Candidate(n) == [kind |-> "ICE", number |-> n]

EndsLeaving(s) == s # << >> /\ s[Len(s)].kind = "LEAVING"

\* The candidate n is in s.
Coming(s, n) == \E i \in 1 .. Len(s) : s[i] = Candidate(n)

\* A candidate follows each description in s.
Paired(s) ==
  \A i \in 1 .. Len(s) :
    s[i].kind \in {"OFFER", "ANSWER"} => \E j \in i + 1 .. Len(s) : s[j] = Candidate(s[i].number)

\* A page that is not mounted has no connection, no picture and no channel.
DownIsEmpty(l) ==
  ~up[l[1]] => chan[Back(l)] = << >> /\ pc[l] = NoPc /\ tile[l] = 0

\* What a tab still has of a peer that is gone will end with the peer's last message.
LeavingIsLast(l) ==
  up[l[1]] /\ ~up[l[2]] /\ l \notin missed
    => \/ EndsLeaving(chan[Back(l)])
       \/ chan[Back(l)] = << >> /\ pc[l] = NoPc /\ tile[l] \notin Numbers

\* The picture is of the connection that has a description, or the LiveKit room has
\* taken it away; what is connected has a description.
TileInv(l) ==
  pc[l] # NoPc =>
    /\ pc[l].remote # 0 => tile[l] = pc[l].number \/ l \in overruled
    /\ pc[l].state = "connected" => pc[l].remote # 0

\* A description is being set while a task says so.
TaskInv(l) == pc[l] # NoPc => (pc[l].next # 0 <=> pc[l].task \in {"accept", "settle"})

\* The candidate of a description is known, queued, or on its way.
CandidateInv(l) ==
  /\ Paired(chan[Back(l)])
  /\ pc[l] # NoPc /\ pc[l].next # 0
       => pc[l].next \in queued[l] \/ Coming(chan[Back(l)], pc[l].next)
  /\ pc[l] # NoPc /\ pc[l].next = 0 /\ pc[l].remote # 0
       => pc[l].heard \/ Coming(chan[Back(l)], pc[l].remote)

LinkInv(l) ==
  /\ DownIsEmpty(l)
  /\ LeavingIsLast(l)
  /\ TileInv(l)
  /\ TaskInv(l)
  /\ bounds.switches = 0 => CandidateInv(l)

IInv ==
  /\ TypeOK
  /\ bounds.switches = 0 => \A p \in Peers : ~sfu[p]
  /\ \A l \in Links : LinkInv(l)
-----------------------------------------------------------------------------
(* Channels *)

\* A message that is taken off.
LEMMA TailOf ==
  ASSUME NEW s \in Seq(Messages), s # << >>
  PROVE  /\ Head(s) \in Messages
         /\ Tail(s) \in Seq(Messages)
         /\ Len(s) \in Nat /\ Len(s) >= 1 /\ Len(Tail(s)) = Len(s) - 1
         /\ Head(s) = s[1] /\ \A i \in 1 .. Len(Tail(s)) : Tail(s)[i] = s[i + 1]
  OBVIOUS

\* What it leaves: the peer's last message, unless that was taken, and the candidates.
LEMMA TailKeeps ==
  ASSUME NEW s \in Seq(Messages), s # << >>
  PROVE  /\ EndsLeaving(s) => EndsLeaving(Tail(s)) \/ (Tail(s) = << >> /\ Head(s).kind = "LEAVING")
         /\ Paired(s) => Paired(Tail(s))
         /\ \A n : Coming(s, n) => Coming(Tail(s), n) \/ Head(s) = Candidate(n)
         /\ Paired(s) /\ Head(s).kind \in {"OFFER", "ANSWER"} => Coming(Tail(s), Head(s).number)
<1> DEFINE t == Tail(s)
<1>1. /\ t \in Seq(Messages) /\ Len(s) \in Nat \ {0} /\ Len(t) = Len(s) - 1
      /\ Head(s) = s[1] /\ \A i \in 1 .. Len(t) : t[i] = s[i + 1]
  BY TailOf
<1>2. t # << >> => Len(t) # 0
  BY <1>1
<1> HIDE DEF t
<1>3. EndsLeaving(s) => EndsLeaving(t) \/ (t = << >> /\ Head(s).kind = "LEAVING")
  <2>1. CASE t = << >>
    <3>1. Len(t) = 0
      BY <2>1
    <3>2. Len(s) = 1
      BY <1>1, <3>1
    <3>3. QED
      BY <1>1, <2>1, <3>2 DEF EndsLeaving
  <2>2. CASE t # << >>
    <3>1. Len(t) \in 1 .. Len(t) /\ Len(t) + 1 = Len(s)
      BY <1>1, <1>2, <2>2
    <3>2. t[Len(t)] = s[Len(s)]
      BY <1>1, <3>1
    <3>3. QED
      BY <2>2, <3>2 DEF EndsLeaving
  <2>3. QED
    BY <2>1, <2>2
<1>4. Paired(s) => Paired(t)
  <2> SUFFICES ASSUME Paired(s), NEW i \in 1 .. Len(t), t[i].kind \in {"OFFER", "ANSWER"}
               PROVE  \E j \in i + 1 .. Len(t) : t[j] = Candidate(t[i].number)
    BY DEF Paired
  <2>1. i + 1 \in 1 .. Len(s) /\ t[i] = s[i + 1]
    BY <1>1
  <2>2. PICK j \in i + 1 + 1 .. Len(s) : s[j] = Candidate(s[i + 1].number)
    BY <2>1 DEF Paired
  <2>3. j - 1 \in i + 1 .. Len(t) /\ j - 1 \in 1 .. Len(t) /\ (j - 1) + 1 = j
    BY <1>1, <2>2
  <2>4. t[j - 1] = s[j]
    BY <1>1, <2>3
  <2>5. QED
    BY <2>1, <2>2, <2>3, <2>4
<1>5. ASSUME NEW n, Coming(s, n)
      PROVE  Coming(t, n) \/ Head(s) = Candidate(n)
  <2>1. PICK i \in 1 .. Len(s) : s[i] = Candidate(n)
    BY <1>5 DEF Coming
  <2>2. CASE i = 1
    BY <1>1, <2>1, <2>2
  <2>3. CASE i # 1
    <3>1. i - 1 \in 1 .. Len(t) /\ (i - 1) + 1 = i
      BY <1>1, <2>3
    <3>2. QED
      BY <1>1, <2>1, <3>1 DEF Coming
  <2>4. QED
    BY <2>2, <2>3
<1>6. Paired(s) /\ Head(s).kind \in {"OFFER", "ANSWER"} => Coming(t, Head(s).number)
  <2> SUFFICES ASSUME Paired(s), Head(s).kind \in {"OFFER", "ANSWER"}
               PROVE  Coming(t, Head(s).number)
    OBVIOUS
  <2>1. 1 \in 1 .. Len(s)
    BY <1>1
  <2>2. PICK j \in 1 + 1 .. Len(s) : s[j] = Candidate(s[1].number)
    BY <1>1, <2>1 DEF Paired
  <2>3. j - 1 \in 1 .. Len(t) /\ (j - 1) + 1 = j
    BY <1>1, <2>2
  <2>4. QED
    BY <1>1, <2>2, <2>3 DEF Coming
<1> QED BY <1>3, <1>4, <1>5, <1>6 DEF t

\* Messages without a description.
Plain(m) == m.kind \notin {"OFFER", "ANSWER"}

\* A message that is posted: what is there stays, and it comes last.
LEMMA PostedOne ==
  ASSUME NEW s \in Seq(Messages), NEW m \in Messages
  PROVE  /\ Append(s, m) \in Seq(Messages) /\ s \o << m >> = Append(s, m)
         /\ Append(s, m) # << >> /\ Append(s, m)[Len(Append(s, m))] = m
         /\ Paired(s) /\ Plain(m) => Paired(Append(s, m))
         /\ \A n : Coming(s, n) => Coming(Append(s, m), n)
<1> DEFINE t == Append(s, m)
<1>1. /\ t \in Seq(Messages) /\ Len(s) \in Nat /\ Len(t) = Len(s) + 1
      /\ t[Len(t)] = m /\ \A i \in 1 .. Len(s) : t[i] = s[i]
  OBVIOUS
<1>2. s \o << m >> = t /\ t # << >>
  OBVIOUS
<1> HIDE DEF t
<1>3. ASSUME Paired(s), Plain(m)
      PROVE  Paired(t)
  <2> SUFFICES ASSUME NEW i \in 1 .. Len(t), t[i].kind \in {"OFFER", "ANSWER"}
               PROVE  \E j \in i + 1 .. Len(t) : t[j] = Candidate(t[i].number)
    BY DEF Paired
  <2>1. i \in 1 .. Len(s) /\ t[i] = s[i]
    BY <1>1, <1>3 DEF Plain
  <2>2. PICK j \in i + 1 .. Len(s) : s[j] = Candidate(s[i].number)
    BY <1>3, <2>1 DEF Paired
  <2>3. j \in i + 1 .. Len(t) /\ t[j] = s[j]
    BY <1>1, <2>1, <2>2
  <2>4. QED
    BY <2>1, <2>2, <2>3
<1>4. \A n : Coming(s, n) => Coming(t, n)
  BY <1>1 DEF Coming
<1> QED BY <1>1, <1>2, <1>3, <1>4 DEF t

\* A description that is posted with its candidate.
LEMMA PostedTwo ==
  ASSUME NEW s \in Seq(Messages), NEW kind \in {"OFFER", "ANSWER"}, NEW n \in Numbers
  PROVE  LET t == s \o << [kind |-> kind, number |-> n], Candidate(n) >> IN
         /\ t \in Seq(Messages)
         /\ Paired(s) => Paired(t)
         /\ \A k : Coming(s, k) => Coming(t, k)
<1> DEFINE m == [kind |-> kind, number |-> n]
           t == s \o << m, Candidate(n) >>
<1>0. m \in Messages /\ Candidate(n) \in Messages /\ m.kind = kind /\ m.number = n
  BY DEF Messages, Candidate
<1> HIDE DEF m
<1>1. /\ t \in Seq(Messages) /\ Len(s) \in Nat /\ Len(t) = Len(s) + 2
      /\ t[Len(s) + 1] = m /\ t[Len(s) + 2] = Candidate(n)
      /\ \A i \in 1 .. Len(s) : t[i] = s[i]
  BY <1>0
<1> HIDE DEF t
<1>2. ASSUME Paired(s)
      PROVE  Paired(t)
  <2> SUFFICES ASSUME NEW i \in 1 .. Len(t), t[i].kind \in {"OFFER", "ANSWER"}
               PROVE  \E j \in i + 1 .. Len(t) : t[j] = Candidate(t[i].number)
    BY DEF Paired
  <2>1. CASE i \in 1 .. Len(s)
    <3>1. t[i] = s[i]
      BY <1>1, <2>1
    <3>2. PICK j \in i + 1 .. Len(s) : s[j] = Candidate(s[i].number)
      BY <1>2, <2>1, <3>1 DEF Paired
    <3>3. j \in i + 1 .. Len(t) /\ t[j] = s[j]
      BY <1>1, <2>1, <3>2
    <3>4. QED
      BY <3>1, <3>2, <3>3
  <2>2. CASE i = Len(s) + 1
    <3>1. Len(s) + 2 \in i + 1 .. Len(t)
      BY <1>1, <2>2
    <3>2. t[i].number = n
      BY <1>0, <1>1, <2>2
    <3>3. QED
      BY <1>1, <3>1, <3>2
  <2>3. CASE i = Len(s) + 2
    BY <1>1, <2>3 DEF Candidate
  <2>4. QED
    BY <1>1, <2>1, <2>2, <2>3
<1>3. \A k : Coming(s, k) => Coming(t, k)
  BY <1>1 DEF Coming
<1> QED BY <1>1, <1>2, <1>3 DEF t, m

-----------------------------------------------------------------------------
(* Types *)

\* A link and its reverse.
LEMMA LinkParts ==
  /\ \A l \in Links : /\ l[1] \in Peers /\ l[2] \in Peers /\ l[1] # l[2]
                      /\ l = <<l[1], l[2]>> /\ Back(l) \in Links /\ Back(Back(l)) = l
                      /\ Back(l) # l
  /\ \A p, q : Back(<<p, q>>) = <<q, p>>
  BY DEF Links, Back

\* p takes a message from q and posts ms: the types, and what changes.
LEMMA TakenTyped ==
  ASSUME TypeOK, NEW p, NEW q, <<p, q>> \in Links, chan[<<q, p>>] # << >>,
         NEW ms \in Seq(Messages), chan' = Taken(p, q, ms)
  PROVE  /\ chan' \in [Links -> Seq(Messages)]
         /\ chan'[<<q, p>>] = Tail(chan[<<q, p>>])
         /\ chan'[<<p, q>>] = IF up[q] THEN chan[<<p, q>>] \o ms ELSE chan[<<p, q>>]
         /\ \A l \in Links \ {<<p, q>>, <<q, p>>} : chan'[l] = chan[l]
<1>1. <<q, p>> \in Links /\ <<q, p>> # <<p, q>>
  BY LinkParts
<1>2. Tail(chan[<<q, p>>]) \in Seq(Messages)
  BY <1>1, TailOf DEF TypeOK
<1>3. (IF up[q] THEN chan[<<p, q>>] \o ms ELSE chan[<<p, q>>]) \in Seq(Messages)
  BY DEF TypeOK
<1> QED BY <1>1, <1>2, <1>3 DEF TypeOK, Taken

\* What p posts.
LEMMA PostedTyped ==
  ASSUME TypeOK, NEW p, NEW m \in Messages
  PROVE  /\ Posted(p, m) \in [Links -> Seq(Messages)]
         /\ \A l \in Links : Posted(p, m)[l] = IF l[1] = p /\ up[l[2]] THEN Append(chan[l], m)
                                                                   ELSE chan[l]
  BY DEF TypeOK, Posted

\* What p does not hear any more.
LEMMA UnheardTyped ==
  ASSUME NEW c \in [Links -> Seq(Messages)], NEW p
  PROVE  /\ Unheard(c, p) \in [Links -> Seq(Messages)]
         /\ \A l \in Links : Unheard(c, p)[l] = IF l[2] = p THEN << >> ELSE c[l]
  BY DEF Unheard

\* The messages are of their types.
LEMMA MessagesTyped ==
  /\ \A k \in {"ANNOUNCE", "ACK", "LEAVING"} : [kind |-> k] \in Messages
  /\ \A k \in {"OFFER", "ANSWER", "ICE"}, n \in Numbers : [kind |-> k, number |-> n] \in Messages
  /\ \A m \in Messages : m.kind \in {"OFFER", "ANSWER", "ICE"} => m.number \in Numbers
  BY DEF Messages

\* A new object, while there is a free number.
LEMMA NewTyped ==
  ASSUME Free, NEW task \in {"offer", "accept"}
  PROVE  /\ NewConnection(task) \in Connections /\ NewConnection(task) # NoPc
         /\ NewConnection(task).task = task /\ NewConnection(task).next = 0
         /\ NewConnection(task).remote = 0 /\ NewConnection(task).state = "new"
<1>1. Fresh \in Numbers /\ Fresh # 0
  BY MeshAssumption DEF Free, Fresh
<1> QED BY <1>1 DEF NewConnection, Connections, NoPc

\* There is an object or none, and none is no object.
LEMMA PcTyped ==
  ASSUME TypeOK, NEW l \in Links
  PROVE  /\ pc[l] # NoPc => pc[l] \in Connections
         /\ NoPc \notin Connections
         /\ 0 \notin Numbers
  BY MeshAssumption DEF TypeOK, NoPc, Connections

Tasks == {"none", "offer", "accept", "answer", "settle"}

States == {"new", "connecting", "connected", "failed"}

\* An object stays one, whatever of it is updated.
LEMMA ConnectionUpdates ==
  ASSUME NEW c \in Connections
  PROVE  /\ \A t \in Tasks, n \in Numbers \cup {0} : [c EXCEPT !.task = t, !.next = n] \in Connections
         /\ [c EXCEPT !.task = "none", !.local = TRUE] \in Connections
         /\ [c EXCEPT !.task = "none", !.local = TRUE, !.state = "connecting"] \in Connections
         /\ \A s \in States : [c EXCEPT !.state = s] \in Connections
         /\ \A h \in BOOLEAN : [c EXCEPT !.heard = h] \in Connections
  BY DEF Connections, Tasks, States

\* One object is replaced.
LEMMA Replaced ==
  ASSUME TypeOK, NEW l \in Links, NEW c \in Connections \cup {NoPc},
         pc' = [pc EXCEPT ![l] = c]
  PROVE  pc' \in [Links -> Connections \cup {NoPc}]
  BY DEF TypeOK

BoundsOK ==
  bounds \in [crossings : 0 .. MaxCrossings, leaves : 0 .. MaxLeaves,
              switches : 0 .. MaxSwitches, breaks : 0 .. MaxBreaks]

\* A counter that is spent stays within its bound.
LEMMA SpendTyped ==
  ASSUME TypeOK
  PROVE  /\ Spend("crossings", MaxCrossings) => BoundsOK' /\ bounds'.switches = bounds.switches
         /\ Spend("leaves", MaxLeaves) => BoundsOK' /\ bounds'.switches = bounds.switches
         /\ Spend("switches", MaxSwitches) => BoundsOK' /\ bounds'.switches # 0
         /\ Spend("breaks", MaxBreaks) => BoundsOK' /\ bounds'.switches = bounds.switches
<1>1. MaxCrossings \in Nat /\ MaxLeaves \in Nat /\ MaxSwitches \in Nat /\ MaxBreaks \in Nat
  BY MeshAssumption
<1>2. BoundsOK
  BY DEF TypeOK, BoundsOK
<1>3. ASSUME Spend("crossings", MaxCrossings)
      PROVE  BoundsOK' /\ bounds'.switches = bounds.switches
  BY <1>1, <1>2, <1>3 DEF Spend, BoundsOK
<1>4. ASSUME Spend("leaves", MaxLeaves)
      PROVE  BoundsOK' /\ bounds'.switches = bounds.switches
  BY <1>1, <1>2, <1>4 DEF Spend, BoundsOK
<1>5. ASSUME Spend("switches", MaxSwitches)
      PROVE  BoundsOK' /\ bounds'.switches # 0
  BY <1>1, <1>2, <1>5 DEF Spend, BoundsOK
<1>6. ASSUME Spend("breaks", MaxBreaks)
      PROVE  BoundsOK' /\ bounds'.switches = bounds.switches
  BY <1>1, <1>2, <1>6 DEF Spend, BoundsOK
<1> QED BY <1>3, <1>4, <1>5, <1>6

\* What the LiveKit room of p does.
RoomStep(p) ==
  \/ RoomConnects(p) \/ RoomDisconnects(p)
  \/ \E q \in Peers : <<p, q>> \in Links /\ (TrackSubscribed(p, q) \/ TrackEnded(p, q))

\* Every step preserves TypeOK.
LEMMA TypeStep ==
  ASSUME TypeOK, Next
  PROVE  TypeOK'
<1> USE LinkParts
<1>1. ASSUME NEW p \in Peers, Join(p)
      PROVE  TypeOK'
  <2>1. chan' \in [Links -> Seq(Messages)]
    BY <1>1, PostedTyped, MessagesTyped DEF Join
  <2>2. QED
    BY <1>1, <2>1 DEF TypeOK, Join, meshVars, tileVars, roomVars
<1>2. ASSUME NEW p \in Peers, Heartbeat(p)
      PROVE  TypeOK'
  <2>1. chan' \in [Links -> Seq(Messages)]
    BY <1>2, PostedTyped, MessagesTyped DEF Heartbeat
  <2>2. BoundsOK'
    BY <1>2, SpendTyped DEF Heartbeat, TypeOK, BoundsOK
  <2>3. QED
    BY <1>2, <2>1, <2>2 DEF TypeOK, BoundsOK, Heartbeat, meshVars, tileVars, roomVars
<1>3. ASSUME NEW p \in Peers, Leave(p)
      PROVE  TypeOK'
  <2>1. chan' \in [Links -> Seq(Messages)]
    BY <1>3, PostedTyped, UnheardTyped, MessagesTyped DEF Leave
  <2>2. BoundsOK'
    BY <1>3, SpendTyped DEF Leave
  <2>3. QED
    BY <1>3, <2>1, <2>2 DEF TypeOK, BoundsOK, Leave, Forget, From
<1>4. ASSUME NEW p \in Peers, CloseTab(p)
      PROVE  TypeOK'
  <2>1. chan' \in [Links -> Seq(Messages)]
    BY <1>4, UnheardTyped DEF CloseTab, TypeOK
  <2>2. BoundsOK'
    BY <1>4, SpendTyped DEF CloseTab
  <2>3. QED
    BY <1>4, <2>1, <2>2 DEF TypeOK, BoundsOK, CloseTab, Forget, From
<1>5. ASSUME NEW p \in Peers, RoomStep(p)
      PROVE  TypeOK'
  <2>1. BoundsOK'
    BY <1>5, SpendTyped DEF RoomStep, RoomConnects, RoomDisconnects, TrackSubscribed, TrackEnded,
       TypeOK, BoundsOK
  <2>2. /\ UNCHANGED <<up, gone, chan, pc, queued, missed>>
        /\ sfu' = sfu \/ (\E b \in BOOLEAN : sfu' = [sfu EXCEPT ![p] = b])
        /\ shared' \subseteq Links /\ old' \subseteq Links
    BY <1>5 DEF RoomStep, RoomConnects, RoomDisconnects, TrackSubscribed, TrackEnded, TypeOK, From,
       meshVars
  <2>3. tile' \in [Links -> Numbers \cup {0, Sfu}] /\ overruled' \subseteq Links
    <3>1. CASE UNCHANGED tileVars
      BY <3>1 DEF TypeOK, tileVars
    <3>2. CASE \E K \in SUBSET Links, e \in {0, Sfu} : Overrule(K, e)
      BY <3>2 DEF TypeOK, Overrule
    <3>3. QED
      BY <1>5, <3>1, <3>2 DEF RoomStep, RoomConnects, RoomDisconnects, TrackSubscribed, TrackEnded,
         From, meshVars
  <2>4. QED
    BY <2>1, <2>2, <2>3 DEF TypeOK, BoundsOK
<1>6. ASSUME NEW p \in Peers, NEW q \in Peers, <<p, q>> \in Links, Handle(p, q)
      PROVE  TypeOK'
  <2> DEFINE l == <<p, q>>
  <2>1. << >> \in Seq(Messages) /\ << [kind |-> "ACK"] >> \in Seq(Messages)
    BY MessagesTyped
  <2>2. chan' \in [Links -> Seq(Messages)]
    <3>1. CASE PostOffer(p, q) \/ PostAnswer(p, q)
      <4>1. pc[l] \in Connections
        BY <1>6, <3>1, PcTyped DEF PostOffer, PostAnswer
      <4>2. pc[l].number \in Numbers
        BY <4>1 DEF Connections
      <4>3. PICK kind \in {"OFFER", "ANSWER"} :
              \/ chan' = chan
              \/ chan' = [chan EXCEPT ![l] =
                           @ \o << [kind |-> kind, number |-> pc[l].number], Candidate(pc[l].number) >>]
        BY <3>1 DEF PostOffer, PostAnswer, Candidate
      <4>4. chan[l] \o << [kind |-> kind, number |-> pc[l].number], Candidate(pc[l].number) >>
              \in Seq(Messages)
        BY <1>6, <4>2, PostedTwo DEF TypeOK
      <4>5. QED
        BY <1>6, <4>3, <4>4 DEF TypeOK
    <3>2. CASE Describe(p, q)
      BY <3>2 DEF TypeOK, Describe
    <3>3. CASE ~(PostOffer(p, q) \/ PostAnswer(p, q) \/ Describe(p, q))
      <4>1. \E ms \in Seq(Messages) : chan[<<q, p>>] # << >> /\ chan' = Taken(p, q, ms)
        BY <1>6, <2>1, <3>3 DEF Handle, Ignore, OnAnnounce, OnAck, OnOffer, OnAnswer, OnIce,
           OnLeaving, Incoming
      <4>2. QED
        BY <1>6, <4>1, TakenTyped
    <3>4. QED
      BY <3>1, <3>2, <3>3
  <2>3. /\ pc' \in [Links -> Connections \cup {NoPc}]
        /\ queued' \in [Links -> SUBSET Numbers]
        /\ tile' \in [Links -> Numbers \cup {0, Sfu}]
        /\ overruled' \subseteq Links
        /\ missed' \subseteq Links
    <3>0. chan[<<q, p>>] # << >> => Head(chan[<<q, p>>]) \in Messages
      <4>1. chan[<<q, p>>] \in Seq(Messages)
        BY <1>6 DEF TypeOK, Links
      <4>2. QED
        BY <4>1, TailOf
    <3>1. CASE Ignore(p, q)
      BY <1>6, <3>1 DEF TypeOK, Ignore, meshVars, tileVars
    <3>2. CASE OnAnnounce(p, q) \/ OnAck(p, q)
      <4>1. pc' = pc \/ (Free /\ pc' = [pc EXCEPT ![l] = NewConnection("offer")])
        BY <3>2 DEF OnAnnounce, OnAck, OfferTo
      <4>2. pc' \in [Links -> Connections \cup {NoPc}]
        BY <1>6, <4>1, NewTyped, Replaced DEF TypeOK
      <4>3. QED
        BY <3>2, <4>2 DEF TypeOK, OnAnnounce, OnAck, tileVars
    <3>3. CASE OnOffer(p, q)
      <4>1. Head(chan[<<q, p>>]).number \in Numbers
        BY <3>0, <3>3, MessagesTyped DEF OnOffer, Incoming
      <4>2. Established(pc[l]) => pc[l] \in Connections
        BY <1>6, PcTyped DEF Established, In
      <4>3. QED
        <5>1. PICK c \in Connections \cup {NoPc} : pc' = [pc EXCEPT ![l] = c] \/ pc' = pc
          <6>1. ASSUME Free, NEW n \in Numbers
                PROVE  [NewConnection("accept") EXCEPT !.next = n] \in Connections
            <7>1. NewConnection("accept") \in Connections
              BY <6>1, NewTyped
            <7>2. QED
              BY <7>1 DEF Connections
          <6>2. Established(pc[l])
                  => [pc[l] EXCEPT !.task = "accept", !.next = Head(chan[<<q, p>>]).number] \in Connections
            BY <4>1, <4>2, ConnectionUpdates DEF Tasks
          <6>3. QED
            BY <3>3, <4>1, <6>1, <6>2 DEF OnOffer
        <5>2. pc' \in [Links -> Connections \cup {NoPc}]
          BY <1>6, <5>1, Replaced DEF TypeOK
        <5>3. QED
          BY <3>3, <5>2 DEF TypeOK, OnOffer, tileVars
    <3>4. CASE OnAnswer(p, q)
      <4>1. Head(chan[<<q, p>>]).number \in Numbers
        BY <3>0, <3>4, MessagesTyped DEF OnAnswer, Incoming
      <4>2. QED
        <5>1. pc[l] # NoPc
                => [pc[l] EXCEPT !.task = "settle", !.next = Head(chan[<<q, p>>]).number] \in Connections
          BY <1>6, <4>1, PcTyped, ConnectionUpdates DEF Tasks
        <5>2. pc' \in [Links -> Connections \cup {NoPc}]
          BY <1>6, <3>4, <5>1, Replaced DEF TypeOK, OnAnswer, tileVars
        <5>3. QED
          BY <3>4, <5>2 DEF TypeOK, OnAnswer, tileVars
    <3>5. CASE OnIce(p, q)
      <4>1. Head(chan[<<q, p>>]).number \in Numbers
        BY <3>0, <3>5, MessagesTyped DEF OnIce, Incoming
      <4>2. QED
        <5>1. \A h \in BOOLEAN : pc[l] # NoPc => [pc[l] EXCEPT !.heard = h] \in Connections
          BY <1>6, PcTyped, ConnectionUpdates
        <5>2. pc[l] # NoPc => pc[l].heard \in BOOLEAN
          BY <1>6, PcTyped DEF Connections
        <5>3. pc' \in [Links -> Connections \cup {NoPc}]
          BY <1>6, <3>5, <5>1, <5>2, Replaced DEF TypeOK, OnIce, tileVars
        <5>4. PICK S \in SUBSET Numbers : queued' = queued \/ queued' = [queued EXCEPT ![l] = S]
          <6>1. queued[l] \cup {Head(chan[<<q, p>>]).number} \in SUBSET Numbers
            BY <1>6, <4>1 DEF TypeOK
          <6>2. QED
            BY <3>5, <6>1 DEF OnIce
        <5>5. queued' \in [Links -> SUBSET Numbers]
          <6>1. queued \in [Links -> SUBSET Numbers]
            BY DEF TypeOK
          <6>2. QED
            BY <5>4, <6>1
        <5>6. QED
          BY <3>5, <5>3, <5>5 DEF TypeOK, OnIce, tileVars
    <3>6. CASE OnLeaving(p, q)
      BY <1>6, <3>6 DEF TypeOK, OnLeaving
    <3>7. CASE PostOffer(p, q) \/ PostAnswer(p, q)
      <4>1. PICK c \in Connections : pc' = [pc EXCEPT ![l] = c]
        BY <1>6, <3>7, PcTyped, ConnectionUpdates DEF PostOffer, PostAnswer
      <4>2. QED
        BY <1>6, <3>7, <4>1, Replaced DEF TypeOK, PostOffer, PostAnswer, tileVars
    <3>8. CASE Describe(p, q)
      <4>1. pc[l] \in Connections
        BY <1>6, <3>8, PcTyped DEF Describe
      <4>2. Described(l) \in Connections
        <5> DEFINE task == IF pc[l].task = "accept" THEN "answer" ELSE "none"
                   state == IF pc[l].task = "settle" \/ pc[l].state = "connected"
                            THEN "connecting" ELSE pc[l].state
                   heard == pc[l].next \in queued[l]
        <5>1. /\ pc[l].next \in Numbers \cup {0} /\ heard \in BOOLEAN
              /\ task \in Tasks /\ state \in States
          BY <4>1 DEF Connections, Tasks, States
        <5>2. Described(l) = [pc[l] EXCEPT !.task = task, !.state = state, !.remote = pc[l].next,
                                           !.heard = heard, !.next = 0]
          BY DEF Described
        <5> HIDE DEF task, state, heard
        <5>3. QED
          <6>1. PICK c \in Connections : c = pc[l]
            BY <4>1
          <6>2. Described(l) = [c EXCEPT !.task = task, !.state = state, !.remote = pc[l].next,
                                         !.heard = heard, !.next = 0]
            BY <5>2, <6>1
          <6>3. QED
            BY <5>1, <6>2 DEF Connections, Tasks, States
      <4>3. QED
        BY <1>6, <3>8, <4>1, <4>2 DEF TypeOK, Describe, Connections, tileVars
    <3>9. QED
      BY <1>6, <3>1, <3>2, <3>3, <3>4, <3>5, <3>6, <3>7, <3>8 DEF Handle
  <2>4. UNCHANGED <<up, gone, roomVars, bounds>>
    BY <1>6 DEF Handle, Ignore, OnAnnounce, OnAck, OnOffer, OnAnswer, OnIce, OnLeaving,
       PostOffer, PostAnswer, Describe
  <2>5. QED
    BY <2>2, <2>3, <2>4 DEF TypeOK, roomVars
<1>7. ASSUME NEW p \in Peers, NEW q \in Peers, <<p, q>> \in Links, Browser(p, q) \/ Break(p, q)
      PROVE  TypeOK'
  <2>1. pc[<<p, q>>] \in Connections
    BY <1>7, PcTyped DEF Browser, Connected, Failed, Break, Matched, Engaged, Established, In
  <2>2. BoundsOK'
    BY <1>7, SpendTyped DEF Browser, Connected, Failed, Break, TypeOK, BoundsOK
  <2>3. pc' \in [Links -> Connections \cup {NoPc}]
    <3>1. PICK c \in Connections : pc' = [pc EXCEPT ![<<p, q>>] = c]
      BY <1>7, <2>1, ConnectionUpdates DEF Browser, Connected, Failed, Break, States
    <3>2. QED
      BY <1>7, <3>1, Replaced
  <2>4. QED
    BY <1>7, <2>2, <2>3 DEF TypeOK, BoundsOK, Browser, Connected, Failed, Break,
       tileVars, roomVars
<1> QED BY <1>1, <1>2, <1>3, <1>4, <1>5, <1>6, <1>7 DEF Next, RoomStep

-----------------------------------------------------------------------------
(* Links *)

\* The picture of l stays, and is not forgotten to have been taken away.
PictureKept(l) ==
  /\ tile'[l] = tile[l]
  /\ l \in overruled => l \in overruled'

\* The LiveKit room takes the picture of l away.
PictureTaken(l) ==
  /\ up[l[1]] /\ tile'[l] \notin Numbers
  /\ l \in overruled \/ tile[l] \in Numbers => l \in overruled'

\* Nothing of l changes but what the peer may have posted, both being there, and
\* what the LiveKit room does.
Grows(l) ==
  /\ up'[l[1]] = up[l[1]] /\ up'[l[2]] = up[l[2]]
  /\ l \notin missed' => l \notin missed
  /\ pc'[l] = pc[l] /\ queued'[l] = queued[l] /\ (PictureKept(l) \/ PictureTaken(l))
  /\ bounds'.switches = 0 => bounds.switches = 0
  /\ \/ chan'[Back(l)] = chan[Back(l)]
     \/ /\ up[l[1]] /\ up[l[2]]
        /\ Paired(chan[Back(l)]) => Paired(chan'[Back(l)])
        /\ \A n : Coming(chan[Back(l)], n) => Coming(chan'[Back(l)], n)

\* That keeps the invariant of l.
LEMMA GrowsInv ==
  ASSUME TypeOK, NEW l \in Links, LinkInv(l), Grows(l)
  PROVE  LinkInv(l)'
<1>1. (DownIsEmpty(l) /\ LeavingIsLast(l))'
  BY DEF LinkInv, Grows, PictureKept, PictureTaken, DownIsEmpty, LeavingIsLast, EndsLeaving
<1>2. (TileInv(l) /\ TaskInv(l))'
  <2>1. pc[l] # NoPc => pc[l].number \in Numbers
    BY PcTyped DEF Connections
  <2>2. QED
    BY <2>1 DEF LinkInv, Grows, PictureKept, PictureTaken, TileInv, TaskInv
<1>3. (bounds.switches = 0 => CandidateInv(l))'
  BY DEF LinkInv, Grows, CandidateInv
<1> QED BY <1>1, <1>2, <1>3 DEF LinkInv

\* What p posts without a description, for all to hear.
LEMMA PostedGrows ==
  ASSUME TypeOK, NEW p \in Peers, NEW m \in Messages, Plain(m), up[p], chan' = Posted(p, m),
         UNCHANGED <<up, meshVars, missed>>, bounds'.switches = bounds.switches,
         NEW l \in Links
  PROVE  Grows(l)
<1>1. Back(l) \in Links /\ Back(l)[1] = l[2] /\ Back(l)[2] = l[1]
  BY LinkParts DEF Back
<1>2. chan'[Back(l)] = IF l[2] = p /\ up[l[1]] THEN Append(chan[Back(l)], m) ELSE chan[Back(l)]
  BY <1>1, PostedTyped
<1>3. chan[Back(l)] \in Seq(Messages)
  BY <1>1 DEF TypeOK
<1>4. /\ Paired(chan[Back(l)]) => Paired(Append(chan[Back(l)], m))
      /\ \A n : Coming(chan[Back(l)], n) => Coming(Append(chan[Back(l)], m), n)
  BY <1>3, PostedOne
<1> QED BY <1>2, <1>4 DEF Grows, PictureKept, meshVars, tileVars

\* A tab that mounts, leaves, is closed, or whose room does something keeps the invariant.
LEMMA PageInv ==
  ASSUME IInv, NEW p \in Peers, Join(p) \/ Heartbeat(p) \/ Leave(p) \/ CloseTab(p) \/ RoomStep(p),
         NEW l \in Links
  PROVE  LinkInv(l)'
<1>0. /\ TypeOK /\ LinkInv(l)
      /\ l[1] \in Peers /\ l[2] \in Peers /\ l[1] # l[2]
      /\ Back(l) \in Links /\ Back(l)[1] = l[2] /\ Back(l)[2] = l[1]
      /\ chan[Back(l)] \in Seq(Messages) /\ 0 \notin Numbers
  BY LinkParts, PcTyped DEF IInv, TypeOK, Back
<1>1. CASE Join(p)
  <2>0. /\ ~up[p] /\ up' = [up EXCEPT ![p] = TRUE] /\ UNCHANGED <<meshVars, missed, bounds>>
        /\ chan'[Back(l)] = IF l[2] = p /\ up[l[1]] THEN Append(chan[Back(l)], [kind |-> "ANNOUNCE"])
                                                   ELSE chan[Back(l)]
    BY <1>0, <1>1, PostedTyped, MessagesTyped DEF Join
  <2>1. CASE l[1] = p
    <3>1. chan'[Back(l)] = << >> /\ pc'[l] = NoPc /\ tile'[l] = 0
      BY <1>0, <2>0, <2>1 DEF LinkInv, DownIsEmpty, meshVars, tileVars
    <3>2. QED
      BY <1>0, <3>1 DEF LinkInv, DownIsEmpty, LeavingIsLast, TileInv, TaskInv, CandidateInv, Paired
  <2>2. CASE l[2] = p
    <3>1. up'[l[1]] = up[l[1]] /\ up'[l[2]]
      BY <1>0, <2>0, <2>2 DEF TypeOK
    <3>2. /\ Paired(chan[Back(l)]) => Paired(chan'[Back(l)])
          /\ \A n : Coming(chan[Back(l)], n) => Coming(chan'[Back(l)], n)
      <4>1. [kind |-> "ANNOUNCE"] \in Messages /\ Plain([kind |-> "ANNOUNCE"])
        BY MessagesTyped DEF Plain
      <4>2. QED
        BY <1>0, <2>0, <4>1, PostedOne
    <3>3. (DownIsEmpty(l) /\ LeavingIsLast(l) /\ TileInv(l) /\ TaskInv(l))'
      BY <1>0, <2>0, <3>1 DEF LinkInv, DownIsEmpty, LeavingIsLast, TileInv, TaskInv, meshVars, tileVars
    <3>4. (bounds.switches = 0 => CandidateInv(l))'
      BY <1>0, <2>0, <3>2 DEF LinkInv, CandidateInv, meshVars
    <3>5. QED
      BY <3>3, <3>4 DEF LinkInv
  <2>3. CASE l[1] # p /\ l[2] # p
    <3>1. Grows(l)
      BY <1>0, <2>0, <2>3 DEF Grows, PictureKept, meshVars, tileVars, TypeOK
    <3>2. QED
      BY <1>0, <3>1, GrowsInv
  <2>4. QED
    BY <2>1, <2>2, <2>3
<1>2. CASE Heartbeat(p)
  <2>1. bounds'.switches = bounds.switches
    BY <1>0, <1>2, SpendTyped DEF Heartbeat
  <2>2. [kind |-> "ANNOUNCE"] \in Messages /\ Plain([kind |-> "ANNOUNCE"])
    BY MessagesTyped DEF Plain
  <2>3. Grows(l)
    BY <1>0, <1>2, <2>1, <2>2, PostedGrows DEF Heartbeat
  <2>4. QED
    BY <1>0, <2>3, GrowsInv
<1>3. CASE Leave(p)
  <2>0. /\ up' = [up EXCEPT ![p] = FALSE] /\ UNCHANGED missed /\ bounds'.switches = bounds.switches
        /\ Forget(p)
    BY <1>0, <1>3, SpendTyped DEF Leave, Forget
  <2>1. chan'[Back(l)] = IF l[1] = p THEN << >>
                         ELSE IF l[2] = p /\ up[l[1]] THEN Append(chan[Back(l)], [kind |-> "LEAVING"])
                              ELSE chan[Back(l)]
    <3>1. /\ Posted(p, [kind |-> "LEAVING"]) \in [Links -> Seq(Messages)]
          /\ Posted(p, [kind |-> "LEAVING"])[Back(l)]
               = IF l[2] = p /\ up[l[1]] THEN Append(chan[Back(l)], [kind |-> "LEAVING"])
                                         ELSE chan[Back(l)]
      BY <1>0, PostedTyped, MessagesTyped
    <3>2. chan' = Unheard(Posted(p, [kind |-> "LEAVING"]), p)
      BY <1>3 DEF Leave
    <3>3. chan'[Back(l)] = IF Back(l)[2] = p THEN << >> ELSE Posted(p, [kind |-> "LEAVING"])[Back(l)]
      BY <1>0, <3>1, <3>2, UnheardTyped
    <3>4. QED
      BY <1>0, <3>1, <3>3
  <2>2. CASE l[1] = p
    <3>1. chan'[Back(l)] = << >> /\ pc'[l] = NoPc /\ tile'[l] = 0 /\ ~up'[l[1]]
      BY <1>0, <2>0, <2>1, <2>2 DEF Forget, TypeOK
    <3>2. QED
      BY <1>0, <3>1 DEF LinkInv, DownIsEmpty, LeavingIsLast, TileInv, TaskInv, CandidateInv, Paired
  <2>3. CASE l[2] = p
    <3>1. /\ up'[l[1]] = up[l[1]] /\ ~up'[l[2]]
          /\ pc'[l] = pc[l] /\ queued'[l] = queued[l] /\ PictureKept(l)
      BY <1>0, <2>0, <2>3 DEF Forget, From, PictureKept, TypeOK
    <3>2. /\ Paired(chan[Back(l)]) => Paired(chan'[Back(l)])
          /\ \A n : Coming(chan[Back(l)], n) => Coming(chan'[Back(l)], n)
          /\ up[l[1]] => EndsLeaving(chan'[Back(l)])
      <4>1. [kind |-> "LEAVING"] \in Messages /\ Plain([kind |-> "LEAVING"])
        BY MessagesTyped DEF Plain
      <4>2. QED
        BY <1>0, <2>1, <2>3, <4>1, PostedOne DEF EndsLeaving
    <3>3. (DownIsEmpty(l) /\ LeavingIsLast(l) /\ TileInv(l) /\ TaskInv(l))'
      BY <1>0, <2>1, <2>3, <3>1, <3>2 DEF LinkInv, DownIsEmpty, LeavingIsLast, TileInv, TaskInv, PictureKept
    <3>4. (bounds.switches = 0 => CandidateInv(l))'
      BY <1>0, <2>0, <3>1, <3>2 DEF LinkInv, CandidateInv
    <3>5. QED
      BY <3>3, <3>4 DEF LinkInv
  <2>4. CASE l[1] # p /\ l[2] # p
    <3>1. Grows(l)
      BY <1>0, <2>0, <2>1, <2>4 DEF Grows, PictureKept, Forget, From, TypeOK
    <3>2. QED
      BY <1>0, <3>1, GrowsInv
  <2>5. QED
    BY <2>2, <2>3, <2>4
<1>4. CASE CloseTab(p)
  <2>0. /\ bounds'.switches = bounds.switches /\ Forget(p)
        /\ missed' = missed \cup {k \in Links : k[2] = p}
        /\ chan'[Back(l)] = IF l[1] = p THEN << >> ELSE chan[Back(l)]
    <3>1. chan' = Unheard(chan, p) /\ chan \in [Links -> Seq(Messages)]
      BY <1>0, <1>4 DEF CloseTab, TypeOK
    <3>2. chan'[Back(l)] = IF Back(l)[2] = p THEN << >> ELSE chan[Back(l)]
      BY <1>0, <3>1, UnheardTyped
    <3>3. bounds'.switches = bounds.switches
      BY <1>0, <1>4, SpendTyped DEF CloseTab
    <3>4. QED
      BY <1>0, <1>4, <3>2, <3>3 DEF CloseTab
  <2>1. CASE l[1] = p
    <3>1. chan'[Back(l)] = << >> /\ pc'[l] = NoPc /\ tile'[l] = 0 /\ ~up'[l[1]]
      BY <1>0, <2>0, <2>1 DEF Forget, TypeOK
    <3>2. QED
      BY <1>0, <3>1 DEF LinkInv, DownIsEmpty, LeavingIsLast, TileInv, TaskInv, CandidateInv, Paired
  <2>2. CASE l[2] = p
    <3>1. /\ up'[l[1]] = up[l[1]] /\ l \in missed' /\ chan'[Back(l)] = chan[Back(l)]
          /\ pc'[l] = pc[l] /\ queued'[l] = queued[l] /\ PictureKept(l)
      BY <1>0, <2>0, <2>2 DEF Forget, From, PictureKept, TypeOK
    <3>2. QED
      BY <1>0, <2>0, <3>1 DEF LinkInv, DownIsEmpty, LeavingIsLast, TileInv, TaskInv, CandidateInv,
         PictureKept
  <2>3. CASE l[1] # p /\ l[2] # p
    <3>1. Grows(l)
      BY <1>0, <2>0, <2>3 DEF Grows, PictureKept, Forget, From, TypeOK
    <3>2. QED
      BY <1>0, <3>1, GrowsInv
  <2>4. QED
    BY <2>1, <2>2, <2>3
<1>5. CASE RoomStep(p)
  <2>1. UNCHANGED <<up, gone, chan, pc, queued, missed>> /\ up[p]
    BY <1>5 DEF RoomStep, RoomConnects, RoomDisconnects, TrackSubscribed, TrackEnded, meshVars
  <2>2. bounds'.switches = 0 => bounds.switches = 0
    BY <1>0, <1>5, SpendTyped DEF RoomStep, RoomConnects, RoomDisconnects, TrackSubscribed, TrackEnded
  <2>3. PictureKept(l) \/ PictureTaken(l)
    <3>1. CASE UNCHANGED tileVars
      BY <3>1 DEF PictureKept, tileVars
    <3>2. CASE \E K \in SUBSET From(p), e \in {0, Sfu} : Overrule(K, e)
      <4>1. PICK K \in SUBSET From(p), e \in {0, Sfu} : Overrule(K, e)
        BY <3>2
      <4>2. e \notin Numbers
        BY MeshAssumption DEF Sfu
      <4>3. CASE l \in K
        BY <2>1, <4>1, <4>2, <4>3 DEF Overrule, PictureTaken, From
      <4>4. CASE l \notin K
        BY <4>1, <4>4 DEF Overrule, PictureKept
      <4>5. QED
        BY <4>3, <4>4
    <3>3. CASE RoomConnects(p)
      BY <3>2, <3>3 DEF RoomConnects
    <3>4. CASE RoomDisconnects(p)
      BY <3>1, <3>4 DEF RoomDisconnects, meshVars
    <3>5. CASE \E q \in Peers : <<p, q>> \in Links /\ (TrackSubscribed(p, q) \/ TrackEnded(p, q))
      <4>1. PICK q \in Peers : <<p, q>> \in Links /\ (TrackSubscribed(p, q) \/ TrackEnded(p, q))
        BY <3>5
      <4>2. {<<p, q>>} \in SUBSET From(p)
        BY <4>1 DEF From
      <4>3. Overrule({<<p, q>>}, Sfu) \/ Overrule({<<p, q>>}, 0)
        BY <4>1 DEF TrackSubscribed, TrackEnded
      <4>4. QED
        BY <3>2, <4>2, <4>3
    <3>6. QED
      BY <1>5, <3>3, <3>4, <3>5 DEF RoomStep
  <2>4. Grows(l)
    BY <2>1, <2>2, <2>3 DEF Grows
  <2>5. QED
    BY <1>0, <2>4, GrowsInv
<1> QED BY <1>1, <1>2, <1>3, <1>4, <1>5

\* l's tab takes a message of the peer: what holds of l whatever it does with it.
LEMMA TakesInv ==
  ASSUME TypeOK, NEW l \in Links, LinkInv(l), up[l[1]], chan[Back(l)] # << >>,
         chan'[Back(l)] = Tail(chan[Back(l)]), UNCHANGED <<up, bounds>>,
         l \notin missed' => l \notin missed
  PROVE  /\ DownIsEmpty(l)'
         /\ Head(chan[Back(l)]).kind # "LEAVING" => LeavingIsLast(l)'
         /\ LeavingIsLast(l)' \/ chan'[Back(l)] = << >>
         /\ bounds.switches = 0 =>
              /\ Paired(chan'[Back(l)])
              /\ \A n : Coming(chan[Back(l)], n)
                          => Coming(chan'[Back(l)], n) \/ Head(chan[Back(l)]) = Candidate(n)
              /\ Head(chan[Back(l)]).kind \in {"OFFER", "ANSWER"}
                   => Coming(chan'[Back(l)], Head(chan[Back(l)]).number)
<1>1. chan[Back(l)] \in Seq(Messages)
  BY LinkParts DEF TypeOK
<1>2. /\ EndsLeaving(chan[Back(l)])
           => EndsLeaving(chan'[Back(l)]) \/ (chan'[Back(l)] = << >> /\ Head(chan[Back(l)]).kind = "LEAVING")
      /\ Paired(chan[Back(l)]) => Paired(chan'[Back(l)])
      /\ \A n : Coming(chan[Back(l)], n)
                  => Coming(chan'[Back(l)], n) \/ Head(chan[Back(l)]) = Candidate(n)
      /\ Paired(chan[Back(l)]) /\ Head(chan[Back(l)]).kind \in {"OFFER", "ANSWER"}
           => Coming(chan'[Back(l)], Head(chan[Back(l)]).number)
  BY <1>1, TailKeeps
<1>3. DownIsEmpty(l)'
  BY DEF DownIsEmpty
<1>4. /\ Head(chan[Back(l)]).kind # "LEAVING" => LeavingIsLast(l)'
      /\ LeavingIsLast(l)' \/ chan'[Back(l)] = << >>
  BY <1>2 DEF LinkInv, LeavingIsLast
<1>5. bounds.switches = 0 => Paired(chan[Back(l)])
  BY DEF LinkInv, CandidateInv
<1> QED BY <1>2, <1>3, <1>4, <1>5

\* What a handler or a continuation of p changes, beside what it makes of <<p, q>>.
LEMMA HandleChanges ==
  ASSUME TypeOK, NEW p \in Peers, NEW q \in Peers, <<p, q>> \in Links, LinkInv(<<p, q>>),
         Handle(p, q)
  PROVE  /\ UNCHANGED <<up, gone, roomVars, bounds>> /\ missed \subseteq missed' /\ up[p]
         /\ \A l \in Links \ {<<p, q>>} :
              /\ pc'[l] = pc[l] /\ queued'[l] = queued[l] /\ PictureKept(l)
              /\ l \notin missed' => l \notin missed
  BY DEF TypeOK, LinkInv, DownIsEmpty, Handle, Ignore, OnAnnounce, OnAck, OfferTo, OnOffer, OnAnswer,
     OnIce, OnLeaving, Incoming, PostOffer, PostAnswer, Describe, meshVars, tileVars,
     PictureKept

\* The other links of p and q get no more than what p posts.
LEMMA OthersGrow ==
  ASSUME TypeOK, NEW p \in Peers, NEW q \in Peers, <<p, q>> \in Links, LinkInv(<<p, q>>),
         Handle(p, q), NEW l \in Links \ {<<p, q>>}
  PROVE  Grows(l)
<1>1. /\ <<q, p>> \in Links /\ Back(l) \in Links
      /\ l # <<q, p>> => Back(l) \notin {<<p, q>>, <<q, p>>}
      /\ l = <<q, p>> => Back(l) = <<p, q>> /\ l[1] = q /\ l[2] = p
  BY LinkParts DEF Links, Back
<1>2. /\ UNCHANGED <<up, bounds>> /\ up[p]
      /\ pc'[l] = pc[l] /\ queued'[l] = queued[l] /\ PictureKept(l)
      /\ l \notin missed' => l \notin missed
  BY HandleChanges
<1>3. chan[<<p, q>>] \in Seq(Messages)
  BY DEF TypeOK
<1> DEFINE Only(s, t) == \/ t = s
                         \/ /\ up[q]
                            /\ Paired(s) => Paired(t)
                            /\ \A n : Coming(s, n) => Coming(t, n)
<1>4. SUFFICES /\ l # <<q, p>> => chan'[Back(l)] = chan[Back(l)]
               /\ Only(chan[<<p, q>>], chan'[<<p, q>>])
  BY <1>1, <1>2 DEF Grows
<1>5. CASE PostOffer(p, q) \/ PostAnswer(p, q)
  <2>1. PICK kind \in {"OFFER", "ANSWER"} :
          chan' = IF up[q] THEN [chan EXCEPT ![<<p, q>>] =
                                   @ \o << [kind |-> kind, number |-> pc[<<p, q>>].number],
                                           Candidate(pc[<<p, q>>].number) >>]
                           ELSE chan
    BY <1>5 DEF PostOffer, PostAnswer, Candidate
  <2>2. pc[<<p, q>>].number \in Numbers
    BY <1>5, PcTyped DEF PostOffer, PostAnswer, Connections
  <2>3. Only(chan[<<p, q>>], chan[<<p, q>>] \o << [kind |-> kind, number |-> pc[<<p, q>>].number],
                                                 Candidate(pc[<<p, q>>].number) >>) \/ ~up[q]
    BY <1>3, <2>2, PostedTwo
  <2> HIDE DEF Only
  <2>4. l # <<q, p>> => chan'[Back(l)] = chan[Back(l)]
    BY <1>1, <2>1 DEF TypeOK
  <2>5. CASE up[q]
    BY <2>1, <2>3, <2>4, <2>5 DEF TypeOK
  <2>6. CASE ~up[q]
    BY <2>1, <2>4, <2>6 DEF Only
  <2>7. QED
    BY <2>5, <2>6
<1>6. CASE Describe(p, q)
  BY <1>6 DEF Describe
<1>7. CASE \E ms \in {<< >>, << [kind |-> "ACK"] >>} :
             chan[<<q, p>>] # << >> /\ chan' = Taken(p, q, ms)
  <2>1. PICK ms \in {<< >>, << [kind |-> "ACK"] >>} :
          chan[<<q, p>>] # << >> /\ chan' = Taken(p, q, ms)
    BY <1>7
  <2>2. [kind |-> "ACK"] \in Messages /\ Plain([kind |-> "ACK"])
    BY MessagesTyped DEF Plain
  <2>3. ms \in Seq(Messages)
    <3>1. << >> \in Seq(Messages) /\ << [kind |-> "ACK"] >> \in Seq(Messages)
      BY <2>2
    <3>2. QED
      BY <3>1
  <2>4. /\ chan'[<<p, q>>] = IF up[q] THEN chan[<<p, q>>] \o ms ELSE chan[<<p, q>>]
        /\ \A k \in Links \ {<<p, q>>, <<q, p>>} : chan'[k] = chan[k]
    BY <2>1, <2>3, TakenTyped
  <2>5. chan[<<p, q>>] \o << >> = chan[<<p, q>>]
    BY <1>3
  <2>6. /\ chan[<<p, q>>] \o << [kind |-> "ACK"] >> = Append(chan[<<p, q>>], [kind |-> "ACK"])
        /\ Paired(chan[<<p, q>>]) => Paired(Append(chan[<<p, q>>], [kind |-> "ACK"]))
        /\ \A n : Coming(chan[<<p, q>>], n) => Coming(Append(chan[<<p, q>>], [kind |-> "ACK"]), n)
    BY <1>3, <2>2, PostedOne
  <2>7. QED
    BY <1>1, <2>4, <2>5, <2>6
<1> QED
  <2>1. CASE Ignore(p, q)
    BY <1>7, <2>1 DEF Ignore
  <2>2. CASE OnAnnounce(p, q)
    BY <1>7, <2>2 DEF OnAnnounce, Incoming
  <2>3. CASE OnAck(p, q) \/ OnOffer(p, q) \/ OnAnswer(p, q) \/ OnIce(p, q) \/ OnLeaving(p, q)
    BY <1>7, <2>3 DEF OnAck, OnOffer, OnAnswer, OnIce, OnLeaving, Incoming
  <2>4. QED
    BY <1>5, <1>6, <2>1, <2>2, <2>3 DEF Handle

\* What p makes of a message that it takes from q keeps the invariant of the link.
LEMMA TakerInv ==
  ASSUME IInv, NEW p \in Peers, NEW q \in Peers, <<p, q>> \in Links,
         \/ Ignore(p, q) \/ OnAnnounce(p, q) \/ OnAck(p, q) \/ OnOffer(p, q) \/ OnAnswer(p, q)
         \/ OnIce(p, q) \/ OnLeaving(p, q)
  PROVE  LinkInv(<<p, q>>)'
<1> DEFINE l == <<p, q>>
           m == Head(chan[<<q, p>>])
           Rest(k) == LeavingIsLast(k) /\ TileInv(k) /\ TaskInv(k)
                        /\ (bounds.switches = 0 => CandidateInv(k))
<1>1. /\ TypeOK /\ LinkInv(l) /\ l \in Links /\ l[1] = p /\ l[2] = q
      /\ Back(l) = <<q, p>> /\ Back(l) \in Links
      /\ bounds.switches = 0 => ~sfu[p]
      /\ 0 \notin Numbers
  BY LinkParts, PcTyped DEF IInv
<1>2. /\ chan[<<q, p>>] # << >> /\ UNCHANGED <<up, bounds>> /\ up[p] /\ missed \subseteq missed'
  BY <1>1, HandleChanges DEF Handle, Ignore, OnAnnounce, OnAck, OnOffer, OnAnswer, OnIce, OnLeaving,
     Incoming
<1>3. chan'[<<q, p>>] = Tail(chan[<<q, p>>])
  <2>1. PICK ms \in {<< >>, << [kind |-> "ACK"] >>} : chan' = Taken(p, q, ms)
    BY DEF Ignore, OnAnnounce, OnAck, OnOffer, OnAnswer, OnIce, OnLeaving
  <2>2. ms \in Seq(Messages)
    <3>1. << >> \in Seq(Messages) /\ << [kind |-> "ACK"] >> \in Seq(Messages)
      BY MessagesTyped
    <3>2. QED
      BY <3>1
  <2>3. QED
    BY <1>1, <1>2, <2>1, <2>2, TakenTyped
<1>4. /\ DownIsEmpty(l)'
      /\ m.kind # "LEAVING" => LeavingIsLast(l)'
      /\ LeavingIsLast(l)' \/ chan'[Back(l)] = << >>
      /\ bounds.switches = 0 =>
           /\ Paired(chan'[Back(l)])
           /\ \A n : Coming(chan[Back(l)], n) => Coming(chan'[Back(l)], n) \/ m = Candidate(n)
           /\ m.kind \in {"OFFER", "ANSWER"} => Coming(chan'[Back(l)], m.number)
  BY <1>1, <1>2, <1>3, TakesInv
<1>5. /\ TileInv(l) /\ TaskInv(l)
      /\ bounds.switches = 0 => CandidateInv(l)
      /\ bounds' = bounds
  BY <1>1, <1>2 DEF LinkInv
<1>6. \A n : m = Candidate(n) => m.kind = "ICE" /\ m.number = n
  BY DEF Candidate
<1>7. pc[l] # NoPc => pc[l] \in Connections
  BY <1>1, PcTyped
<1> SUFFICES Rest(l)'
  BY <1>1, <1>4 DEF LinkInv
<1> HIDE DEF l, m
<1>8. CASE Ignore(p, q)
  <2>1. pc'[l] = pc[l] /\ queued'[l] = queued[l] /\ UNCHANGED tileVars /\ bounds.switches # 0
    BY <1>1, <1>8 DEF Ignore, meshVars
  <2>2. LeavingIsLast(l)'
    BY <1>1, <1>4, <1>8 DEF Ignore, LeavingIsLast, meshVars, tileVars, l, m
  <2>3. QED
    BY <1>5, <2>1, <2>2 DEF TileInv, TaskInv, tileVars
<1>9. ASSUME m.kind # "LEAVING", m.kind # "ICE",
             pc'[l] = pc[l], queued'[l] = queued[l], UNCHANGED tileVars
      PROVE  Rest(l)'
  <2>1. (bounds.switches = 0 => CandidateInv(l))'
    BY <1>4, <1>5, <1>6, <1>9 DEF CandidateInv
  <2>2. QED
    BY <1>4, <1>5, <1>9, <2>1 DEF TileInv, TaskInv, tileVars
<1>10. ASSUME m.kind # "LEAVING", pc'[l] # NoPc, pc'[l].remote = 0, pc'[l].next = 0,
              pc'[l].task \notin {"accept", "settle"}, pc'[l].state # "connected"
       PROVE  Rest(l)'
  BY <1>4, <1>5, <1>10 DEF TileInv, TaskInv, CandidateInv
<1>11. ASSUME m.kind \in {"OFFER", "ANSWER"}, m.number \in Numbers, pc'[l] # NoPc,
              pc'[l].next = m.number, pc'[l].task \in {"accept", "settle"},
              pc'[l].remote # 0 => tile'[l] = pc'[l].number \/ l \in overruled',
              pc'[l].state = "connected" => pc'[l].remote # 0
       PROVE  Rest(l)'
  <2>1. m.number # 0
    BY <1>1, <1>11, PcTyped
  <2>2. QED
    BY <1>4, <1>5, <1>11, <2>1 DEF TileInv, TaskInv, CandidateInv
<1>12. m \in Messages
  BY <1>1, <1>2, TailOf DEF TypeOK, m
<1>13. CASE OnAnnounce(p, q)
  <2>0. m.kind = "ANNOUNCE" /\ queued' = queued /\ UNCHANGED tileVars
    BY <1>13 DEF OnAnnounce, Incoming, m
  <2>1. CASE pc' = pc
    BY <1>9, <2>0, <2>1
  <2>2. CASE OfferTo(p, q)
    <3>1. pc'[l] = NewConnection("offer") /\ Free
      BY <1>1, <2>2 DEF OfferTo, TypeOK, l
    <3>2. QED
      BY <1>10, <2>0, <3>1, NewTyped
  <2>3. QED
    BY <1>13, <2>1, <2>2 DEF OnAnnounce
<1>14. CASE OnAck(p, q)
  <2>0. m.kind = "ACK"
    BY <1>14 DEF OnAck, Incoming, m
  <2>1. pc'[l] = NewConnection("offer") /\ Free
    BY <1>1, <1>14 DEF OnAck, OfferTo, TypeOK, l
  <2>2. QED
    BY <1>10, <2>0, <2>1, NewTyped
<1>15. CASE OnOffer(p, q)
  <2>0. m.kind = "OFFER" /\ queued' = queued /\ UNCHANGED tileVars /\ m.number \in Numbers
    BY <1>12, <1>15, MessagesTyped DEF OnOffer, Incoming, m
  <2>1. CASE pc' = pc
    BY <1>9, <2>0, <2>1
  <2>2. CASE Established(pc[l]) /\ pc' = [pc EXCEPT ![l] = [@ EXCEPT !.task = "accept", !.next = m.number]]
    <3>1. pc[l] # NoPc /\ pc[l] \in Connections
      BY <1>7, <2>2 DEF Established, In
    <3>2. pc'[l] = [pc[l] EXCEPT !.task = "accept", !.next = m.number]
      BY <1>1, <2>2 DEF TypeOK
    <3>3. /\ pc'[l].task = "accept" /\ pc'[l].next = m.number /\ pc'[l].remote = pc[l].remote
          /\ pc'[l].number = pc[l].number /\ pc'[l].state = pc[l].state /\ pc'[l] \in Connections
      BY <2>0, <3>1, <3>2 DEF Connections
    <3>4. pc'[l] # NoPc
      BY <1>1, <3>3, PcTyped
    <3>5. QED
      BY <1>5, <1>11, <2>0, <3>1, <3>3, <3>4 DEF TileInv, tileVars
  <2>3. CASE Free /\ pc' = [pc EXCEPT ![l] = [NewConnection("accept") EXCEPT !.next = m.number]]
    <3>1. pc'[l] = [NewConnection("accept") EXCEPT !.next = m.number]
      BY <1>1, <2>3 DEF TypeOK
    <3>2. NewConnection("accept") \in Connections /\ NewConnection("accept").remote = 0
          /\ NewConnection("accept").state = "new" /\ NewConnection("accept").task = "accept"
      BY <2>3, NewTyped
    <3>3. /\ pc'[l].task = "accept" /\ pc'[l].next = m.number /\ pc'[l].remote = 0
          /\ pc'[l].state = "new" /\ pc'[l] \in Connections
      BY <2>0, <3>1, <3>2 DEF Connections
    <3>4. pc'[l] # NoPc
      BY <1>1, <3>3, PcTyped
    <3>5. QED
      BY <1>11, <2>0, <3>3, <3>4
  <2>4. QED
    BY <1>15, <2>1, <2>2, <2>3 DEF OnOffer, l, m
<1>16. CASE OnAnswer(p, q)
  <2>0. m.kind = "ANSWER" /\ queued' = queued /\ UNCHANGED tileVars /\ m.number \in Numbers
    BY <1>12, <1>16, MessagesTyped DEF OnAnswer, Incoming, m
  <2>1. CASE pc' = pc
    BY <1>9, <2>0, <2>1
  <2>2. CASE /\ pc[l] # NoPc
             /\ pc' = [pc EXCEPT ![l] = [@ EXCEPT !.task = "settle", !.next = m.number]]
    <3>1. pc[l] # NoPc /\ pc[l] \in Connections
      BY <1>7, <2>2
    <3>2. pc'[l] = [pc[l] EXCEPT !.task = "settle", !.next = m.number]
      BY <1>1, <2>2 DEF TypeOK
    <3>3. /\ pc'[l].task = "settle" /\ pc'[l].next = m.number /\ pc'[l].remote = pc[l].remote
          /\ pc'[l].number = pc[l].number /\ pc'[l].state = pc[l].state /\ pc'[l] \in Connections
      BY <2>0, <3>1, <3>2 DEF Connections
    <3>4. pc'[l] # NoPc
      BY <1>1, <3>3, PcTyped
    <3>5. QED
      BY <1>5, <1>11, <2>0, <3>1, <3>3, <3>4 DEF TileInv, tileVars
  <2>3. QED
    BY <1>16, <2>1, <2>2 DEF OnAnswer, l, m
<1>17. CASE OnIce(p, q)
  <2>0. m.kind = "ICE" /\ UNCHANGED tileVars /\ m = Candidate(m.number)
    <3>1. m.kind = "ICE" /\ UNCHANGED tileVars
      BY <1>17 DEF OnIce, Incoming, m
    <3>2. QED
      BY <1>12, <3>1 DEF Messages, Candidate
  <2>1. CASE /\ pc[l] # NoPc /\ pc[l].remote # 0 /\ pc[l].next = 0
             /\ pc' = [pc EXCEPT ![l].heard = @ \/ pc[l].remote = m.number]
    <3>1. pc'[l] = [pc[l] EXCEPT !.heard = @ \/ pc[l].remote = m.number]
      BY <1>1, <2>1 DEF TypeOK
    <3>2. /\ pc'[l].task = pc[l].task /\ pc'[l].next = pc[l].next /\ pc'[l].remote = pc[l].remote
          /\ pc'[l].number = pc[l].number /\ pc'[l].state = pc[l].state
          /\ pc'[l].heard = (pc[l].heard \/ pc[l].remote = m.number)
      BY <1>7, <2>1, <3>1 DEF Connections
    <3>3. (bounds.switches = 0 => CandidateInv(l))'
      <4> SUFFICES ASSUME bounds.switches = 0
                   PROVE  pc'[l].heard \/ Coming(chan'[Back(l)], pc'[l].remote)
        BY <1>4, <1>5, <2>1, <3>2 DEF CandidateInv
      <4>1. pc[l].heard \/ Coming(chan[Back(l)], pc[l].remote)
        BY <1>5, <2>1 DEF CandidateInv
      <4>2. CASE pc[l].heard
        BY <3>2, <4>2
      <4>3. CASE Coming(chan[Back(l)], pc[l].remote)
        <5>1. Coming(chan'[Back(l)], pc[l].remote) \/ m = Candidate(pc[l].remote)
          BY <1>4, <4>3
        <5>2. m = Candidate(pc[l].remote) => m.number = pc[l].remote
          BY DEF Candidate
        <5>3. QED
          BY <3>2, <5>1, <5>2
      <4>4. QED
        BY <4>1, <4>2, <4>3
    <3>4. (TileInv(l) /\ TaskInv(l))'
      BY <1>5, <2>0, <2>1, <3>2 DEF TileInv, TaskInv, tileVars
    <3>5. QED
      BY <1>4, <2>0, <3>3, <3>4
  <2>2. CASE /\ ~(pc[l] # NoPc /\ pc[l].remote # 0 /\ pc[l].next = 0)
             /\ pc' = pc /\ queued' = [queued EXCEPT ![l] = @ \cup {m.number}]
    <3>1. queued'[l] = queued[l] \cup {m.number}
      BY <1>1, <2>2 DEF TypeOK
    <3>2. (bounds.switches = 0 => CandidateInv(l))'
      BY <1>4, <1>5, <1>6, <2>2, <3>1 DEF CandidateInv
    <3>3. (TileInv(l) /\ TaskInv(l))'
      BY <1>5, <2>0, <2>2 DEF TileInv, TaskInv, tileVars
    <3>4. QED
      BY <1>4, <2>0, <3>2, <3>3
  <2>3. QED
    BY <1>17, <2>1, <2>2 DEF OnIce, l, m
<1>18. CASE OnLeaving(p, q)
  <2>1. pc'[l] = NoPc /\ tile'[l] = 0
    BY <1>1, <1>18 DEF OnLeaving, TypeOK, l
  <2>2. QED
    BY <1>1, <1>4, <1>5, <2>1 DEF LeavingIsLast, TileInv, TaskInv, CandidateInv
<1> QED BY <1>8, <1>13, <1>14, <1>15, <1>16, <1>17, <1>18

\* A continuation of p, and what its browser does, keeps the invariant of the link.
LEMMA OwnInv ==
  ASSUME IInv, NEW p \in Peers, NEW q \in Peers, <<p, q>> \in Links,
         \/ PostOffer(p, q) \/ Describe(p, q) \/ PostAnswer(p, q)
         \/ Connected(p, q) \/ Failed(p, q) \/ Break(p, q)
  PROVE  LinkInv(<<p, q>>)'
<1> DEFINE l == <<p, q>>
<1>1. /\ TypeOK /\ LinkInv(l) /\ l \in Links /\ l[1] = p /\ l[2] = q
      /\ Back(l) = <<q, p>> /\ Back(l) \in Links /\ Back(l) # l
  BY LinkParts DEF IInv
<1>2. /\ UNCHANGED <<up, missed>> /\ bounds'.switches = bounds.switches
      /\ chan'[Back(l)] = chan[Back(l)]
  <2>1. chan'[Back(l)] = chan[Back(l)]
    BY <1>1 DEF TypeOK, PostOffer, PostAnswer, Describe, Connected, Failed, Break
  <2>2. bounds'.switches = bounds.switches
    BY <1>1, SpendTyped DEF PostOffer, PostAnswer, Describe, Connected, Failed, Break
  <2>3. QED
    BY <2>1, <2>2 DEF PostOffer, PostAnswer, Describe, Connected, Failed, Break
<1>3. pc[l] # NoPc /\ pc[l] \in Connections
  <2>1. pc[l] # NoPc
    BY <1>1, PcTyped DEF PostOffer, PostAnswer, Describe, Connected, Failed, Break, Matched, Engaged,
       Established, In
  <2>2. QED
    BY <1>1, <2>1, PcTyped
<1>4. /\ up[p] /\ TileInv(l) /\ TaskInv(l)
      /\ ~up[q] /\ l \notin missed => EndsLeaving(chan[Back(l)])
      /\ bounds.switches = 0 => CandidateInv(l)
  BY <1>1, <1>3 DEF LinkInv, DownIsEmpty, LeavingIsLast
<1>5. SUFFICES (TileInv(l) /\ TaskInv(l) /\ (bounds.switches = 0 => CandidateInv(l)))'
  <2>1. DownIsEmpty(l)'
    BY <1>1, <1>2, <1>4 DEF DownIsEmpty
  <2>2. LeavingIsLast(l)'
    BY <1>1, <1>2, <1>4 DEF LeavingIsLast
  <2>3. QED
    BY <2>1, <2>2 DEF LinkInv
<1>6. CASE Describe(p, q)
  <2>1. /\ pc'[l] = Described(l) /\ pc[l].next # 0 /\ queued' = [queued EXCEPT ![l] = {}]
        /\ IF pc[l].remote = 0 THEN tile'[l] = pc[l].number ELSE UNCHANGED tileVars
    BY <1>1, <1>6 DEF Describe, TypeOK
  <2>2. /\ pc'[l].number = pc[l].number /\ pc'[l].next = 0 /\ pc'[l].remote = pc[l].next
        /\ pc'[l].heard = (pc[l].next \in queued[l])
        /\ pc'[l].task \in {"answer", "none"}
    BY <1>3, <2>1 DEF Described, Connections
  <2>3. CandidateInv(l) => CandidateInv(l)'
    BY <1>2, <1>3, <2>1, <2>2 DEF CandidateInv
  <2>4. (TileInv(l) /\ TaskInv(l))'
    <3>1. TileInv(l)'
      BY <1>3, <1>4, <2>1, <2>2 DEF TileInv, tileVars
    <3>2. QED
      BY <2>1, <2>2, <3>1 DEF TaskInv
  <2>5. QED
    BY <1>2, <1>4, <2>3, <2>4
<1>7. CASE PostOffer(p, q) \/ PostAnswer(p, q)
  <2>1. pc[l].task \in {"offer", "answer"} /\ queued' = queued /\ UNCHANGED tileVars
    BY <1>7 DEF PostOffer, PostAnswer
  <2>2. /\ pc'[l].number = pc[l].number /\ pc'[l].next = pc[l].next /\ pc'[l].remote = pc[l].remote
        /\ pc'[l].heard = pc[l].heard /\ pc'[l].task = "none"
        /\ pc'[l].state = pc[l].state \/ pc'[l].state = "connecting"
    <3>1. \/ pc'[l] = [pc[l] EXCEPT !.task = "none", !.local = TRUE]
          \/ pc'[l] = [pc[l] EXCEPT !.task = "none", !.local = TRUE, !.state = "connecting"]
      BY <1>1, <1>7 DEF PostOffer, PostAnswer, TypeOK
    <3>2. QED
      BY <1>3, <3>1 DEF Connections
  <2>3. CandidateInv(l) => CandidateInv(l)'
    BY <1>2, <1>3, <2>1, <2>2 DEF CandidateInv
  <2>4. (TileInv(l) /\ TaskInv(l))'
    BY <1>3, <1>4, <2>1, <2>2 DEF TileInv, TaskInv, tileVars
  <2>5. QED
    BY <1>2, <1>4, <2>3, <2>4
<1>8. CASE Connected(p, q) \/ Failed(p, q) \/ Break(p, q)
  <2>1. queued' = queued /\ UNCHANGED tileVars
    BY <1>8 DEF Connected, Failed, Break
  <2>2. /\ pc'[l].number = pc[l].number /\ pc'[l].next = pc[l].next /\ pc'[l].remote = pc[l].remote
        /\ pc'[l].heard = pc[l].heard /\ pc'[l].task = pc[l].task
        /\ pc'[l].state = "connected" => Connected(p, q)
    <3>1. \/ Connected(p, q) /\ pc'[l] = [pc[l] EXCEPT !.state = "connected"]
          \/ pc'[l] = [pc[l] EXCEPT !.state = "failed"]
      BY <1>1, <1>8 DEF Connected, Failed, Break, TypeOK
    <3>2. QED
      BY <1>3, <3>1 DEF Connections
  <2>3. Connected(p, q) => pc[l].remote # 0
    <3>1. Connected(p, q) => pc[Back(l)] # NoPc /\ pc[l].remote = pc[Back(l)].number
      BY DEF Connected, Matched
    <3>2. pc[Back(l)] # NoPc => pc[Back(l)].number # 0
      BY <1>1, PcTyped DEF Connections
    <3>3. QED
      BY <3>1, <3>2
  <2>4. CandidateInv(l) => CandidateInv(l)'
    BY <1>2, <1>3, <2>1, <2>2 DEF CandidateInv
  <2>5. (TileInv(l) /\ TaskInv(l))'
    BY <1>3, <1>4, <2>1, <2>2, <2>3 DEF TileInv, TaskInv, tileVars
  <2>6. QED
    BY <1>2, <1>4, <2>4, <2>5
<1> QED BY <1>6, <1>7, <1>8

\* The browser's steps leave every other link as it is.
LEMMA BrowserGrows ==
  ASSUME TypeOK, NEW p \in Peers, NEW q \in Peers, <<p, q>> \in Links,
         Browser(p, q) \/ Break(p, q), NEW l \in Links \ {<<p, q>>}
  PROVE  Grows(l)
  BY SpendTyped DEF TypeOK, Browser, Connected, Failed, Break, Grows, PictureKept, tileVars

-----------------------------------------------------------------------------
(* The theorems *)

\* At the start.
LEMMA InvInit ==
  ASSUME Init
  PROVE  IInv
<1> USE LinkParts
<1>1. TypeOK
  <2>1. << >> \in Seq(Messages) /\ {} \in SUBSET Numbers
    OBVIOUS
  <2>2. /\ 0 \in 0 .. MaxCrossings /\ 0 \in 0 .. MaxLeaves
        /\ 0 \in 0 .. MaxSwitches /\ 0 \in 0 .. MaxBreaks
    BY MeshAssumption
  <2>3. QED
    BY <2>1, <2>2 DEF Init, TypeOK
<1>2. ASSUME NEW l \in Links
      PROVE  LinkInv(l)
  BY DEF Init, LinkInv, DownIsEmpty, LeavingIsLast, TileInv, TaskInv, CandidateInv, Paired
<1> QED BY <1>1, <1>2 DEF IInv, Init

\* Every step keeps the invariant.
LEMMA InvStep ==
  ASSUME IInv, [Next]_vars
  PROVE  IInv'
<1>1. CASE UNCHANGED vars
  <2>1. TypeOK'
    BY <1>1 DEF IInv, TypeOK, vars, meshVars, tileVars, roomVars
  <2>2. ASSUME NEW l \in Links
        PROVE  LinkInv(l)'
    <3>1. Grows(l)
      BY <1>1 DEF Grows, PictureKept, vars, meshVars, tileVars
    <3>2. QED
      BY <2>2, <3>1, GrowsInv DEF IInv
  <2>3. QED
    BY <1>1, <2>1, <2>2 DEF IInv, vars, roomVars
<1>2. CASE Next
  <2>0. TypeOK'
    BY <1>2, TypeStep DEF IInv
  <2>1. ASSUME NEW p \in Peers, Join(p) \/ Heartbeat(p) \/ Leave(p) \/ CloseTab(p) \/ RoomStep(p)
        PROVE  IInv'
    <3>1. \A l \in Links : LinkInv(l)'
      BY <2>1, PageInv
    <3>2. (bounds.switches = 0 => \A r \in Peers : ~sfu[r])'
      BY <2>1, SpendTyped DEF IInv, TypeOK, Join, Heartbeat, Leave, CloseTab, Forget, roomVars,
         RoomStep, RoomConnects, RoomDisconnects, TrackSubscribed, TrackEnded
    <3>3. QED
      BY <2>0, <3>1, <3>2 DEF IInv
  <2>2. ASSUME NEW l \in Links, Handle(l[1], l[2]) \/ Browser(l[1], l[2]) \/ Break(l[1], l[2])
        PROVE  IInv'
    <3>0. l[1] \in Peers /\ l[2] \in Peers /\ l = <<l[1], l[2]>>
      BY LinkParts
    <3> DEFINE p == l[1]
               q == l[2]
    <3>1. LinkInv(<<p, q>>)'
      BY <2>2, <3>0, TakerInv, OwnInv DEF Handle, Browser
    <3>2. ASSUME NEW k \in Links, k # <<p, q>>
          PROVE  LinkInv(k)'
      <4>1. TypeOK /\ LinkInv(k) /\ LinkInv(<<p, q>>)
        BY <3>0 DEF IInv
      <4>2. Grows(k)
        BY <2>2, <3>0, <3>2, <4>1, OthersGrow, BrowserGrows
      <4>3. QED
        BY <4>1, <4>2, GrowsInv
    <3>3. UNCHANGED sfu /\ bounds'.switches = bounds.switches
      <4>1. Handle(p, q) => UNCHANGED sfu /\ bounds' = bounds
        BY <3>0, HandleChanges DEF IInv, roomVars
      <4>2. Browser(p, q) \/ Break(p, q) => UNCHANGED sfu /\ bounds'.switches = bounds.switches
        BY SpendTyped DEF IInv, Browser, Connected, Failed, Break, roomVars
      <4>3. QED
        BY <2>2, <4>1, <4>2
    <3>4. QED
      BY <2>0, <3>1, <3>2, <3>3 DEF IInv
  <2>3. QED
    BY <1>2, <2>1, <2>2, LinkParts DEF Next, RoomStep
<1> QED BY <1>1, <1>2

\* The invariant holds throughout.
THEOREM Invariance == Spec => []IInv
<1>1. Init => IInv
  BY InvInit
<1>2. IInv /\ [Next]_vars => IInv'
  BY InvStep
<1> QED BY <1>1, <1>2, PTL DEF Spec

\* Every variable has its type throughout: the connections of useLiveKitRoom's
\* mesh, its queued candidates and its pictures.
THEOREM TypeCorrect == Spec => []TypeOK
<1>1. IInv => TypeOK
  BY DEF IInv
<1> QED BY <1>1, Invariance, PTL

\* A P2P picture of a peer that has gone is on screen only where its leaving was not
\* heard, whichever handlers were awaiting when it left.
THEOREM NoGhosts == Spec => []NoGhostTile
<1>1. IInv => NoGhostTile
  <2> SUFFICES ASSUME IInv, NEW l \in Links,
                      up[l[1]], ~up[l[2]], chan[Back(l)] = << >>, l \notin missed
               PROVE  tile[l] \notin Numbers /\ pc[l] = NoPc
    BY DEF NoGhostTile
  <2> QED BY DEF IInv, LinkInv, LeavingIsLast, EndsLeaving
<1> QED BY <1>1, Invariance, PTL

\* A connected tab shows the connection it has, not one that was replaced, unless a
\* handler of its LiveKit room has taken the picture of this connection away.
THEOREM TilesAreCurrent == Spec => []TileIsCurrent
<1>1. IInv => TileIsCurrent
  <2> SUFFICES ASSUME IInv, NEW l \in Links, Quiet, Established(pc[l]), l \notin overruled
               PROVE  tile[l] = pc[l].number
    BY DEF TileIsCurrent
  <2> QED BY DEF IInv, LinkInv, TileInv, Established, In
<1> QED BY <1>1, Invariance, PTL

\* Candidates reach both objects of a pair that have described each other, though
\* each may come before the description it belongs to.
THEOREM CandidatesArrive == Spec => []CandidateArrives
<1>1. ASSUME IInv, bounds.switches = 0, Quiet, NEW l \in Links, pc[l] # NoPc,
             NEW n \in Numbers, pc[l].remote = n
      PROVE  pc[l].heard
  <2>1. Back(l) \in Links
    BY LinkParts
  <2>2. chan[Back(l)] = << >> /\ pc[l].task = "none"
    BY <1>1, <2>1 DEF Quiet, Still
  <2>3. pc[l].next = 0
    BY <1>1, <2>2 DEF IInv, LinkInv, TaskInv
  <2>4. ~Coming(chan[Back(l)], n)
    BY <2>2 DEF Coming
  <2>5. n # 0
    BY <1>1, PcTyped DEF IInv
  <2>6. QED
    BY <1>1, <2>3, <2>4, <2>5 DEF IInv, LinkInv, CandidateInv
<1>2. IInv => CandidateArrives
  <2> SUFFICES ASSUME IInv, NEW l \in Links,
                      bounds.switches = 0, Quiet, pc[l] # NoPc, pc[Back(l)] # NoPc,
                      pc[l].remote = pc[Back(l)].number, pc[Back(l)].remote = pc[l].number
               PROVE  pc[l].heard /\ pc[Back(l)].heard
    BY DEF CandidateArrives
  <2>1. Back(l) \in Links
    BY LinkParts
  <2>2. pc[l].number \in Numbers /\ pc[Back(l)].number \in Numbers
    BY <2>1, PcTyped DEF IInv, Connections
  <2>3. QED
    BY <1>1, <2>1, <2>2
<1> QED BY <1>2, Invariance, PTL
=============================================================================
