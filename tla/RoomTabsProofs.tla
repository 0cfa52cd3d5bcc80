----------------------------- MODULE RoomTabsProofs -----------------------------
(***************************************************************************)
(* Proofs about RoomTabs, for any number of tabs and of the steps the      *)
(* bounds count.                                                           *)
(***************************************************************************)
EXTENDS RoomTabs, TLAPS

\* Frame f puts p on the list of who receives it; it takes p off.
Adds(f, p) ==
  IF f.kind = "ROOM_STATE" THEN p \in f.tabs ELSE f.kind = "PARTICIPANT_JOINED" /\ f.tab = p

Drops(f, p) ==
  IF f.kind = "ROOM_STATE" THEN p \notin f.tabs ELSE f.kind = "PARTICIPANT_LEFT" /\ f.tab = p

\* A frame of s takes p off the list.
Dropping(s, p) == \E i \in 1 .. Len(s) : Drops(s[i], p)

\* What puts p on the list in s is followed by what takes p off.
Clean(s, p) == \A i \in 1 .. Len(s) : Adds(s[i], p) => \E j \in i + 1 .. Len(s) : Drops(s[j], p)

EndsLeft(s) == s # << >> /\ s[Len(s)].kind = "LEFT"

\* An open socket is of a mounted page and a registered session; frames come on
\* an open socket, and messages to a mounted page.
SocketInv(q) ==
  /\ socket[q] = "open" => q \in sessions
  /\ socket[q] # "none" => up[q]
  /\ wire[q] # << >> => socket[q] = "open"

HeardInv(q, p) == chan[<<p, q>>] # << >> => up[q]

\* A page that was left said so last.
LeftIsLast(q, p) ==
  ~up[p] /\ p \notin closed /\ chan[<<p, q>>] # << >> => EndsLeft(chan[<<p, q>>])

\* The gateway's last word to q on a tab without a session is that it left.
WireInv(q, p) == p \notin sessions => Clean(wire[q], p)

\* A tab that left is not listed, or what takes it off is on its way.
ListInv(q, p) ==
  ~up[p] /\ p \notin closed \cup sessions /\ socket[q] = "open"
    => list[q][p] = Absent \/ Dropping(wire[q], p) \/ chan[<<p, q>>] # << >>

LinkInv(q, p) == HeardInv(q, p) /\ LeftIsLast(q, p) /\ WireInv(q, p) /\ ListInv(q, p)

IInv ==
  /\ TypeOK
  /\ \A q \in Tabs : SocketInv(q)
  /\ \A l \in Links : LinkInv(l[1], l[2])

-----------------------------------------------------------------------------
(* Frames and messages *)

\* A frame that is received: what it leaves of the gateway's last word.
LEMMA FrameTaken ==
  ASSUME NEW s \in Seq(Frames), s # << >>, NEW p
  PROVE  /\ Tail(s) \in Seq(Frames) /\ Head(s) \in Frames
         /\ Clean(s, p) => Clean(Tail(s), p)
         /\ Dropping(s, p) => Dropping(Tail(s), p) \/ Drops(Head(s), p)
         /\ Clean(s, p) /\ Adds(Head(s), p) => Dropping(Tail(s), p)
<1> DEFINE t == Tail(s)
<1>1. /\ t \in Seq(Frames) /\ Len(s) \in Nat /\ Len(s) >= 1 /\ Len(t) = Len(s) - 1
      /\ Head(s) = s[1] /\ \A i \in 1 .. Len(t) : t[i] = s[i + 1]
      /\ Head(s) \in Frames
  OBVIOUS
<1> HIDE DEF t
<1>2. ASSUME Clean(s, p)
      PROVE  Clean(t, p)
  <2> SUFFICES ASSUME NEW i \in 1 .. Len(t), Adds(t[i], p)
               PROVE  \E j \in i + 1 .. Len(t) : Drops(t[j], p)
    BY DEF Clean
  <2>1. i + 1 \in 1 .. Len(s) /\ Adds(s[i + 1], p)
    BY <1>1
  <2>2. PICK j \in i + 1 + 1 .. Len(s) : Drops(s[j], p)
    BY <1>2, <2>1 DEF Clean
  <2>3. j - 1 \in i + 1 .. Len(t) /\ j - 1 \in 1 .. Len(t) /\ (j - 1) + 1 = j
    BY <1>1, <2>2
  <2>4. t[j - 1] = s[j]
    BY <1>1, <2>3
  <2>5. QED
    BY <2>2, <2>3, <2>4
<1>3. ASSUME Dropping(s, p)
      PROVE  Dropping(t, p) \/ Drops(Head(s), p)
  <2>1. PICK i \in 1 .. Len(s) : Drops(s[i], p)
    BY <1>3 DEF Dropping
  <2>2. CASE i = 1
    BY <1>1, <2>1, <2>2
  <2>3. CASE i # 1
    <3>1. i - 1 \in 1 .. Len(t) /\ (i - 1) + 1 = i
      BY <1>1, <2>3
    <3>2. QED
      BY <1>1, <2>1, <3>1 DEF Dropping
  <2>4. QED
    BY <2>2, <2>3
<1>4. ASSUME Clean(s, p), Adds(Head(s), p)
      PROVE  Dropping(t, p)
  <2>1. 1 \in 1 .. Len(s)
    BY <1>1
  <2>2. PICK j \in 1 + 1 .. Len(s) : Drops(s[j], p)
    BY <1>1, <1>4, <2>1 DEF Clean
  <2>3. j - 1 \in 1 .. Len(t) /\ (j - 1) + 1 = j
    BY <1>1, <2>2
  <2>4. QED
    BY <1>1, <2>2, <2>3 DEF Dropping
<1> QED BY <1>1, <1>2, <1>3, <1>4 DEF t

\* A frame that is sent: it is the gateway's last word.
LEMMA FrameSent ==
  ASSUME NEW s \in Seq(Frames), NEW f \in Frames, NEW p
  PROVE  /\ Append(s, f) \in Seq(Frames) /\ Append(s, f) # << >>
         /\ Clean(s, p) /\ ~Adds(f, p) => Clean(Append(s, f), p)
         /\ Dropping(s, p) => Dropping(Append(s, f), p)
         /\ Drops(f, p) => Clean(Append(s, f), p) /\ Dropping(Append(s, f), p)
<1> DEFINE t == Append(s, f)
<1>1. /\ t \in Seq(Frames) /\ Len(s) \in Nat /\ Len(t) = Len(s) + 1
      /\ t[Len(t)] = f /\ \A i \in 1 .. Len(s) : t[i] = s[i]
      /\ t # << >>
  OBVIOUS
<1> HIDE DEF t
<1>2. ASSUME Clean(s, p), ~Adds(f, p)
      PROVE  Clean(t, p)
  <2> SUFFICES ASSUME NEW i \in 1 .. Len(t), Adds(t[i], p)
               PROVE  \E j \in i + 1 .. Len(t) : Drops(t[j], p)
    BY DEF Clean
  <2>1. i \in 1 .. Len(s)
    BY <1>1, <1>2
  <2>2. PICK j \in i + 1 .. Len(s) : Drops(s[j], p)
    BY <1>1, <1>2, <2>1 DEF Clean
  <2>3. j \in i + 1 .. Len(t) /\ t[j] = s[j]
    BY <1>1, <2>1, <2>2
  <2>4. QED
    BY <2>2, <2>3
<1>3. Dropping(s, p) => Dropping(t, p)
  BY <1>1 DEF Dropping
<1>4. ASSUME Drops(f, p)
      PROVE  Clean(t, p) /\ Dropping(t, p)
  <2>1. Dropping(t, p)
    <3>1. Len(t) \in 1 .. Len(t)
      BY <1>1
    <3>2. QED
      BY <1>1, <1>4, <3>1 DEF Dropping
  <2>2. ASSUME NEW i \in 1 .. Len(t), Adds(t[i], p)
        PROVE  \E j \in i + 1 .. Len(t) : Drops(t[j], p)
    <3>1. i # Len(t)
      BY <1>1, <1>4, <2>2 DEF Adds, Drops
    <3>2. Len(t) \in i + 1 .. Len(t)
      BY <1>1, <3>1
    <3>3. QED
      BY <1>1, <1>4, <3>2
  <2>3. QED
    BY <2>1, <2>2 DEF Clean
<1> QED BY <1>1, <1>2, <1>3, <1>4 DEF t

\* A sequence that is not empty.
LEMMA NotEmpty ==
  ASSUME NEW S, NEW s \in Seq(S), s # << >>
  PROVE  Len(s) # 0
  OBVIOUS

\* A message that is heard, and messages that are posted.
LEMMA PostKept ==
  ASSUME NEW s \in Seq(Posts)
  PROVE  /\ s # << >> => /\ Tail(s) \in Seq(Posts) /\ Head(s) \in Posts
                         /\ EndsLeft(s) => \/ EndsLeft(Tail(s))
                                           \/ Tail(s) = << >> /\ Head(s).kind = "LEFT"
         /\ \A ms \in Seq(Posts) : s \o ms \in Seq(Posts) /\ (s # << >> => s \o ms # << >>)
         /\ EndsLeft(s \o << [kind |-> "LEFT"] >>)
<1>1. ASSUME s # << >>
      PROVE  /\ Tail(s) \in Seq(Posts) /\ Head(s) \in Posts
             /\ EndsLeft(s) => EndsLeft(Tail(s)) \/ (Tail(s) = << >> /\ Head(s).kind = "LEFT")
  <2> DEFINE t == Tail(s)
  <2>1. /\ t \in Seq(Posts) /\ Len(s) \in Nat /\ Len(s) >= 1 /\ Len(t) = Len(s) - 1
        /\ Head(s) = s[1] /\ \A i \in 1 .. Len(t) : t[i] = s[i + 1]
        /\ Head(s) \in Posts
    BY <1>1
  <2> HIDE DEF t
  <2>5. (t = << >> => Len(t) = 0) /\ (t # << >> => Len(t) # 0)
    BY <2>1, NotEmpty
  <2>2. CASE t = << >>
    <3>1. Len(s) = 1
      BY <2>1, <2>5, <2>2
    <3>2. QED
      BY <2>1, <2>2, <3>1 DEF EndsLeft, t
  <2>3. CASE t # << >>
    <3>1. Len(t) \in 1 .. Len(t) /\ Len(t) + 1 = Len(s)
      BY <2>1, <2>5, <2>3
    <3>2. t[Len(t)] = s[Len(s)]
      BY <2>1, <3>1
    <3>3. QED
      BY <2>1, <2>3, <3>2 DEF EndsLeft, t
  <2>4. QED
    BY <2>2, <2>3
<1>2. ASSUME NEW ms \in Seq(Posts)
      PROVE  s \o ms \in Seq(Posts) /\ (s # << >> => s \o ms # << >>)
  <2>1. s \o ms \in Seq(Posts) /\ Len(s \o ms) = Len(s) + Len(ms) /\ Len(s) \in Nat /\ Len(ms) \in Nat
    OBVIOUS
  <2>2. s # << >> => Len(s) # 0
    OBVIOUS
  <2>3. QED
    BY <2>1, <2>2
<1>3. EndsLeft(s \o << [kind |-> "LEFT"] >>)
  <2> DEFINE m == [kind |-> "LEFT"]
             t == s \o << m >>
  <2>1. m \in Posts /\ m.kind = "LEFT"
    BY DEF Posts
  <2> HIDE DEF m
  <2>2. Len(t) = Len(s) + 1 /\ Len(s) \in Nat /\ t[Len(t)] = m /\ t # << >>
    BY <2>1
  <2>3. QED
    BY <2>1, <2>2 DEF EndsLeft, m
<1> QED BY <1>1, <1>2, <1>3

\* The messages and frames are of their types.
LEMMA MessagesTyped ==
  /\ \A on \in BOOLEAN, kind \in {"JOINED", "SYNC", "STATUS"} : Says(kind, on) \in Posts
  /\ [kind |-> "LEFT"] \in Posts
  /\ \A S \in SUBSET Tabs : [kind |-> "ROOM_STATE", tabs |-> S] \in Frames
  /\ \A kind \in {"PARTICIPANT_JOINED", "PARTICIPANT_LEFT"}, p \in Tabs :
       [kind |-> kind, tab |-> p] \in Frames
  /\ \A m \in Posts : m.kind # "LEFT" => m.mic \in BOOLEAN
  /\ \A f \in Frames : IF f.kind = "ROOM_STATE" THEN f.tabs \subseteq Tabs ELSE f.tab \in Tabs
  BY DEF Posts, Frames, Says

\* What p posts, and what it does not hear any more.
LEMMA PostedTyped ==
  ASSUME NEW c \in [Links -> Seq(Posts)], NEW p, NEW ms \in Seq(Posts)
  PROVE  /\ Posted(c, p, ms) \in [Links -> Seq(Posts)]
         /\ \A l \in Links : Posted(c, p, ms)[l] = IF l[1] = p /\ up[l[2]] THEN c[l] \o ms ELSE c[l]
         /\ Unheard(c, p) \in [Links -> Seq(Posts)]
         /\ \A l \in Links : Unheard(c, p)[l] = IF l[2] = p THEN << >> ELSE c[l]
<1>1. \A l \in Links : c[l] \o ms \in Seq(Posts)
  OBVIOUS
<1> QED BY <1>1 DEF Posted, Unheard

\* What the gateway sends.
LEMMA SentTyped ==
  ASSUME TypeOK, NEW to, NEW f \in Frames
  PROVE  /\ Sent(to, f) \in [Tabs -> Seq(Frames)]
         /\ \A q \in Tabs : Sent(to, f)[q] = IF q \in to /\ socket[q] = "open" THEN Append(wire[q], f)
                                                                               ELSE wire[q]
<1>1. \A q \in Tabs : Append(wire[q], f) \in Seq(Frames)
  BY DEF TypeOK
<1> QED BY <1>1 DEF TypeOK, Sent

BoundsOK ==
  bounds \in [toggles : 0 .. MaxToggles, leaves : 0 .. MaxLeaves, drops : 0 .. MaxDrops]

\* A counter that is spent stays within its bound.
LEMMA SpendTyped ==
  ASSUME TypeOK, \/ Spend("toggles", MaxToggles) \/ Spend("leaves", MaxLeaves)
                 \/ Spend("drops", MaxDrops)
  PROVE  BoundsOK'
<1>1. MaxToggles \in Nat /\ MaxLeaves \in Nat /\ MaxDrops \in Nat
  BY TabsAssumption
<1>2. BoundsOK
  BY DEF TypeOK, BoundsOK
<1>3. CASE Spend("toggles", MaxToggles)
  BY <1>1, <1>2, <1>3 DEF Spend, BoundsOK
<1>4. CASE Spend("leaves", MaxLeaves)
  BY <1>1, <1>2, <1>4 DEF Spend, BoundsOK
<1>5. CASE Spend("drops", MaxDrops)
  BY <1>1, <1>2, <1>5 DEF Spend, BoundsOK
<1> QED BY <1>3, <1>4, <1>5

\* A tab's list with one entry written.
LEMMA Listed ==
  ASSUME TypeOK, NEW p \in Tabs, NEW q \in Tabs, NEW e \in Entries \cup {Absent},
         list' = [list EXCEPT ![p][q] = e]
  PROVE  /\ list' \in [Tabs -> [Tabs -> Entries \cup {Absent}]]
         /\ list'[p][q] = e
         /\ \A r, s \in Tabs : r # p \/ s # q => list'[r][s] = list[r][s]
<1>1. [list[p] EXCEPT ![q] = e] \in [Tabs -> Entries \cup {Absent}]
  BY DEF TypeOK
<1>2. list' = [list EXCEPT ![p] = [list[p] EXCEPT ![q] = e]]
  BY DEF TypeOK
<1> QED BY <1>1, <1>2 DEF TypeOK

\* What the handlers write.
LEMMA Upserted ==
  ASSUME TypeOK, NEW p \in Tabs, NEW q \in Tabs, NEW on \in BOOLEAN,
         Upsert(p, q, on) \/ UpsertFlags(p, q, on)
  PROVE  /\ list' \in [Tabs -> [Tabs -> Entries \cup {Absent}]]
         /\ \A r, s \in Tabs : r # p \/ s # q => list'[r][s] = list[r][s]
<1>1. \A b \in BOOLEAN : [named |-> b, mic |-> on] \in Entries
  BY DEF Entries
<1>2. ((list[p][q] # Absent) /\ list[p][q].named) \in BOOLEAN
  OBVIOUS
<1>3. PICK e \in Entries \cup {Absent} : list' = [list EXCEPT ![p][q] = e]
  <2>1. CASE Upsert(p, q, on)
    BY <1>1, <2>1 DEF Upsert
  <2>2. CASE UpsertFlags(p, q, on)
    <3>1. list' = [list EXCEPT ![p][q] = [named |-> (list[p][q] # Absent) /\ list[p][q].named, mic |-> on]]
      BY <2>2 DEF UpsertFlags
    <3>2. QED
      BY <1>1, <1>2, <3>1
  <2>3. QED
    BY <2>1, <2>2
<1>4. /\ list' \in [Tabs -> [Tabs -> Entries \cup {Absent}]]
      /\ list'[p][q] = e
      /\ \A r, s \in Tabs : r # p \/ s # q => list'[r][s] = list[r][s]
  <2>1. list' = [list EXCEPT ![p][q] = e]
    BY <1>3
  <2>2. ASSUME NEW a \in Entries \cup {Absent}
        PROVE  LET L == [list EXCEPT ![p][q] = a]
               IN  /\ L \in [Tabs -> [Tabs -> Entries \cup {Absent}]]
                   /\ L[p][q] = a
                   /\ \A r, s \in Tabs : r # p \/ s # q => L[r][s] = list[r][s]
    BY DEF TypeOK
  <2>3. QED
    BY <2>1, <2>2
<1> QED BY <1>4

\* What they take off.
LEMMA Removed ==
  ASSUME TypeOK, NEW p \in Tabs, NEW q \in Tabs, Remove(p, q)
  PROVE  /\ list' \in [Tabs -> [Tabs -> Entries \cup {Absent}]]
         /\ \A r, s \in Tabs : r # p \/ s # q => list'[r][s] = list[r][s]
         /\ list'[p][q] = Absent
<1>1. list' = [list EXCEPT ![p][q] = Absent] /\ Absent \in Entries \cup {Absent}
  BY DEF Remove
<1> QED BY <1>1, Listed

-----------------------------------------------------------------------------
(* Types *)

\* A link and its ends.
LEMMA LinkParts ==
  /\ \A l \in Links : l[1] \in Tabs /\ l[2] \in Tabs /\ l[1] # l[2] /\ l = <<l[1], l[2]>>
  /\ \A p, q \in Tabs : p # q => <<p, q>> \in Links
  BY DEF Links

\* A message is taken and answered.
LEMMA HeardTyped ==
  ASSUME TypeOK, NEW p, NEW q, <<p, q>> \in Links, NEW kind, NEW ms \in Seq(Posts),
         Hears(p, q, kind, ms)
  PROVE  /\ <<q, p>> \in Links /\ chan[<<q, p>>] \in Seq(Posts) /\ chan[<<q, p>>] # << >>
         /\ Head(chan[<<q, p>>]) \in Posts /\ Head(chan[<<q, p>>]).kind = kind
         /\ up[p] /\ UNCHANGED <<pageVars, socket, sessions, wire, bounds>>
         /\ chan' \in [Links -> Seq(Posts)]
         /\ chan'[<<q, p>>] = Tail(chan[<<q, p>>])
         /\ \A l \in Links \ {<<q, p>>} :
              chan'[l] = IF l[1] = p /\ up[l[2]] THEN chan[l] \o ms ELSE chan[l]
<1>1. /\ <<q, p>> \in Links /\ chan[<<q, p>>] \in Seq(Posts) /\ chan[<<q, p>>] # << >>
      /\ Head(chan[<<q, p>>]).kind = kind /\ p # q
      /\ up[p] /\ UNCHANGED <<pageVars, socket, sessions, wire, bounds>>
  BY DEF TypeOK, Links, Hears
<1>2. Tail(chan[<<q, p>>]) \in Seq(Posts) /\ Head(chan[<<q, p>>]) \in Posts
  BY <1>1, PostKept
<1> DEFINE c == [chan EXCEPT ![<<q, p>>] = Tail(@)]
<1>3. c \in [Links -> Seq(Posts)]
  BY <1>1, <1>2 DEF TypeOK
<1>4. chan' = Posted(c, p, ms)
  BY DEF Hears
<1>5. /\ c[<<q, p>>] = Tail(chan[<<q, p>>])
      /\ \A l \in Links \ {<<q, p>>} : c[l] = chan[l]
  BY <1>1 DEF TypeOK
<1> HIDE DEF c
<1>6. /\ chan' \in [Links -> Seq(Posts)]
      /\ \A l \in Links : chan'[l] = IF l[1] = p /\ up[l[2]] THEN c[l] \o ms ELSE c[l]
  <2>1. /\ Posted(c, p, ms) \in [Links -> Seq(Posts)]
        /\ \A l \in Links : Posted(c, p, ms)[l] = IF l[1] = p /\ up[l[2]] THEN c[l] \o ms ELSE c[l]
    <3>1. \A l \in Links : c[l] \in Seq(Posts) /\ c[l] \o ms \in Seq(Posts)
      BY <1>3
    <3>2. QED
      BY <3>1 DEF Posted
  <2>2. QED
    BY <1>4, <2>1
<1> QED BY <1>1, <1>2, <1>5, <1>6

\* Every step preserves TypeOK.
LEMMA TypeStep ==
  ASSUME TypeOK, Next
  PROVE  TypeOK'
<1> USE LinkParts
<1>0. \A b \in BOOLEAN, k \in {"JOINED", "SYNC", "STATUS"} : << Says(k, b) >> \in Seq(Posts)
  <2>1. ASSUME NEW b \in BOOLEAN, NEW k \in {"JOINED", "SYNC", "STATUS"}
        PROVE  << Says(k, b) >> \in Seq(Posts)
    <3>1. Says(k, b) \in Posts
      BY MessagesTyped
    <3>2. QED
      BY <3>1
  <2>2. QED
    BY <2>1
<1>1. ASSUME NEW p \in Tabs, Mount(p)
      PROVE  TypeOK'
  <2>1. << Says("JOINED", mic[p]), Says("STATUS", mic[p]) >> \in Seq(Posts)
    <3>1. Says("JOINED", mic[p]) \in Posts /\ Says("STATUS", mic[p]) \in Posts
      BY MessagesTyped DEF TypeOK
    <3>2. QED
      BY <3>1
  <2>2. chan' \in [Links -> Seq(Posts)]
    BY <1>1, <2>1, PostedTyped DEF Mount, TypeOK
  <2>3. QED
    BY <1>1, <2>2 DEF TypeOK, Mount, SocketStates
<1>2. ASSUME NEW p \in Tabs, Heartbeat(p)
      PROVE  TypeOK'
  <2>1. chan' \in [Links -> Seq(Posts)]
    <3>1. << Says("SYNC", captured[p]) >> \in Seq(Posts) /\ chan \in [Links -> Seq(Posts)]
      BY <1>0 DEF TypeOK
    <3>2. QED
      BY <1>2, <3>1, PostedTyped DEF Heartbeat
  <2>2. QED
    BY <1>2, <2>1 DEF TypeOK, Heartbeat, pageVars
<1>3. ASSUME NEW p \in Tabs, Toggle(p)
      PROVE  TypeOK'
  <2>1. (~mic[p]) \in BOOLEAN
    OBVIOUS
  <2>2. chan' \in [Links -> Seq(Posts)]
    <3>1. << Says("STATUS", ~mic[p]) >> \in Seq(Posts) /\ chan \in [Links -> Seq(Posts)]
      BY <1>0, <2>1 DEF TypeOK
    <3>2. QED
      BY <1>3, <3>1, PostedTyped DEF Toggle
  <2>3. BoundsOK'
    BY <1>3, SpendTyped DEF Toggle
  <2>4. mic' \in [Tabs -> BOOLEAN]
    BY <1>3, <2>1 DEF Toggle, TypeOK
  <2>5. QED
    BY <1>3, <2>2, <2>3, <2>4 DEF TypeOK, BoundsOK, Toggle
<1>4. ASSUME NEW p \in Tabs, Leave(p) \/ CloseTab(p)
      PROVE  TypeOK'
  <2>1. BoundsOK'
    BY <1>4, SpendTyped DEF Leave, CloseTab, Unmount
  <2>2. chan' \in [Links -> Seq(Posts)]
    <3>1. << [kind |-> "LEFT"] >> \in Seq(Posts)
      <4>1. [kind |-> "LEFT"] \in Posts
        BY MessagesTyped
      <4>2. QED
        BY <4>1
    <3>2. chan \in [Links -> Seq(Posts)] /\ << >> \in Seq(Posts)
      BY DEF TypeOK
    <3>3. Posted(chan, p, << [kind |-> "LEFT"] >>) \in [Links -> Seq(Posts)]
      BY <3>1, <3>2, PostedTyped
    <3>4. /\ Unheard(chan, p) \in [Links -> Seq(Posts)]
          /\ Unheard(Posted(chan, p, << [kind |-> "LEFT"] >>), p) \in [Links -> Seq(Posts)]
      BY <3>1, <3>2, <3>3, PostedTyped
    <3>5. QED
      BY <1>4, <3>4 DEF Leave, CloseTab
  <2>3. list' \in [Tabs -> [Tabs -> Entries \cup {Absent}]]
    <3>1. [q \in Tabs |-> Absent] \in [Tabs -> Entries \cup {Absent}]
      OBVIOUS
    <3>2. QED
      BY <1>4, <3>1 DEF Leave, CloseTab, TypeOK
  <2>4. wire' \in [Tabs -> Seq(Frames)]
    <3>1. << >> \in Seq(Frames)
      OBVIOUS
    <3>2. QED
      BY <1>4, <3>1 DEF Leave, CloseTab, Unmount, TypeOK
  <2>5. /\ up' \in [Tabs -> BOOLEAN] /\ socket' \in [Tabs -> SocketStates]
        /\ closed' \subseteq Tabs /\ UNCHANGED <<mic, captured, sessions>>
    <3>1. up' = [up EXCEPT ![p] = FALSE] /\ socket' = [socket EXCEPT ![p] = "none"]
      BY <1>4 DEF Leave, CloseTab, Unmount
    <3>2. closed' = closed \/ closed' = closed \cup {p}
      BY <1>4 DEF Leave, CloseTab
    <3>3. UNCHANGED <<mic, captured, sessions>>
      BY <1>4 DEF Leave, CloseTab
    <3>4. QED
      BY <3>1, <3>2, <3>3 DEF TypeOK, SocketStates
  <2>6. QED
    BY <2>1, <2>2, <2>3, <2>4, <2>5 DEF TypeOK, BoundsOK
<1>5. ASSUME NEW p \in Tabs, Opens(p)
      PROVE  TypeOK'
  <2>1. sessions' \in SUBSET Tabs
    BY <1>5 DEF Opens, TypeOK
  <2>2. << [kind |-> "ROOM_STATE", tabs |-> sessions'] >> \in Seq(Frames)
    <3>1. [kind |-> "ROOM_STATE", tabs |-> sessions'] \in Frames
      BY <2>1, MessagesTyped
    <3>2. QED
      BY <3>1
  <2>3. Sent(sessions, [kind |-> "PARTICIPANT_JOINED", tab |-> p]) \in [Tabs -> Seq(Frames)]
    BY SentTyped, MessagesTyped
  <2>4. wire' \in [Tabs -> Seq(Frames)]
    BY <1>5, <2>2, <2>3 DEF Opens
  <2>5. QED
    BY <1>5, <2>1, <2>4 DEF TypeOK, Opens, pageVars, SocketStates
<1>6. ASSUME NEW p \in Tabs, Closes(p)
      PROVE  TypeOK'
  <2>1. BoundsOK'
    BY <1>6, SpendTyped DEF Closes
  <2>2. QED
    BY <1>6, <2>1 DEF TypeOK, BoundsOK, Closes, pageVars, SocketStates
<1>7. ASSUME NEW p \in Tabs, Reconnects(p)
      PROVE  TypeOK'
  BY <1>7 DEF TypeOK, Reconnects, pageVars, SocketStates
<1>8. ASSUME NEW p \in Tabs, SessionEnds(p)
      PROVE  TypeOK'
  <2>1. wire' \in [Tabs -> Seq(Frames)]
    BY <1>8, SentTyped, MessagesTyped DEF SessionEnds
  <2>2. QED
    BY <1>8, <2>1 DEF TypeOK, SessionEnds, pageVars
<1>9. ASSUME NEW p \in Tabs, Receive(p)
      PROVE  TypeOK'
  <2>1. wire[p] \in Seq(Frames) /\ wire[p] # << >>
    BY <1>9 DEF TypeOK, Receive, ReceiveRoomState, ReceiveJoined, ReceiveLeft, Receives
  <2>2. Tail(wire[p]) \in Seq(Frames) /\ Head(wire[p]) \in Frames
    BY <2>1, FrameTaken
  <2>3. wire' \in [Tabs -> Seq(Frames)]
    BY <1>9, <2>2 DEF TypeOK, Receive, ReceiveRoomState, ReceiveJoined, ReceiveLeft, Receives
  <2>4. list' \in [Tabs -> [Tabs -> Entries \cup {Absent}]]
    <3>1. CASE ReceiveRoomState(p)
      <4>1. [named |-> TRUE, mic |-> TRUE] \in Entries
        BY DEF Entries
      <4>2. QED
        BY <3>1, <4>1 DEF TypeOK, ReceiveRoomState, SetParticipants
    <3>2. CASE ReceiveJoined(p) \/ ReceiveLeft(p)
      <4>1. Head(wire[p]).tab \in Tabs
        BY <2>2, <3>2, MessagesTyped DEF ReceiveJoined, ReceiveLeft, Receives
      <4>2. QED
        BY <3>2, <4>1, Upserted, Removed DEF ReceiveJoined, ReceiveLeft
    <3>3. QED
      BY <1>9, <3>1, <3>2 DEF Receive
  <2>5. QED
    BY <1>9, <2>3, <2>4 DEF TypeOK, Receive, ReceiveRoomState, ReceiveJoined, ReceiveLeft, Receives,
       pageVars
<1>10. ASSUME NEW p \in Tabs, NEW q \in Tabs, <<p, q>> \in Links, Hear(p, q)
       PROVE  TypeOK'
  <2>1. PICK kind \in {"JOINED", "SYNC", "STATUS", "LEFT"} :
          \E ms \in {<< >>, << Says("SYNC", captured[p]) >>} : Hears(p, q, kind, ms)
    BY <1>10 DEF Hear, HearJoined, HearSync, HearStatus, HearLeft
  <2>2. PICK ms \in {<< >>, << Says("SYNC", captured[p]) >>} : Hears(p, q, kind, ms)
    BY <2>1
  <2>3. ms \in Seq(Posts)
    <3>1. << >> \in Seq(Posts) /\ << Says("SYNC", captured[p]) >> \in Seq(Posts)
      BY <1>0 DEF TypeOK
    <3>2. QED
      BY <3>1
  <2>4. /\ Head(chan[<<q, p>>]) \in Posts /\ Head(chan[<<q, p>>]).kind = kind
        /\ UNCHANGED <<pageVars, socket, sessions, wire, bounds>>
        /\ chan' \in [Links -> Seq(Posts)]
    BY <1>10, <2>2, <2>3, HeardTyped
  <2>5. list' \in [Tabs -> [Tabs -> Entries \cup {Absent}]]
    <3>1. CASE HearLeft(p, q)
      BY <3>1, Removed DEF HearLeft
    <3>2. CASE HearJoined(p, q) \/ HearSync(p, q) \/ HearStatus(p, q)
      <4>1. Head(chan[<<q, p>>]).mic \in BOOLEAN
        BY <2>4, <3>2, MessagesTyped DEF HearJoined, HearSync, HearStatus, Hears
      <4>2. QED
        BY <3>2, <4>1, Upserted DEF HearJoined, HearSync, HearStatus
    <3>3. QED
      BY <1>10, <3>1, <3>2 DEF Hear
  <2>6. QED
    BY <2>4, <2>5 DEF TypeOK, pageVars
<1> QED BY <1>1, <1>2, <1>3, <1>4, <1>5, <1>6, <1>7, <1>8, <1>9, <1>10 DEF Next

-----------------------------------------------------------------------------
(* Sockets *)

\* Every step keeps what is said of a tab's socket.
LEMMA SocketStep ==
  ASSUME TypeOK, \A q \in Tabs : SocketInv(q), Next, NEW q \in Tabs
  PROVE  SocketInv(q)'
<1>1. SocketInv(q)
  OBVIOUS
<1>2. ASSUME NEW p \in Tabs, Mount(p) \/ Reconnects(p)
      PROVE  SocketInv(q)'
  BY <1>1, <1>2 DEF TypeOK, SocketInv, Mount, Reconnects, pageVars
<1>3. ASSUME NEW p \in Tabs, Heartbeat(p) \/ Toggle(p)
      PROVE  SocketInv(q)'
  BY <1>1, <1>3 DEF SocketInv, Heartbeat, Toggle, pageVars
<1>4. ASSUME NEW p \in Tabs, Leave(p) \/ CloseTab(p)
      PROVE  SocketInv(q)'
  <2>1. /\ up' = [up EXCEPT ![p] = FALSE] /\ socket' = [socket EXCEPT ![p] = "none"]
        /\ wire' = [wire EXCEPT ![p] = << >>] /\ UNCHANGED sessions
    BY <1>4 DEF Leave, CloseTab, Unmount
  <2>2. QED
    BY <1>1, <2>1 DEF TypeOK, SocketInv
<1>5. ASSUME NEW p \in Tabs, Opens(p)
      PROVE  SocketInv(q)'
  <2>1. CASE p = q
    BY <1>1, <1>5, <2>1 DEF TypeOK, SocketInv, Opens, pageVars
  <2>2. CASE p # q
    <3>1. wire'[q] = Sent(sessions, [kind |-> "PARTICIPANT_JOINED", tab |-> p])[q]
      BY <1>5, <2>2 DEF Opens, Sent
    <3>2. wire'[q] # << >> => wire[q] # << >> \/ socket[q] = "open"
      BY <3>1, SentTyped, MessagesTyped
    <3>3. QED
      BY <1>1, <1>5, <2>2, <3>2 DEF TypeOK, SocketInv, Opens, pageVars
  <2>3. QED
    BY <2>1, <2>2
<1>6. ASSUME NEW p \in Tabs, Closes(p)
      PROVE  SocketInv(q)'
  BY <1>1, <1>6 DEF TypeOK, SocketInv, Closes, pageVars
<1>7. ASSUME NEW p \in Tabs, SessionEnds(p)
      PROVE  SocketInv(q)'
  <2>1. wire'[q] # << >> => wire[q] # << >> \/ socket[q] = "open"
    BY <1>7, SentTyped, MessagesTyped DEF SessionEnds
  <2>2. QED
    BY <1>1, <1>7, <2>1 DEF SocketInv, SessionEnds, pageVars
<1>8. ASSUME NEW p \in Tabs, Receive(p)
      PROVE  SocketInv(q)'
  <2>1. /\ wire[p] # << >> /\ wire' = [wire EXCEPT ![p] = Tail(@)]
        /\ UNCHANGED <<up, socket, sessions>>
    BY <1>8 DEF Receive, ReceiveRoomState, ReceiveJoined, ReceiveLeft, Receives, pageVars
  <2>2. wire'[q] # << >> => wire[q] # << >>
    BY <2>1 DEF TypeOK
  <2>3. QED
    BY <1>1, <2>1, <2>2 DEF SocketInv
<1>9. ASSUME NEW p \in Tabs, NEW r \in Tabs, Hear(p, r)
      PROVE  SocketInv(q)'
  <2>1. UNCHANGED <<up, socket, sessions, wire>>
    BY <1>9 DEF Hear, HearJoined, HearSync, HearStatus, HearLeft, Hears, pageVars
  <2>2. QED
    BY <1>1, <2>1 DEF SocketInv
<1> QED BY <1>2, <1>3, <1>4, <1>5, <1>6, <1>7, <1>8, <1>9, LinkParts DEF Next

-----------------------------------------------------------------------------
(* Messages between tabs *)

\* What a step makes of the channel from p to q: it stays, p posts, p says that it
\* has left, q's page goes, or q takes the first message.
Channel(q, p) ==
  LET s == chan[<<p, q>>] t == chan'[<<p, q>>] IN
  \/ /\ t = s
     /\ s # << >> => /\ up'[q] /\ closed \subseteq closed'
                     /\ up'[p] = up[p] \/ up'[p] \/ p \in closed'
  \/ /\ up'[q] /\ up'[p]
     /\ s # << >> => t # << >>
  \/ /\ up[q] /\ up'[q]
     /\ EndsLeft(t)
  \/ /\ t = << >> /\ ~up'[q]
  \/ /\ UNCHANGED <<up, closed>> /\ up[q] /\ s # << >> /\ t = Tail(s) /\ Hear(q, p)

\* What r posts, on the channel from p to q.
LEMMA PostedTo ==
  ASSUME TypeOK, NEW p \in Tabs, NEW q \in Tabs, p # q, NEW r \in Tabs, NEW ms \in Seq(Posts)
  PROVE  /\ Posted(chan, r, ms) \in [Links -> Seq(Posts)]
         /\ Posted(chan, r, ms)[<<p, q>>] = IF p = r /\ up[q] THEN chan[<<p, q>>] \o ms
                                                             ELSE chan[<<p, q>>]
         /\ chan[<<p, q>>] # << >> => chan[<<p, q>>] \o ms # << >>
<1>1. <<p, q>> \in Links /\ chan[<<p, q>>] \in Seq(Posts)
  BY LinkParts DEF TypeOK
<1>2. Posted(chan, r, ms) \in [Links -> Seq(Posts)]
  BY PostedTyped DEF TypeOK
<1>3. chan[<<p, q>>] # << >> => chan[<<p, q>>] \o ms # << >>
  BY <1>1, PostKept
<1> QED BY <1>1, <1>2, <1>3 DEF Posted

\* Every step is one of these.
LEMMA ChannelStep ==
  ASSUME TypeOK, Next, NEW q \in Tabs, NEW p \in Tabs, p # q, HeardInv(q, p)
  PROVE  Channel(q, p)
<1> DEFINE l == <<p, q>>
<1>0. l \in Links /\ l[1] = p /\ l[2] = q /\ chan \in [Links -> Seq(Posts)] /\ chan[l] \in Seq(Posts)
  BY LinkParts DEF TypeOK
<1>1. ASSUME NEW r \in Tabs, Mount(r)
      PROVE  Channel(q, p)
  <2>1. << Says("JOINED", mic[r]), Says("STATUS", mic[r]) >> \in Seq(Posts)
    <3>1. Says("JOINED", mic[r]) \in Posts /\ Says("STATUS", mic[r]) \in Posts
      BY MessagesTyped DEF TypeOK
    <3>2. QED
      BY <3>1
  <2>2. PICK ms \in Seq(Posts) : chan' = Posted(chan, r, ms)
    BY <1>1, <2>1 DEF Mount
  <2>3. chan'[l] = IF p = r /\ up[q] THEN chan[l] \o ms ELSE chan[l]
    BY <2>2, PostedTo
  <2>4. chan[l] # << >> => chan[l] \o ms # << >>
    BY PostedTo
  <2>5. up' = [up EXCEPT ![r] = TRUE] /\ UNCHANGED closed
    BY <1>1 DEF Mount
  <2> HIDE DEF l
  <2>6. QED
    BY <2>3, <2>4, <2>5 DEF Channel, TypeOK, HeardInv, l
<1>2. ASSUME NEW r \in Tabs, Heartbeat(r) \/ Toggle(r)
      PROVE  Channel(q, p)
  <2>1. PICK ms \in Seq(Posts) : chan' = Posted(chan, r, ms)
    <3>1. Says("SYNC", captured[r]) \in Posts /\ Says("STATUS", ~mic[r]) \in Posts
      BY MessagesTyped DEF TypeOK
    <3>2. << Says("SYNC", captured[r]) >> \in Seq(Posts) /\ << Says("STATUS", ~mic[r]) >> \in Seq(Posts)
      BY <3>1
    <3>3. QED
      BY <1>2, <3>2 DEF Heartbeat, Toggle
  <2>2. chan'[l] = IF p = r /\ up[q] THEN chan[l] \o ms ELSE chan[l]
    BY <2>1, PostedTo
  <2>3. chan[l] # << >> => chan[l] \o ms # << >>
    BY PostedTo
  <2>4. up[r] /\ UNCHANGED <<up, closed>>
    BY <1>2 DEF Heartbeat, Toggle, pageVars
  <2> HIDE DEF l
  <2>5. QED
    BY <2>2, <2>3, <2>4 DEF Channel, HeardInv, l
<1>3. ASSUME NEW r \in Tabs, Leave(r)
      PROVE  Channel(q, p)
  <2> DEFINE c == Posted(chan, r, << [kind |-> "LEFT"] >>)
  <2>1. << [kind |-> "LEFT"] >> \in Seq(Posts)
    <3>1. [kind |-> "LEFT"] \in Posts
      BY MessagesTyped
    <3>2. QED
      BY <3>1
  <2>2. /\ c \in [Links -> Seq(Posts)]
        /\ c[l] = IF p = r /\ up[q] THEN chan[l] \o << [kind |-> "LEFT"] >> ELSE chan[l]
    BY <2>1, PostedTo
  <2>3. chan'[l] = IF q = r THEN << >> ELSE c[l]
    BY <1>0, <1>3 DEF Leave, Unheard
  <2>4. EndsLeft(chan[l] \o << [kind |-> "LEFT"] >>)
    BY <1>0, PostKept
  <2>5. up[r] /\ up' = [up EXCEPT ![r] = FALSE] /\ UNCHANGED closed
    BY <1>3 DEF Leave, Unmount
  <2> HIDE DEF c, l
  <2>6. QED
    BY <2>2, <2>3, <2>4, <2>5 DEF Channel, TypeOK, HeardInv, l
<1>4. ASSUME NEW r \in Tabs, CloseTab(r)
      PROVE  Channel(q, p)
  <2>1. chan'[l] = IF q = r THEN << >> ELSE chan[l]
    BY <1>0, <1>4 DEF CloseTab, Unheard
  <2>2. up' = [up EXCEPT ![r] = FALSE] /\ closed' = closed \cup {r}
    BY <1>4 DEF CloseTab, Unmount
  <2>3. QED
    BY <2>1, <2>2 DEF Channel, HeardInv, TypeOK
<1>5. ASSUME NEW r \in Tabs, \/ Opens(r) \/ Closes(r) \/ Reconnects(r) \/ SessionEnds(r) \/ Receive(r)
      PROVE  Channel(q, p)
  <2>1. UNCHANGED <<chan, up, closed>>
    BY <1>5 DEF Opens, Closes, Reconnects, SessionEnds, Receive, ReceiveRoomState, ReceiveJoined,
       ReceiveLeft, Receives, pageVars
  <2>2. QED
    BY <2>1 DEF Channel, HeardInv
<1>6. ASSUME NEW r \in Tabs, NEW s \in Tabs, <<r, s>> \in Links, Hear(r, s)
      PROVE  Channel(q, p)
  <2>1. PICK kind \in {"JOINED", "SYNC", "STATUS", "LEFT"} :
          \E ms \in {<< >>, << Says("SYNC", captured[r]) >>} : Hears(r, s, kind, ms)
    BY <1>6 DEF Hear, HearJoined, HearSync, HearStatus, HearLeft
  <2>2. PICK ms \in {<< >>, << Says("SYNC", captured[r]) >>} : Hears(r, s, kind, ms)
    BY <2>1
  <2>3. ms \in Seq(Posts)
    <3>1. Says("SYNC", captured[r]) \in Posts
      BY MessagesTyped DEF TypeOK
    <3>2. << >> \in Seq(Posts) /\ << Says("SYNC", captured[r]) >> \in Seq(Posts)
      BY <3>1
    <3>3. QED
      BY <3>2
  <2>4. /\ chan[<<s, r>>] # << >> /\ up[r] /\ UNCHANGED <<up, closed>>
        /\ chan'[<<s, r>>] = Tail(chan[<<s, r>>])
        /\ l # <<s, r>> => chan'[l] = IF p = r /\ up[q] THEN chan[l] \o ms ELSE chan[l]
    BY <1>0, <1>6, <2>2, <2>3, HeardTyped DEF pageVars
  <2>5. chan[l] # << >> => chan[l] \o ms # << >>
    BY <1>0, <2>3, PostKept
  <2>6. CASE l = <<s, r>>
    <3>1. p = s /\ q = r
      BY <2>6
    <3>2. QED
      BY <1>6, <2>4, <3>1 DEF Channel
  <2>7. CASE l # <<s, r>>
    <3> HIDE DEF l
    <3>1. QED
      BY <2>4, <2>5, <2>7 DEF Channel, HeardInv, l
  <2>8. QED
    BY <2>6, <2>7
<1> QED BY <1>1, <1>2, <1>3, <1>4, <1>5, <1>6, LinkParts DEF Next

\* What it keeps of the channel, and that a last message stays until it is heard.
LEMMA ChannelInv ==
  ASSUME TypeOK, NEW q \in Tabs, NEW p \in Tabs, p # q, HeardInv(q, p), LeftIsLast(q, p),
         Channel(q, p)
  PROVE  /\ HeardInv(q, p)' /\ LeftIsLast(q, p)'
         /\ chan[<<p, q>>] # << >> /\ ~up'[p] /\ p \notin closed' /\ up'[q]
              => chan'[<<p, q>>] # << >> \/ HearLeft(q, p)
<1> DEFINE s == chan[<<p, q>>]
<1>1. <<p, q>> \in Links /\ s \in Seq(Posts)
  BY LinkParts DEF TypeOK
<1>2. s # << >> /\ EndsLeft(s) => EndsLeft(Tail(s)) \/ (Tail(s) = << >> /\ Head(s).kind = "LEFT")
  BY <1>1, PostKept
<1>3. EndsLeft(<< >>) = FALSE
  BY DEF EndsLeft
<1>4. Hear(q, p) /\ Head(s).kind = "LEFT" => HearLeft(q, p)
  BY DEF Hear, HearJoined, HearSync, HearStatus, Hears
<1> HIDE DEF s
<1> QED BY <1>2, <1>3, <1>4 DEF Channel, HeardInv, LeftIsLast, EndsLeft, s

-----------------------------------------------------------------------------
(* Frames of the gateway *)

\* The gateway's last word on a tab without a session stays that it left.
LEMMA WireStep ==
  ASSUME TypeOK, \A r \in Tabs : SocketInv(r), NEW q \in Tabs, NEW p \in Tabs, p # q, WireInv(q, p),
         Next
  PROVE  WireInv(q, p)'
<1> USE DEF WireInv
<1>0. wire[q] \in Seq(Frames) /\ SocketInv(q)
  BY DEF TypeOK
<1>1. Clean(<< >>, p)
  BY DEF Clean
<1>2. ASSUME NEW r \in Tabs, Mount(r) \/ Heartbeat(r) \/ Toggle(r) \/ Reconnects(r)
      PROVE  WireInv(q, p)'
  BY <1>2 DEF Mount, Heartbeat, Toggle, Reconnects
<1>3. ASSUME NEW r \in Tabs, Leave(r) \/ CloseTab(r) \/ Closes(r)
      PROVE  WireInv(q, p)'
  <2>1. wire' = [wire EXCEPT ![r] = << >>] /\ UNCHANGED sessions
    BY <1>3 DEF Leave, CloseTab, Unmount, Closes
  <2>2. QED
    BY <1>1, <2>1 DEF TypeOK
<1>4. ASSUME NEW r \in Tabs, Opens(r)
      PROVE  WireInv(q, p)'
  <2> DEFINE f == [kind |-> "PARTICIPANT_JOINED", tab |-> r]
             g == [kind |-> "ROOM_STATE", tabs |-> sessions']
  <2> SUFFICES ASSUME p \notin sessions'
               PROVE  Clean(wire'[q], p)
    OBVIOUS
  <2>0. r # p /\ p \notin sessions /\ sessions' = sessions \cup {r}
    BY <1>4 DEF Opens
  <2>1. CASE q = r
    <3>1. wire'[q] = << g >>
      BY <1>4, <2>1 DEF Opens, TypeOK, Sent
    <3>2. ~Adds(g, p)
      BY DEF Adds
    <3> HIDE DEF g
    <3>3. Len(<< g >>) = 1 /\ << g >>[1] = g
      OBVIOUS
    <3>4. QED
      BY <3>1, <3>2, <3>3 DEF Clean
  <2>2. CASE q # r
    <3>1. wire'[q] = Sent(sessions, f)[q]
      BY <1>4, <2>2 DEF Opens, Sent
    <3>2. f \in Frames /\ ~Adds(f, p)
      BY <2>0, MessagesTyped DEF Adds
    <3>3. Clean(Append(wire[q], f), p)
      BY <1>0, <2>0, <3>2, FrameSent
    <3>4. QED
      BY <2>0, <3>1, <3>2, <3>3, SentTyped
  <2>3. QED
    BY <2>1, <2>2
<1>5. ASSUME NEW r \in Tabs, SessionEnds(r)
      PROVE  WireInv(q, p)'
  <2> DEFINE f == [kind |-> "PARTICIPANT_LEFT", tab |-> r]
  <2>1. f \in Frames /\ ~Adds(f, p) /\ (r = p => Drops(f, p))
    BY MessagesTyped DEF Adds, Drops
  <2>2. wire' = Sent(sessions \ {r}, f) /\ sessions' = sessions \ {r} /\ socket[r] # "open"
    BY <1>5 DEF SessionEnds
  <2> HIDE DEF f
  <2>3. wire'[q] = IF q \in sessions \ {r} /\ socket[q] = "open" THEN Append(wire[q], f) ELSE wire[q]
    BY <2>1, <2>2, SentTyped
  <2>4. /\ Clean(wire[q], p) => Clean(Append(wire[q], f), p)
        /\ r = p => Clean(Append(wire[q], f), p)
    BY <1>0, <2>1, FrameSent
  <2>5. socket[q] # "open" => Clean(wire[q], p)
    BY <1>0, <1>1 DEF SocketInv
  <2>6. QED
    BY <1>0, <2>2, <2>3, <2>4, <2>5 DEF SocketInv
<1>6. ASSUME NEW r \in Tabs, Receive(r)
      PROVE  WireInv(q, p)'
  <2>1. wire[r] # << >> /\ wire' = [wire EXCEPT ![r] = Tail(@)] /\ UNCHANGED sessions
    BY <1>6 DEF Receive, ReceiveRoomState, ReceiveJoined, ReceiveLeft, Receives
  <2>2. wire[q] # << >> /\ Clean(wire[q], p) => Clean(Tail(wire[q]), p)
    BY <1>0, FrameTaken
  <2>3. wire'[q] = wire[q] \/ (wire[q] # << >> /\ wire'[q] = Tail(wire[q]))
    BY <2>1 DEF TypeOK
  <2>4. QED
    BY <2>1, <2>2, <2>3
<1>7. ASSUME NEW r \in Tabs, NEW s \in Tabs, Hear(r, s)
      PROVE  WireInv(q, p)'
  <2>1. UNCHANGED <<wire, sessions>>
    BY <1>7 DEF Hear, HearJoined, HearSync, HearStatus, HearLeft, Hears
  <2>2. QED
    BY <2>1
<1> QED BY <1>2, <1>3, <1>4, <1>5, <1>6, <1>7, LinkParts DEF Next

-----------------------------------------------------------------------------
(* Lists *)

\* A tab that left stays off the list, or what takes it off stays on its way.
LEMMA ListStep ==
  ASSUME TypeOK, \A r \in Tabs : SocketInv(r), NEW q \in Tabs, NEW p \in Tabs, p # q,
         LinkInv(q, p), Channel(q, p), Next
  PROVE  ListInv(q, p)'
<1> DEFINE Done == list'[q][p] = Absent \/ Dropping(wire'[q], p) \/ chan'[<<p, q>>] # << >>
<1>1. HearLeft(q, p) => list'[q][p] = Absent
  BY Removed DEF HearLeft
<1>2. SUFFICES ASSUME ~up'[p], p \notin closed' \cup sessions', socket'[q] = "open",
                      ~HearLeft(q, p)
               PROVE  Done
  BY <1>1 DEF ListInv
<1>3. wire[q] \in Seq(Frames) /\ SocketInv(q) /\ WireInv(q, p)
  BY DEF TypeOK, LinkInv
<1>4. up'[q] /\ (chan[<<p, q>>] # << >> => chan'[<<p, q>>] # << >>)
  <2>1. up'[q]
    <3>1. SocketInv(q)'
      BY SocketStep
    <3>2. QED
      BY <1>2, <3>1 DEF SocketInv
  <2>2. QED
    BY <1>2, <2>1, ChannelInv DEF LinkInv
<1>5. ASSUME ~up[p], p \notin closed, p \notin sessions, socket[q] = "open",
             list'[q][p] = list[q][p], Dropping(wire[q], p) => Dropping(wire'[q], p)
      PROVE  Done
  BY <1>4, <1>5 DEF LinkInv, ListInv
<1> HIDE DEF Done
<1>6. ASSUME NEW r \in Tabs, \/ Mount(r) \/ Heartbeat(r) \/ Toggle(r) \/ Reconnects(r) \/ Closes(r)
                             \/ CloseTab(r)
      PROVE  Done
  <2>1. CASE Mount(r) \/ Reconnects(r)
    BY <1>2, <1>5, <2>1 DEF TypeOK, Mount, Reconnects, pageVars
  <2>2. CASE Heartbeat(r) \/ Toggle(r)
    BY <1>2, <1>5, <2>2 DEF Heartbeat, Toggle, pageVars
  <2>3. CASE Closes(r)
    BY <1>2, <1>5, <2>3 DEF TypeOK, Closes, pageVars
  <2>4. CASE CloseTab(r)
    <3>1. ~up[p] /\ p \notin closed /\ UNCHANGED sessions
      BY <1>2, <2>4 DEF TypeOK, CloseTab, Unmount
    <3>2. socket[q] = "open" /\ list'[q] = list[q] /\ wire'[q] = wire[q]
      BY <1>2, <2>4 DEF TypeOK, CloseTab, Unmount
    <3>3. QED
      BY <1>2, <1>5, <3>1, <3>2
  <2>5. QED
    BY <1>6, <2>1, <2>2, <2>3, <2>4
<1>7. ASSUME NEW r \in Tabs, Leave(r)
      PROVE  Done
  <2>1. /\ up[r] /\ up' = [up EXCEPT ![r] = FALSE] /\ socket' = [socket EXCEPT ![r] = "none"]
        /\ wire' = [wire EXCEPT ![r] = << >>] /\ UNCHANGED <<closed, sessions, list>>
    BY <1>7 DEF Leave, Unmount
  <2>2. r # q /\ socket[q] = "open" /\ wire'[q] = wire[q]
    BY <1>2, <2>1 DEF TypeOK
  <2>3. CASE r = p
    <3>1. << [kind |-> "LEFT"] >> \in Seq(Posts)
      <4>1. [kind |-> "LEFT"] \in Posts
        BY MessagesTyped
      <4>2. QED
        BY <4>1
    <3>2. up[q]
      BY <1>3, <2>2 DEF SocketInv
    <3>3. /\ Posted(chan, p, << [kind |-> "LEFT"] >>)[<<p, q>>]
               = chan[<<p, q>>] \o << [kind |-> "LEFT"] >>
          /\ chan[<<p, q>>] \in Seq(Posts) /\ <<p, q>> \in Links
      BY <3>1, <3>2, PostedTo, LinkParts DEF TypeOK
    <3>4. chan'[<<p, q>>] = chan[<<p, q>>] \o << [kind |-> "LEFT"] >>
      BY <1>7, <2>2, <2>3, <3>3 DEF Leave, Unheard
    <3>5. EndsLeft(chan'[<<p, q>>])
      BY <3>3, <3>4, PostKept
    <3>6. QED
      BY <3>5 DEF Done, EndsLeft
  <2>4. CASE r # p
    <3>1. ~up[p]
      BY <1>2, <2>1, <2>4 DEF TypeOK
    <3>2. QED
      BY <1>2, <1>5, <2>1, <2>2, <3>1
  <2>5. QED
    BY <2>3, <2>4
<1>8. ASSUME NEW r \in Tabs, Opens(r)
      PROVE  Done
  <2> DEFINE f == [kind |-> "PARTICIPANT_JOINED", tab |-> r]
             g == [kind |-> "ROOM_STATE", tabs |-> sessions']
  <2>1. /\ sessions' = sessions \cup {r} /\ socket' = [socket EXCEPT ![r] = "open"]
        /\ UNCHANGED <<up, closed, list>>
    BY <1>8 DEF Opens, pageVars
  <2>2. CASE q = r
    <3>1. wire'[q] = << g >>
      BY <1>8, <2>2 DEF Opens, TypeOK, Sent
    <3>2. Drops(g, p)
      BY <1>2 DEF Drops
    <3> HIDE DEF g
    <3>3. Len(<< g >>) = 1 /\ << g >>[1] = g /\ 1 \in 1 .. 1
      OBVIOUS
    <3>4. QED
      BY <3>1, <3>2, <3>3 DEF Done, Dropping
  <2>3. CASE q # r
    <3>1. wire'[q] = Sent(sessions, f)[q]
      BY <1>8, <2>3 DEF Opens, Sent
    <3>2. f \in Frames
      BY MessagesTyped
    <3>3. Dropping(wire[q], p) => Dropping(Append(wire[q], f), p)
      BY <1>3, <3>2, FrameSent
    <3> HIDE DEF f
    <3>4. wire'[q] = wire[q] \/ wire'[q] = Append(wire[q], f)
      BY <3>1 DEF Sent
    <3>5. socket[q] = "open"
      BY <1>2, <2>1, <2>3 DEF TypeOK
    <3>6. QED
      BY <1>2, <1>5, <2>1, <3>3, <3>4, <3>5
  <2>4. QED
    BY <2>2, <2>3
<1>9. ASSUME NEW r \in Tabs, SessionEnds(r)
      PROVE  Done
  <2> DEFINE f == [kind |-> "PARTICIPANT_LEFT", tab |-> r]
  <2>1. f \in Frames /\ (r = p => Drops(f, p))
    BY MessagesTyped DEF Drops
  <2>2. /\ wire' = Sent(sessions \ {r}, f) /\ sessions' = sessions \ {r} /\ socket[r] # "open"
        /\ UNCHANGED <<up, closed, socket, list>>
    BY <1>9 DEF SessionEnds, pageVars
  <2> HIDE DEF f
  <2>3. wire'[q] = Append(wire[q], f)
    <3>1. q \in sessions \ {r} /\ socket[q] = "open"
      BY <1>2, <1>3, <2>2 DEF SocketInv
    <3>2. Sent(sessions \ {r}, f)[q] = Append(wire[q], f)
      BY <3>1 DEF Sent
    <3>3. QED
      BY <2>2, <3>2
  <2>4. /\ Dropping(wire[q], p) => Dropping(wire'[q], p)
        /\ r = p => Dropping(wire'[q], p)
    BY <1>3, <2>1, <2>3, FrameSent
  <2>5. CASE r = p
    BY <2>4, <2>5 DEF Done
  <2>6. CASE r # p
    BY <1>2, <1>5, <2>2, <2>4, <2>6
  <2>7. QED
    BY <2>5, <2>6
<1>10. ASSUME NEW r \in Tabs, Receive(r)
       PROVE  Done
  <2>1. /\ wire[r] # << >> /\ wire' = [wire EXCEPT ![r] = Tail(@)]
        /\ UNCHANGED <<up, closed, socket, sessions>>
    BY <1>10 DEF Receive, ReceiveRoomState, ReceiveJoined, ReceiveLeft, Receives, pageVars
  <2>2. wire[r] \in Seq(Frames) /\ Head(wire[r]) \in Frames
    <3>1. wire[r] \in Seq(Frames)
      BY DEF TypeOK
    <3>2. QED
      BY <2>1, <3>1, FrameTaken
  <2>3. CASE r # q
    <3>1. wire'[q] = wire[q]
      BY <2>1, <2>3 DEF TypeOK
    <3>2. list'[q] = list[q]
      BY <1>10, <2>3 DEF TypeOK, Receive, ReceiveRoomState, ReceiveJoined, ReceiveLeft,
         SetParticipants, Upsert, Remove
    <3>3. QED
      BY <1>2, <1>5, <2>1, <3>1, <3>2
  <2>4. CASE r = q
    <3>1. /\ wire'[q] = Tail(wire[q])
          /\ Dropping(wire[q], p) => Dropping(Tail(wire[q]), p) \/ Drops(Head(wire[q]), p)
          /\ Adds(Head(wire[q]), p) => Dropping(Tail(wire[q]), p)
      <4>1. wire'[q] = Tail(wire[q]) /\ wire[q] # << >>
        BY <2>1, <2>4 DEF TypeOK
      <4>2. QED
        BY <1>2, <1>3, <2>1, <4>1, FrameTaken DEF WireInv
    <3>2. CASE Adds(Head(wire[q]), p)
      BY <3>1, <3>2 DEF Done
    <3>3. CASE Drops(Head(wire[q]), p)
      <4>1. CASE ReceiveRoomState(q)
        <5>1. list'[q] = [s \in Tabs |-> IF s \in Head(wire[q]).tabs THEN [named |-> TRUE, mic |-> TRUE]
                                                                    ELSE Absent]
          BY <4>1 DEF TypeOK, ReceiveRoomState, SetParticipants
        <5>2. p \notin Head(wire[q]).tabs
          BY <3>3, <4>1 DEF Drops, ReceiveRoomState, Receives
        <5>3. QED
          BY <5>1, <5>2 DEF Done
      <4>2. CASE ReceiveLeft(q)
        <5>1. Head(wire[q]).tab = p
          BY <3>3, <4>2 DEF Drops, ReceiveLeft, Receives
        <5>2. Remove(q, p)
          BY <4>2, <5>1 DEF ReceiveLeft
        <5>3. QED
          BY <5>2, Removed DEF Done
      <4>3. ~ReceiveJoined(q)
        BY <3>3 DEF Drops, ReceiveJoined, Receives
      <4>4. QED
        BY <1>10, <2>4, <4>1, <4>2, <4>3 DEF Receive
    <3>4. CASE ~Adds(Head(wire[q]), p) /\ ~Drops(Head(wire[q]), p)
      <4>1. list'[q][p] = list[q][p]
        <5>1. Head(wire[q]).kind # "ROOM_STATE" /\ Head(wire[q]).tab \in Tabs
          BY <2>2, <2>4, <3>4, MessagesTyped DEF Adds, Drops
        <5>2. CASE ReceiveJoined(q)
          <6>1. Head(wire[q]).tab # p
            BY <3>4, <5>2 DEF Adds, ReceiveJoined, Receives
          <6>2. list' = [list EXCEPT ![q][Head(wire[q]).tab] = [named |-> TRUE, mic |-> TRUE]]
            BY <5>2 DEF ReceiveJoined, Upsert
          <6>3. [named |-> TRUE, mic |-> TRUE] \in Entries \cup {Absent}
            BY DEF Entries
          <6>4. QED
            BY <5>1, <6>1, <6>2, <6>3, Listed
        <5>3. CASE ReceiveLeft(q)
          <6>1. Head(wire[q]).tab # p
            BY <3>4, <5>3 DEF Drops, ReceiveLeft, Receives
          <6>2. QED
            BY <5>1, <5>3, <6>1, Removed DEF ReceiveLeft
        <5>4. ~ReceiveRoomState(q)
          BY <5>1 DEF ReceiveRoomState, Receives
        <5>5. QED
          BY <1>10, <2>4, <5>2, <5>3, <5>4 DEF Receive
      <4>2. QED
        BY <1>2, <1>5, <2>1, <3>1, <3>4, <4>1
    <3>5. QED
      BY <3>2, <3>3, <3>4
  <2>5. QED
    BY <2>3, <2>4
<1>11. ASSUME NEW r \in Tabs, NEW s \in Tabs, <<r, s>> \in Links, Hear(r, s)
       PROVE  Done
  <2>1. UNCHANGED <<up, closed, socket, sessions, wire>>
    BY <1>11 DEF Hear, HearJoined, HearSync, HearStatus, HearLeft, Hears, pageVars
  <2>3. CASE <<r, s>> # <<q, p>>
    <3>1. list'[q][p] = list[q][p]
      <4>1. CASE HearLeft(r, s)
        BY <2>3, <4>1, Removed DEF HearLeft
      <4>2. CASE HearJoined(r, s) \/ HearSync(r, s) \/ HearStatus(r, s)
        <5>1. chan[<<s, r>>] \in Seq(Posts) /\ chan[<<s, r>>] # << >>
                /\ Head(chan[<<s, r>>]).kind # "LEFT"
          BY <1>11, <4>2, LinkParts DEF TypeOK, Links, HearJoined, HearSync, HearStatus, Hears
        <5>2. Head(chan[<<s, r>>]).mic \in BOOLEAN
          BY <5>1, PostKept, MessagesTyped
        <5>3. QED
          BY <2>3, <4>2, <5>2, Upserted DEF HearJoined, HearSync, HearStatus
      <4>3. QED
        BY <1>11, <4>1, <4>2 DEF Hear
    <3>2. QED
      BY <1>2, <1>5, <2>1, <3>1
  <2>4. CASE <<r, s>> = <<q, p>>
    <3>1. chan[<<p, q>>] # << >>
      BY <1>11, <2>4 DEF Hear, HearJoined, HearSync, HearStatus, HearLeft, Hears
    <3>2. QED
      BY <1>4, <3>1 DEF Done
  <2>5. QED
    BY <2>3, <2>4
<1> QED BY <1>6, <1>7, <1>8, <1>9, <1>10, <1>11, LinkParts DEF Next

-----------------------------------------------------------------------------
(* The theorems *)

\* At the start.
LEMMA InvInit ==
  ASSUME Init
  PROVE  IInv
<1>1. TypeOK
  <2>1. /\ << >> \in Seq(Posts) /\ << >> \in Seq(Frames)
        /\ [q \in Tabs |-> Absent] \in [Tabs -> Entries \cup {Absent}]
    OBVIOUS
  <2>2. 0 \in 0 .. MaxToggles /\ 0 \in 0 .. MaxLeaves /\ 0 \in 0 .. MaxDrops
    BY TabsAssumption
  <2>3. QED
    BY <2>1, <2>2 DEF Init, TypeOK, SocketStates
<1>2. ASSUME NEW q \in Tabs
      PROVE  SocketInv(q)
  BY DEF Init, SocketInv
<1>3. ASSUME NEW l \in Links
      PROVE  LinkInv(l[1], l[2])
  <2>1. chan[<<l[2], l[1]>>] = << >> /\ wire[l[1]] = << >> /\ list[l[1]][l[2]] = Absent
    BY LinkParts DEF Init
  <2>2. QED
    BY <2>1 DEF LinkInv, HeardInv, LeftIsLast, WireInv, ListInv, Clean
<1> QED BY <1>1, <1>2, <1>3 DEF IInv

\* Every step keeps the invariant.
LEMMA InvStep ==
  ASSUME IInv, [Next]_vars
  PROVE  IInv'
<1>1. CASE UNCHANGED vars
  BY <1>1 DEF IInv, vars, pageVars, TypeOK, SocketInv, LinkInv, HeardInv, LeftIsLast, WireInv, ListInv
<1>2. CASE Next
  <2>1. TypeOK'
    BY <1>2, TypeStep DEF IInv
  <2>2. \A q \in Tabs : SocketInv(q)'
    BY <1>2, SocketStep DEF IInv
  <2>3. ASSUME NEW l \in Links
        PROVE  LinkInv(l[1], l[2])'
    <3> DEFINE q == l[1]
               p == l[2]
    <3>1. q \in Tabs /\ p \in Tabs /\ p # q /\ LinkInv(q, p)
      BY LinkParts DEF IInv
    <3>2. Channel(q, p)
      BY <1>2, <3>1, ChannelStep DEF IInv, LinkInv
    <3>3. HeardInv(q, p)' /\ LeftIsLast(q, p)'
      BY <3>1, <3>2, ChannelInv DEF IInv, LinkInv
    <3>4. WireInv(q, p)'
      BY <1>2, <3>1, WireStep DEF IInv, LinkInv
    <3>5. ListInv(q, p)'
      BY <1>2, <3>1, <3>2, ListStep DEF IInv
    <3>6. QED
      BY <3>3, <3>4, <3>5 DEF LinkInv
  <2>4. QED
    BY <2>1, <2>2, <2>3 DEF IInv
<1> QED BY <1>1, <1>2

\* The invariant holds throughout.
THEOREM Invariance == Spec => []IInv
<1>1. Init => IInv
  BY InvInit
<1>2. IInv /\ [Next]_vars => IInv'
  BY InvStep
<1> QED BY <1>1, <1>2, PTL DEF Spec

\* Every variable of the page, the socket and the store's list has its type.
THEOREM TypeCorrect == Spec => []TypeOK
<1>1. IInv => TypeOK
  BY DEF IInv
<1> QED BY <1>1, Invariance, PTL

\* A tab that left through the page is on no list once the tab that shows the
\* list is connected and has handled what was sent to it, however the gateway's
\* frames and the other tabs' messages interleave.
THEOREM LeftIsUnlisted == Spec => []NoGhostTab
<1>1. IInv => NoGhostTab
  <2> SUFFICES ASSUME IInv, NEW l \in Links,
                      up[l[1]], socket[l[1]] = "open", wire[l[1]] = << >>,
                      ~up[l[2]], l[2] \notin closed \cup sessions, chan[<<l[2], l[1]>>] = << >>
               PROVE  list[l[1]][l[2]] = Absent
    BY DEF NoGhostTab
  <2>1. ~Dropping(wire[l[1]], l[2])
    BY DEF Dropping
  <2> QED BY <2>1 DEF IInv, LinkInv, ListInv
<1> QED BY <1>1, Invariance, PTL
=============================================================================
