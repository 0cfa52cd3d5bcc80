---------------------------- MODULE JoinFlowProofs ----------------------------
(***************************************************************************)
(* Proofs about JoinFlow, for every number of tabs, meetings, participants *)
(* and candidate hosts, and for servers that answer before or after the    *)
(* commit.                                                                 *)
(***************************************************************************)
EXTENDS JoinFlow, FiniteSetTheorems, TLAPS

\* What the client's side of a step changes.
ClientOK ==
  /\ call \in [Tabs -> Calls \cup {NoCall}]
  /\ store \in [Tabs -> Credentials]
  /\ page \in [Tabs -> Rooms \cup {None}]
  /\ minted \subseteq Rooms \cup Ids /\ given \subseteq Rooms \cup Ids

ServerOK ==
  /\ row \in [Rooms -> Statuses]
  /\ seat \in [Ids -> Rooms \cup {None}]
  /\ jobs \subseteq Jobs

BoundsOK ==
  bounds \in [flows : 0 .. MaxFlows, losses : 0 .. MaxLosses, faults : 0 .. MaxFaults]

\* The type invariant is the conjunction of its three parts.
LEMMA TypeParts == TypeOK <=> ClientOK /\ ServerOK /\ BoundsOK
  BY DEF TypeOK, ClientOK, ServerOK, BoundsOK

\* A transaction that saw an active meeting finds it active or ended.
ActiveStays == \A j \in jobs : j.saw = "ACTIVE" => row[j.room] \in {"ACTIVE", "ENDED"}

\* A page waits for one transaction at most, the one its request has reached.
OneWaits ==
  \A j \in jobs :
    j.tab # None => /\ call[j.tab] # NoCall /\ call[j.tab].arrived
                    /\ \A k \in jobs : k.tab = j.tab => k = j

\* What was answered before its commit can only commit or conflict.
AnsweredGoesOn == \A j \in jobs : j.done => j.saw # "ENDED"

\* Behind the credentials of a tab is a meeting, or the transaction that answered.
Backed(c) ==
  c.kind = "real" => \/ row[c.room] # "absent"
                     \/ \E j \in jobs : j.done /\ j.id = c.id /\ j.room = c.room

AllBacked == \A t \in Tabs : Backed(store[t])

IInv ==
  /\ TypeOK
  /\ OneWaits
  /\ SeatedIsStarted
  /\ ActiveStays
  /\ AnsweredGoesOn
  /\ AllBacked

-----------------------------------------------------------------------------
(* Types *)

\* Ask yields values of the declared types.
LEMMA AskTyped ==
  ASSUME NEW tok \in {"none", "dev", "real"}
  PROVE  /\ \A r \in Rooms \cup {None} : Ask("token", r, tok) \in Calls
         /\ Ask("create", None, tok) \in Calls
         /\ Ask("alias", None, tok) \in Calls
         /\ \A r \in Rooms : Ask("join", r, tok) \in Calls
<1>1. 1 \in 1 .. Hosts
  BY JoinAssumption
<1> QED BY <1>1 DEF Ask, Calls

\* Call yields values of the declared types.
LEMMA CallTyped ==
  ASSUME NEW c \in Calls \cup {NoCall}, c # NoCall
  PROVE  /\ c.token \in {"none", "dev", "real"}
         /\ c.kind \in {"token", "create", "alias", "join"}
         /\ c.kind = "token" => c.room \in Rooms \cup {None}
         /\ c.kind = "join" => c.room \in Rooms
         /\ [c EXCEPT !.arrived = TRUE] \in Calls
         /\ c.host < Hosts => [c EXCEPT !.host = @ + 1, !.arrived = FALSE] \in Calls
<1>1. Hosts \in Nat
  BY JoinAssumption
<1>2. c \in Calls
  OBVIOUS
<1>3. [c EXCEPT !.arrived = TRUE] \in Calls
  BY <1>2 DEF Calls
<1>4. ASSUME c.host < Hosts
      PROVE  [c EXCEPT !.host = @ + 1, !.arrived = FALSE] \in Calls
  <2>1. c.host + 1 \in 1 .. Hosts
    BY <1>1, <1>2, <1>4 DEF Calls
  <2> QED BY <1>2, <2>1 DEF Calls
<1>5. c.token \in {"none", "dev", "real"} /\ c.kind \in {"token", "create", "alias", "join"}
  BY <1>2 DEF Calls
<1>6. /\ c.kind = "token" => c.room \in Rooms \cup {None}
      /\ c.kind = "join" => c.room \in Rooms
  BY <1>2 DEF Calls
<1> QED BY <1>3, <1>4, <1>5, <1>6

\* Job yields values of the declared types.
LEMMA JobTyped ==
  ASSUME NEW j \in Jobs
  PROVE  /\ j.room \in Rooms /\ j.tab \in Tabs \cup {None} /\ j.saw \in Statuses
         /\ j.done \in BOOLEAN /\ j.kind \in {"create", "join"}
         /\ j.kind = "join" => j.id \in Ids
         /\ j.kind = "create" => j.saw = "absent" /\ j.id = None
         /\ \A t \in Tabs \cup {None} : [j EXCEPT !.tab = t] \in Jobs
         /\ [j EXCEPT !.tab = None, !.done = TRUE] \in Jobs
  BY DEF Jobs, Statuses

\* NextHost yields values of the declared types.
LEMMA NextHostTyped ==
  ASSUME ClientOK, NEW t \in Tabs, call[t] # NoCall, NextHost(t)
  PROVE  ClientOK'
<1>1. [call[t] EXCEPT !.host = @ + 1, !.arrived = FALSE] \in Calls
  BY CallTyped DEF ClientOK, NextHost
<1>2. call' = [call EXCEPT ![t] = [call[t] EXCEPT !.host = @ + 1, !.arrived = FALSE]]
  BY DEF NextHost, ClientOK
<1> QED BY <1>1, <1>2 DEF ClientOK, NextHost

\* GiveUp yields values of the declared types.
LEMMA GiveUpTyped ==
  ASSUME ClientOK, NEW t \in Tabs, GiveUp(t)
  PROVE  ClientOK'
  BY DEF ClientOK, GiveUp

\* JoinNext yields values of the declared types.
LEMMA JoinNextTyped ==
  ASSUME ClientOK, NEW t \in Tabs, NEW r \in Rooms, JoinNext(t, r), minted' \subseteq Rooms \cup Ids
  PROVE  ClientOK'
<1>1. AskToken(r) \in Calls
  BY AskTyped DEF AskToken
<1> QED BY <1>1 DEF ClientOK, JoinNext

\* Enter yields values of the declared types.
LEMMA EnterTyped ==
  ASSUME ClientOK, NEW t \in Tabs, NEW c \in Credentials, c.room \in Rooms, Enter(t, c)
  PROVE  ClientOK'
<1>1. c.id \in Ids \cup {None}
  BY DEF Credentials
<1> QED BY <1>1 DEF ClientOK, Enter

\* Offline yields values of the declared types.
LEMMA OfflineTyped ==
  ASSUME ClientOK, NEW t \in Tabs, call[t] # NoCall, Offline(t)
  PROVE  ClientOK'
<1> DEFINE c == call[t]
<1>0. /\ c.kind \in {"token", "create", "alias", "join"}
      /\ c.kind = "token" => c.room \in Rooms \cup {None}
      /\ c.kind = "join" => c.room \in Rooms
  BY CallTyped DEF ClientOK
<1>1. CASE c.kind = "token"
  <2>1. Ask(IF c.room = None THEN "create" ELSE "join", c.room, "dev") \in Calls
    BY <1>0, <1>1, AskTyped
  <2> QED BY <1>1, <2>1 DEF Offline, ClientOK
<1>2. CASE c.kind \in {"create", "alias"}
  <2>1. PICK r \in Rooms \ minted : minted' = minted \cup {r} /\ JoinNext(t, r)
    BY <1>2 DEF Offline
  <2> QED BY <2>1, JoinNextTyped DEF ClientOK
<1>3. CASE c.kind = "join"
  <2> DEFINE mock == [kind |-> "mock", room |-> c.room, id |-> None]
  <2>1. mock \in Credentials /\ mock.room \in Rooms
    BY <1>0, <1>3 DEF Credentials
  <2>2. Enter(t, mock)
    BY <1>3 DEF Offline
  <2> QED BY <2>1, <2>2, EnterTyped
<1> QED BY <1>0, <1>1, <1>2, <1>3

\* Passed yields values of the declared types.
LEMMA PassedTyped ==
  ASSUME ClientOK, NEW t \in Tabs, call[t] # NoCall, NEW status, Passed(t, status)
  PROVE  ClientOK'
<1>1. CASE NextHost(t)
  BY <1>1, NextHostTyped
<1>2. CASE GiveUp(t)
  BY <1>2, GiveUpTyped
<1>3. CASE /\ call' = [call EXCEPT ![t] = Ask("alias", None, call[t].token)]
           /\ UNCHANGED <<store, page, minted, given>>
  <2>1. Ask("alias", None, call[t].token) \in Calls
    BY AskTyped, CallTyped DEF ClientOK
  <2> QED BY <1>3, <2>1 DEF ClientOK
<1> QED BY <1>1, <1>2, <1>3 DEF Passed, Rejected

\* Spend yields values of the declared types.
LEMMA SpendTyped ==
  ASSUME BoundsOK
  PROVE  /\ Spend("flows", MaxFlows) => BoundsOK'
         /\ Spend("losses", MaxLosses) => BoundsOK'
         /\ Spend("faults", MaxFaults) => BoundsOK'
<1>1. MaxFlows \in Nat /\ MaxLosses \in Nat /\ MaxFaults \in Nat
  BY JoinAssumption
<1>2. ASSUME Spend("flows", MaxFlows) PROVE BoundsOK'
  BY <1>1, <1>2 DEF Spend, BoundsOK
<1>3. ASSUME Spend("losses", MaxLosses) PROVE BoundsOK'
  BY <1>1, <1>3 DEF Spend, BoundsOK
<1>4. ASSUME Spend("faults", MaxFaults) PROVE BoundsOK'
  BY <1>1, <1>4 DEF Spend, BoundsOK
<1> QED BY <1>2, <1>3, <1>4

-----------------------------------------------------------------------------
(* Steps of a page *)

\* The calls and credentials of the other tabs stay, and no real ones are new.
Keeps(t) ==
  /\ \A u \in Tabs \ {t} : call'[u] = call[u]
  /\ \A u \in Tabs : store'[u] = store[u] \/ store'[u].kind # "real"

\* An error that is passed on to the caller leaves the calls of other tabs and
\* all credentials as they are.
LEMMA PassedKeeps ==
  ASSUME ClientOK, NEW t \in Tabs, NEW status, Passed(t, status)
  PROVE  Keeps(t) /\ store' = store
  BY DEF ClientOK, Passed, NextHost, Rejected, GiveUp, Keeps

\* A join made up offline leaves the calls of other tabs as they are, and makes
\* no real credentials.
LEMMA OfflineKeeps ==
  ASSUME ClientOK, NEW t \in Tabs, Offline(t)
  PROVE  Keeps(t)
<1> DEFINE mock == [kind |-> "mock", room |-> call[t].room, id |-> None]
<1>1. CASE UNCHANGED <<store, page, minted, given>> /\ \E c : call' = [call EXCEPT ![t] = c]
  BY <1>1 DEF ClientOK, Keeps
<1>2. CASE \E r : JoinNext(t, r)
  BY <1>2 DEF ClientOK, JoinNext, Keeps
<1>3. CASE Enter(t, mock)
  <2>1. \A u \in Tabs : store'[u] = IF u = t THEN mock ELSE store[u]
    BY <1>3 DEF ClientOK, Enter
  <2>2. \A u \in Tabs \ {t} : call'[u] = call[u]
    BY <1>3 DEF ClientOK, Enter
  <2> QED BY <2>1, <2>2 DEF Keeps
<1> QED BY <1>1, <1>2, <1>3 DEF Offline

\* A page stops waiting for the transaction it has reached.
LEMMA AbandonInv ==
  ASSUME IInv, NEW t \in Tabs, jobs' = Abandoned(t), UNCHANGED <<row, seat>>,
         ClientOK', BoundsOK', Keeps(t)
  PROVE  IInv'
<1> DEFINE Left(j) == [j EXCEPT !.tab = IF @ = t THEN None ELSE @]
<1>0. ServerOK /\ ClientOK /\ t # None
  BY TypeParts, JoinAssumption DEF IInv
<1>1. jobs' = {Left(j) : j \in jobs}
  BY DEF Abandoned
<1>2. \A j \in jobs : /\ Left(j) \in Jobs
                      /\ Left(j).room = j.room /\ Left(j).id = j.id
                      /\ Left(j).saw = j.saw /\ Left(j).done = j.done
                      /\ Left(j).tab = (IF j.tab = t THEN None ELSE j.tab)
  <2> TAKE j \in jobs
  <2>1. j \in Jobs
    BY <1>0 DEF ServerOK
  <2>2. (IF j.tab = t THEN None ELSE j.tab) \in Tabs \cup {None}
    BY <2>1, JobTyped
  <2> QED BY <2>1, <2>2, JobTyped DEF Jobs
<1> HIDE DEF Left
<1>3. TypeOK'
  <2>1. ServerOK'
    BY <1>0, <1>1, <1>2 DEF ServerOK
  <2> QED BY <2>1, TypeParts DEF TypeOK, ClientOK, ServerOK, BoundsOK
<1>4. OneWaits'
  <2> SUFFICES ASSUME NEW j \in jobs, Left(j).tab # None
               PROVE  /\ call'[Left(j).tab] # NoCall /\ call'[Left(j).tab].arrived
                      /\ \A k \in jobs : Left(k).tab = Left(j).tab => Left(k) = Left(j)
    <3>1. /\ \A x \in jobs' : \E j \in jobs : x = Left(j)
          /\ \A j \in jobs : Left(j) \in jobs'
      BY <1>1
    <3> QED BY <3>1 DEF OneWaits
  <2>1. Left(j).tab = j.tab /\ j.tab # t /\ j.tab # None /\ j.tab \in Tabs
    BY <1>0, <1>2, JobTyped DEF ServerOK
  <2>2. call'[j.tab] = call[j.tab]
    BY <2>1 DEF Keeps
  <2>3. \A k \in jobs : Left(k).tab = j.tab => k.tab = j.tab
    BY <1>2, <2>1
  <2>4. call[j.tab] # NoCall /\ call[j.tab].arrived /\ \A k \in jobs : k.tab = j.tab => k = j
    BY <2>1 DEF IInv, OneWaits
  <2> QED BY <2>1, <2>2, <2>3, <2>4
<1>5. SeatedIsStarted' /\ ActiveStays' /\ AnsweredGoesOn'
  <2>1. \A x \in jobs' : \E j \in jobs : x.room = j.room /\ x.saw = j.saw /\ x.done = j.done
    BY <1>1, <1>2
  <2> QED BY <2>1 DEF IInv, SeatedIsStarted, ActiveStays, AnsweredGoesOn
<1>6. AllBacked'
  <2> SUFFICES ASSUME NEW u \in Tabs, store'[u].kind = "real"
               PROVE  \/ row'[store'[u].room] # "absent"
                      \/ \E j \in jobs' : j.done /\ j.id = store'[u].id /\ j.room = store'[u].room
    BY DEF AllBacked, Backed
  <2>1. store'[u] = store[u]
    BY DEF Keeps
  <2>2. \A j \in jobs : \E x \in jobs' : x.room = j.room /\ x.id = j.id /\ x.done = j.done
    BY <1>1, <1>2
  <2> QED BY <2>1, <2>2 DEF IInv, AllBacked, Backed
<1> QED BY <1>3, <1>4, <1>5, <1>6 DEF IInv

\* A page takes a step while no transaction works for it.
LEMMA QuietInv ==
  ASSUME IInv, NEW t \in Tabs, call[t] = NoCall \/ ~call[t].arrived, UNCHANGED apiVars,
         ClientOK', BoundsOK', Keeps(t)
  PROVE  IInv'
<1>1. \A j \in jobs : j.tab # t
  BY JoinAssumption DEF IInv, OneWaits
<1>2. \A j \in jobs : [j EXCEPT !.tab = IF @ = t THEN None ELSE @] = j
  <2> TAKE j \in jobs
  <2>1. j \in Jobs
    BY DEF IInv, TypeOK
  <2> QED BY <1>1, <2>1 DEF Jobs
<1>3. jobs' = Abandoned(t)
  BY <1>2 DEF Abandoned, apiVars
<1> QED BY <1>3, AbandonInv DEF apiVars

\* NoAnswer keeps the inductive invariant.
LEMMA NoAnswerInv ==
  ASSUME IInv, NEW t \in Tabs, NoAnswer(t)
  PROVE  IInv'
<1>1. ClientOK /\ BoundsOK
  BY TypeParts DEF IInv
<1>2. BoundsOK'
  BY <1>1, SpendTyped DEF NoAnswer, BoundsOK
<1>3. ClientOK'
  BY <1>1, NextHostTyped, OfflineTyped DEF NoAnswer
<1>4. Keeps(t)
  <2>1. CASE NextHost(t)
    BY <1>1, <2>1 DEF NextHost, Keeps, ClientOK
  <2>2. CASE Offline(t)
    BY <1>1, <2>2, OfflineKeeps
  <2> QED BY <2>1, <2>2 DEF NoAnswer
<1> QED BY <1>2, <1>3, <1>4, AbandonInv DEF NoAnswer

\* WrongHost keeps the inductive invariant.
LEMMA WrongHostInv ==
  ASSUME IInv, NEW t \in Tabs, WrongHost(t)
  PROVE  IInv'
<1>1. ClientOK /\ BoundsOK
  BY TypeParts DEF IInv
<1>2. BoundsOK'
  BY <1>1 DEF WrongHost, BoundsOK
<1>3. ClientOK' /\ Keeps(t)
  BY <1>1, PassedTyped, PassedKeeps DEF WrongHost
<1> QED BY <1>2, <1>3, QuietInv DEF WrongHost

\* Refused keeps the inductive invariant.
LEMMA RefusedInv ==
  ASSUME IInv, NEW t \in Tabs, Refused(t)
  PROVE  IInv'
<1>1. ClientOK /\ BoundsOK
  BY TypeParts DEF IInv
<1>2. BoundsOK'
  BY <1>1 DEF Refused, BoundsOK
<1>3. ClientOK' /\ Keeps(t)
  BY <1>1, GiveUpTyped DEF Refused, GiveUp, Keeps, ClientOK
<1> QED BY <1>2, <1>3, QuietInv DEF Refused

\* TokenIssued keeps the inductive invariant.
LEMMA TokenIssuedInv ==
  ASSUME IInv, NEW t \in Tabs, TokenIssued(t)
  PROVE  IInv'
<1> DEFINE asked == Ask(IF call[t].room = None THEN "create" ELSE "join", call[t].room, "real")
<1>1. ClientOK /\ BoundsOK
  BY TypeParts DEF IInv
<1>2. BoundsOK'
  BY <1>1 DEF TokenIssued, BoundsOK
<1>3. asked \in Calls
  <2>1. call[t].room \in Rooms \cup {None}
    BY <1>1, CallTyped DEF TokenIssued, Asking, ClientOK
  <2> QED BY <2>1, AskTyped
<1>4. call' = [call EXCEPT ![t] = asked]
  BY DEF TokenIssued
<1> HIDE DEF asked
<1>5. ClientOK' /\ Keeps(t)
  BY <1>1, <1>3, <1>4 DEF TokenIssued, Keeps, ClientOK
<1> QED BY <1>2, <1>5, QuietInv DEF TokenIssued, Asking

\* Begin yields values of the declared types.
LEMMA BeginTyped ==
  ASSUME IInv, NEW t \in Tabs, NEW r \in Rooms \cup {None}, Begin(t, r)
  PROVE  /\ BoundsOK' /\ UNCHANGED apiVars /\ call[t] = NoCall
         /\ call' \in [Tabs -> Calls \cup {NoCall}]
         /\ \A u \in Tabs \ {t} : call'[u] = call[u]
<1>1. ClientOK /\ BoundsOK
  BY TypeParts DEF IInv
<1>2. BoundsOK'
  BY <1>1, SpendTyped DEF Begin
<1>3. AskToken(r) \in Calls
  BY AskTyped DEF AskToken
<1> QED BY <1>1, <1>2, <1>3 DEF Begin, ClientOK

\* User keeps the inductive invariant.
LEMMA UserInv ==
  ASSUME IInv, NEW t \in Tabs, User(t)
  PROVE  IInv'
<1>1. ClientOK /\ BoundsOK
  BY TypeParts DEF IInv
<1>2. CASE StartMeeting(t)
  <2>1. Begin(t, None)
    BY <1>2 DEF StartMeeting
  <2>2. ClientOK' /\ Keeps(t)
    BY <1>1, <1>2, <2>1, BeginTyped DEF StartMeeting, ClientOK, Keeps
  <2> QED BY <2>1, <2>2, BeginTyped, QuietInv
<1>3. ASSUME NEW r \in Rooms, JoinMeeting(t, r) PROVE IInv'
  <2>1. Begin(t, r)
    BY <1>3 DEF JoinMeeting
  <2>2. ClientOK' /\ Keeps(t)
    BY <1>1, <1>3, <2>1, BeginTyped DEF JoinMeeting, Named, ClientOK, Keeps
  <2> QED BY <2>1, <2>2, BeginTyped, QuietInv
<1>4. ASSUME NEW r \in Rooms, OpenPage(t, r) PROVE IInv'
  <2>1. Begin(t, r)
    BY <1>4 DEF OpenPage
  <2>2. ClientOK' /\ Keeps(t)
    BY <1>1, <1>4, <2>1, BeginTyped DEF OpenPage, Named, ClientOK, Keeps
  <2> QED BY <2>1, <2>2, BeginTyped, QuietInv
<1>5. CASE LeaveMeeting(t)
  <2>1. ClientOK' /\ BoundsOK' /\ Keeps(t)
    BY <1>1, <1>5 DEF LeaveMeeting, ClientOK, BoundsOK, Keeps
  <2> QED BY <1>5, <2>1, QuietInv DEF LeaveMeeting
<1>6. CASE Reload(t)
  <2>1. BoundsOK'
    BY <1>1, <1>6, SpendTyped DEF Reload, BoundsOK
  <2>2. NoCredentials \in Credentials /\ NoCredentials.kind # "real"
    BY DEF NoCredentials, Credentials
  <2>3. ClientOK'
    BY <1>1, <1>6, <2>2 DEF Reload, ClientOK
  <2>4. Keeps(t)
    BY <1>1, <1>6, <2>2 DEF Reload, ClientOK, Keeps
  <2> QED BY <1>6, <2>1, <2>3, <2>4, AbandonInv DEF Reload
<1> QED BY <1>2, <1>3, <1>4, <1>5, <1>6 DEF User

-----------------------------------------------------------------------------
(* Steps of the API *)

\* A request reaches the API: one more transaction, for a page that had none.
LEMMA ArrivalInv ==
  ASSUME IInv, NEW t \in Tabs, NEW j \in Jobs, call[t] # NoCall, ~call[t].arrived,
         j.tab = t, ~j.done, j.saw = "absent" \/ j.saw = row[j.room],
         jobs' = jobs \cup {j},
         call' = [call EXCEPT ![t].arrived = TRUE],
         minted' \subseteq Rooms \cup Ids,
         UNCHANGED <<row, seat, store, page, given, bounds>>
  PROVE  IInv'
<1>1. ClientOK /\ BoundsOK /\ ServerOK
  BY TypeParts DEF IInv
<1>2. call[t] \in Calls /\ [call[t] EXCEPT !.arrived = TRUE] \in Calls
  BY <1>1, CallTyped DEF ClientOK
<1>3. /\ \A u \in Tabs \ {t} : call'[u] = call[u]
      /\ call'[t] = [call[t] EXCEPT !.arrived = TRUE]
      /\ call'[t].arrived
      /\ call' \in [Tabs -> Calls \cup {NoCall}]
  BY <1>1, <1>2 DEF ClientOK, Calls
<1>4. TypeOK'
  <2>1. ClientOK' /\ ServerOK' /\ BoundsOK'
    BY <1>1, <1>3 DEF ClientOK, ServerOK, BoundsOK
  <2> QED BY <2>1 DEF TypeOK, ClientOK, ServerOK, BoundsOK
<1>5. OneWaits'
  <2>1. \A k \in jobs : k.tab # t
    BY JoinAssumption DEF IInv, OneWaits
  <2>2. call'[t] # NoCall
    BY <1>2, <1>3 DEF Calls, NoCall
  <2>3. \A k \in jobs : k.tab \in Tabs \cup {None}
    BY <1>1, JobTyped DEF ServerOK
  <2> QED BY <1>3, <2>1, <2>2, <2>3 DEF IInv, OneWaits
<1>6. SeatedIsStarted' /\ ActiveStays' /\ AnsweredGoesOn'
  BY DEF IInv, SeatedIsStarted, ActiveStays, AnsweredGoesOn
<1>7. AllBacked'
  BY DEF IInv, AllBacked, Backed
<1> QED BY <1>4, <1>5, <1>6, <1>7 DEF IInv

\* CreateArrives keeps the inductive invariant.
LEMMA CreateArrivesInv ==
  ASSUME IInv, NEW t \in Tabs, CreateArrives(t)
  PROVE  IInv'
<1>1. PICK r \in Rooms \ minted :
        /\ minted' = minted \cup {r}
        /\ jobs' = jobs \cup {[kind |-> "create", room |-> r, id |-> None, tab |-> t,
                               saw |-> "absent", done |-> FALSE]}
  BY DEF CreateArrives
<1> DEFINE j == [kind |-> "create", room |-> r, id |-> None, tab |-> t, saw |-> "absent",
                 done |-> FALSE]
<1>2. j \in Jobs
  BY DEF Jobs
<1>3. minted' \subseteq Rooms \cup Ids
  BY <1>1 DEF IInv, TypeOK
<1> QED BY <1>1, <1>2, <1>3, ArrivalInv DEF CreateArrives, Asking

\* JoinArrives keeps the inductive invariant.
LEMMA JoinArrivesInv ==
  ASSUME IInv, NEW t \in Tabs, JoinArrives(t)
  PROVE  IInv'
<1> DEFINE r == call[t].room
<1>1. PICK i \in Ids \ minted :
        /\ minted' = minted \cup {i}
        /\ jobs' = jobs \cup {[kind |-> "join", room |-> r, id |-> i, tab |-> t,
                               saw |-> row[r], done |-> FALSE]}
  BY DEF JoinArrives
<1> DEFINE j == [kind |-> "join", room |-> r, id |-> i, tab |-> t, saw |-> row[r],
                 done |-> FALSE]
<1>2. r \in Rooms
  BY CallTyped DEF IInv, TypeOK, JoinArrives, Asking
<1>3. j \in Jobs
  <2>1. row[r] \in Statuses
    BY <1>2 DEF IInv, TypeOK
  <2> QED BY <1>2, <2>1 DEF Jobs
<1>4. minted' \subseteq Rooms \cup Ids
  BY <1>1 DEF IInv, TypeOK
<1> QED BY <1>1, <1>2, <1>3, <1>4, ArrivalInv DEF JoinArrives, Asking

\* A transaction ends without effect: what its page knows of it is an error.
LEMMA ResolveInv ==
  ASSUME IInv, NEW j \in jobs, NEW status, jobs' = jobs \ {j}, UNCHANGED <<row, seat>>,
         ~j.done \/ row[j.room] # "absent", Answered(j, status), BoundsOK'
  PROVE  IInv'
<1>1. ClientOK /\ BoundsOK /\ ServerOK
  BY TypeParts DEF IInv
<1>2. j \in Jobs /\ j.tab \in Tabs \cup {None}
  BY <1>1, JobTyped DEF ServerOK
<1>3. ClientOK' /\ store' = store
  <2>1. CASE j.tab = None
    BY <1>1, <2>1 DEF Answered, tabVars, ClientOK
  <2>2. CASE j.tab # None
    <3>1. j.tab \in Tabs /\ call[j.tab] # NoCall /\ Passed(j.tab, status)
      BY <1>2, <2>2 DEF Answered, IInv, OneWaits
    <3> QED BY <1>1, <3>1, PassedTyped, PassedKeeps
  <2> QED BY <2>1, <2>2
<1>4. \A u \in Tabs : u # j.tab => call'[u] = call[u]
  <2>1. CASE j.tab = None
    BY <2>1 DEF Answered, tabVars
  <2>2. CASE j.tab # None
    BY <1>1, <1>2, <2>2, PassedKeeps DEF Answered, Keeps
  <2> QED BY <2>1, <2>2
<1>5. TypeOK'
  BY <1>1, <1>3, TypeParts DEF TypeOK, ClientOK, ServerOK, BoundsOK
<1>6. OneWaits'
  <2> SUFFICES ASSUME NEW k \in jobs', k.tab # None
               PROVE  /\ call'[k.tab] # NoCall /\ call'[k.tab].arrived
                      /\ \A l \in jobs' : l.tab = k.tab => l = k
    BY DEF OneWaits
  <2>1. k \in jobs /\ k # j /\ k.tab \in Tabs
    BY <1>1, JobTyped DEF ServerOK
  <2>2. k.tab # j.tab
    BY <2>1 DEF IInv, OneWaits
  <2>3. call'[k.tab] = call[k.tab]
    BY <1>4, <2>1, <2>2
  <2> QED BY <2>1, <2>3 DEF IInv, OneWaits
<1>7. SeatedIsStarted' /\ ActiveStays' /\ AnsweredGoesOn'
  BY DEF IInv, SeatedIsStarted, ActiveStays, AnsweredGoesOn
<1>8. AllBacked'
  BY <1>3 DEF IInv, AllBacked, Backed
<1> QED BY <1>5, <1>6, <1>7, <1>8 DEF IInv

\* Failure keeps the inductive invariant.
LEMMA FailureInv ==
  ASSUME IInv, NEW j \in jobs, JoinEnded(j) \/ RoomUnavailable(j) \/ Conflict(j)
  PROVE  IInv'
<1>0. BoundsOK
  BY TypeParts DEF IInv
<1>1. CASE JoinEnded(j)
  <2>1. ~j.done
    BY <1>1 DEF JoinEnded, IInv, AnsweredGoesOn
  <2>2. BoundsOK'
    BY <1>0, <1>1 DEF JoinEnded, BoundsOK
  <2> QED BY <1>1, <2>1, <2>2, ResolveInv DEF JoinEnded
<1>2. CASE RoomUnavailable(j)
  <2>1. BoundsOK'
    BY <1>0, <1>2, SpendTyped DEF RoomUnavailable
  <2> QED BY <1>2, <2>1, ResolveInv DEF RoomUnavailable
<1>3. CASE Conflict(j)
  <2>1. BoundsOK'
    BY <1>0, <1>3 DEF Conflict, BoundsOK
  <2> QED BY <1>3, <2>1, ResolveInv DEF Conflict, Conflicting
<1> QED BY <1>1, <1>2, <1>3

\* What the page does on a success.
LEMMA DeliveredTyped ==
  ASSUME ClientOK, NEW j \in Jobs, j.tab \in Tabs, Delivered(j)
  PROVE  /\ ClientOK'
         /\ \A u \in Tabs \ {j.tab} : call'[u] = call[u] /\ store'[u] = store[u]
         /\ \/ store' = store
            \/ store'[j.tab] = [kind |-> "real", room |-> j.room, id |-> j.id]
<1> DEFINE mine == [kind |-> "real", room |-> j.room, id |-> j.id]
<1>1. CASE j.kind = "create"
  <2>1. JoinNext(j.tab, j.room) /\ minted' = minted /\ j.room \in Rooms
    BY <1>1, JobTyped DEF Delivered
  <2>2. ClientOK'
    BY <2>1, JoinNextTyped DEF ClientOK
  <2> QED BY <2>1, <2>2 DEF JoinNext, ClientOK
<1>2. CASE j.kind # "create"
  <2>1. j.id \in Ids /\ j.room \in Rooms
    BY <1>2, JobTyped
  <2>2. mine \in Credentials /\ mine.room \in Rooms
    BY <2>1 DEF Credentials
  <2>3. Enter(j.tab, mine)
    BY <1>2 DEF Delivered
  <2>4. ClientOK'
    BY <2>2, <2>3, EnterTyped
  <2> QED BY <2>3, <2>4 DEF Enter, ClientOK
<1> QED BY <1>1, <1>2

\* Commit keeps the inductive invariant.
LEMMA CommitInv ==
  ASSUME IInv, NEW j \in jobs, Commit(j)
  PROVE  IInv'
<1>1. ClientOK /\ BoundsOK /\ ServerOK
  BY TypeParts DEF IInv
<1>2. /\ j \in Jobs /\ j.room \in Rooms /\ j.tab \in Tabs \cup {None}
      /\ j.kind \in {"create", "join"} /\ j.saw \in Statuses
      /\ j.kind = "join" => j.id \in Ids
      /\ j.kind = "create" => j.saw = "absent"
  BY <1>1, JobTyped DEF ServerOK
<1>3. /\ jobs' = jobs \ {j} /\ j.saw # "ENDED" /\ ~Conflicting(j) /\ Written(j)
      /\ bounds' = bounds
  BY DEF Commit
<1>4. /\ ClientOK'
      /\ \A u \in Tabs : u # j.tab => call'[u] = call[u] /\ store'[u] = store[u]
      /\ store' = store \/ store'[j.tab] = [kind |-> "real", room |-> j.room, id |-> j.id]
  <2>1. CASE j.tab = None
    BY <1>1, <2>1 DEF Commit, tabVars, ClientOK
  <2>2. CASE j.tab # None
    BY <1>1, <1>2, <2>2, DeliveredTyped DEF Commit
  <2> QED BY <2>1, <2>2
<1>5. /\ row' \in [Rooms -> Statuses]
      /\ \A r \in Rooms \ {j.room} : row'[r] = row[r]
      /\ j.kind = "create" => row[j.room] = "absent" /\ row'[j.room] = "SCHEDULED"
      /\ j.kind = "join" => row'[j.room] \in {"ACTIVE", "ENDED"}
  <2>1. j.saw = "ACTIVE" => row[j.room] \in {"ACTIVE", "ENDED"}
    BY DEF IInv, ActiveStays
  <2> QED BY <1>1, <1>2, <1>3, <2>1 DEF Written, Conflicting, Statuses, ServerOK
<1>6. /\ seat' \in [Ids -> Rooms \cup {None}]
      /\ \A i \in Ids : seat'[i] = seat[i] \/ (j.kind = "join" /\ seat'[i] = j.room)
  BY <1>1, <1>2, <1>3 DEF Written, ServerOK
<1>7. \A r \in Rooms : row[r] # "absent" => row'[r] # "absent"
  BY <1>2, <1>5
<1>8. \A r \in Rooms : row[r] \in {"ACTIVE", "ENDED"} => row'[r] \in {"ACTIVE", "ENDED"}
  BY <1>2, <1>5
<1>9. TypeOK'
  <2>1. BoundsOK'
    BY <1>1, <1>3 DEF BoundsOK
  <2>2. jobs' \subseteq Jobs
    BY <1>1, <1>3 DEF ServerOK
  <2> QED BY <1>4, <1>5, <1>6, <2>1, <2>2 DEF TypeOK, ClientOK, BoundsOK
<1>10. OneWaits'
  <2> SUFFICES ASSUME NEW k \in jobs', k.tab # None
               PROVE  /\ call'[k.tab] # NoCall /\ call'[k.tab].arrived
                      /\ \A l \in jobs' : l.tab = k.tab => l = k
    BY DEF OneWaits
  <2>1. k \in jobs /\ k # j /\ k.tab \in Tabs
    BY <1>1, <1>3, JobTyped DEF ServerOK
  <2>2. k.tab # j.tab
    BY <2>1 DEF IInv, OneWaits
  <2>3. call'[k.tab] = call[k.tab]
    BY <1>4, <2>1, <2>2
  <2> QED BY <1>3, <2>1, <2>3 DEF IInv, OneWaits
<1>11. SeatedIsStarted'
  <2> SUFFICES ASSUME NEW i \in Ids, seat'[i] # None
               PROVE  row'[seat'[i]] \in {"ACTIVE", "ENDED"}
    BY DEF SeatedIsStarted
  <2>1. CASE seat'[i] = seat[i]
    BY <1>1, <1>8, <2>1 DEF IInv, SeatedIsStarted, ServerOK
  <2>2. CASE j.kind = "join" /\ seat'[i] = j.room
    BY <1>5, <2>2
  <2> QED BY <1>6, <2>1, <2>2
<1>12. ActiveStays' /\ AnsweredGoesOn'
  <2>1. \A k \in jobs' : k \in jobs /\ k.room \in Rooms
    BY <1>1, <1>3, JobTyped DEF ServerOK
  <2> QED BY <1>8, <2>1 DEF IInv, ActiveStays, AnsweredGoesOn
<1>13. AllBacked'
  <2> SUFFICES ASSUME NEW u \in Tabs, store'[u].kind = "real"
               PROVE  \/ row'[store'[u].room] # "absent"
                      \/ \E k \in jobs' : k.done /\ k.id = store'[u].id /\ k.room = store'[u].room
    BY DEF AllBacked, Backed
  <2>1. row'[j.room] # "absent"
    BY <1>2, <1>5
  <2>2. CASE store'[u] = store[u]
    <3>1. store[u].room \in Rooms
      BY <1>1, <2>2 DEF ClientOK, Credentials
    <3>2. \/ row[store[u].room] # "absent"
          \/ \E k \in jobs : k.done /\ k.id = store[u].id /\ k.room = store[u].room
      BY <2>2 DEF IInv, AllBacked, Backed
    <3> QED BY <1>3, <1>7, <2>1, <2>2, <3>1, <3>2
  <2>3. CASE store'[u] # store[u]
    <3>1. store'[u] = [kind |-> "real", room |-> j.room, id |-> j.id]
      BY <1>4, <2>3
    <3> QED BY <2>1, <3>1
  <2> QED BY <2>2, <2>3
<1> QED BY <1>9, <1>10, <1>11, <1>12, <1>13 DEF IInv

\* AnswerEarly keeps the inductive invariant.
LEMMA AnswerEarlyInv ==
  ASSUME IInv, NEW j \in jobs, AnswerEarly(j)
  PROVE  IInv'
<1> DEFINE sent == [j EXCEPT !.tab = None, !.done = TRUE]
<1>1. ClientOK /\ BoundsOK /\ ServerOK
  BY TypeParts DEF IInv
<1>2. /\ j \in Jobs /\ j.tab \in Tabs /\ j.saw # "ENDED"
      /\ jobs' = (jobs \ {j}) \cup {sent}
      /\ row' = row /\ seat' = seat /\ bounds' = bounds /\ Delivered(j)
  BY <1>1, JobTyped DEF ServerOK, AnswerEarly
<1>3. /\ sent \in Jobs /\ sent.tab = None /\ sent.done
      /\ sent.saw = j.saw /\ sent.room = j.room /\ sent.id = j.id
  BY <1>2, JobTyped DEF Jobs
<1> HIDE DEF sent
<1>4. /\ ClientOK'
      /\ \A u \in Tabs \ {j.tab} : call'[u] = call[u] /\ store'[u] = store[u]
      /\ store' = store \/ store'[j.tab] = [kind |-> "real", room |-> j.room, id |-> j.id]
  BY <1>1, <1>2, DeliveredTyped
<1>5. TypeOK'
  BY <1>1, <1>2, <1>3, <1>4 DEF TypeOK, ClientOK, ServerOK, BoundsOK
<1>6. OneWaits'
  <2> SUFFICES ASSUME NEW k \in jobs', k.tab # None
               PROVE  /\ call'[k.tab] # NoCall /\ call'[k.tab].arrived
                      /\ \A l \in jobs' : l.tab = k.tab => l = k
    BY DEF OneWaits
  <2>1. k \in jobs /\ k # j /\ k.tab \in Tabs
    BY <1>1, <1>2, <1>3, JobTyped DEF ServerOK
  <2>2. k.tab # j.tab
    BY <2>1 DEF IInv, OneWaits
  <2>3. call'[k.tab] = call[k.tab]
    BY <1>4, <2>1, <2>2
  <2> QED BY <1>2, <1>3, <2>1, <2>3 DEF IInv, OneWaits
<1>7. SeatedIsStarted' /\ ActiveStays' /\ AnsweredGoesOn'
  BY <1>2, <1>3 DEF IInv, SeatedIsStarted, ActiveStays, AnsweredGoesOn
<1>8. AllBacked'
  <2> SUFFICES ASSUME NEW u \in Tabs, store'[u].kind = "real"
               PROVE  \/ row'[store'[u].room] # "absent"
                      \/ \E k \in jobs' : k.done /\ k.id = store'[u].id /\ k.room = store'[u].room
    BY DEF AllBacked, Backed
  <2>1. CASE store'[u] = store[u]
    BY <1>2, <1>3, <2>1 DEF IInv, AllBacked, Backed
  <2>2. CASE store'[u] # store[u]
    <3>1. store'[u] = [kind |-> "real", room |-> j.room, id |-> j.id]
      BY <1>4, <2>2
    <3> QED BY <1>2, <1>3, <3>1
  <2> QED BY <2>1, <2>2
<1> QED BY <1>5, <1>6, <1>7, <1>8 DEF IInv

\* End keeps the inductive invariant.
LEMMA EndInv ==
  ASSUME IInv, NEW r \in Rooms, End(r)
  PROVE  IInv'
<1>1. ClientOK /\ BoundsOK /\ ServerOK
  BY TypeParts DEF IInv
<1>2. /\ row' = [row EXCEPT ![r] = "ENDED"]
      /\ seat' = seat /\ jobs' = jobs /\ call' = call /\ store' = store /\ page' = page
      /\ minted' = minted /\ given' = given /\ bounds' = bounds
  BY DEF End, tabVars
<1>3. row' \in [Rooms -> Statuses] /\ \A q \in Rooms : row'[q] = IF q = r THEN "ENDED" ELSE row[q]
  BY <1>1, <1>2 DEF ServerOK, Statuses
<1>4. TypeOK' /\ OneWaits' /\ AnsweredGoesOn'
  BY <1>2, <1>3 DEF IInv, TypeOK, OneWaits, AnsweredGoesOn
<1>5. SeatedIsStarted'
  BY <1>1, <1>2, <1>3 DEF IInv, SeatedIsStarted, ServerOK
<1>6. ActiveStays'
  <2>1. \A j \in jobs : j.room \in Rooms
    BY <1>1, JobTyped DEF ServerOK
  <2> QED BY <1>2, <1>3, <2>1 DEF IInv, ActiveStays
<1>7. AllBacked'
  <2>1. \A u \in Tabs : store[u].kind = "real" => store[u].room \in Rooms
    BY <1>1 DEF ClientOK, Credentials
  <2> QED BY <1>2, <1>3, <2>1 DEF IInv, AllBacked, Backed
<1> QED BY <1>4, <1>5, <1>6, <1>7 DEF IInv

-----------------------------------------------------------------------------
\* The invariant holds in the initial states.
LEMMA InitInv == Init => IInv
<1> SUFFICES ASSUME Init PROVE IInv
  OBVIOUS
<1>1. ServerOK
  BY DEF Init, ServerOK, Statuses
<1>2. NoCredentials \in Credentials /\ NoCredentials.kind # "real"
  BY DEF NoCredentials, Credentials
<1>3. ClientOK
  BY <1>2 DEF Init, ClientOK
<1>4. BoundsOK
  <2>1. 0 \in 0 .. MaxFlows /\ 0 \in 0 .. MaxLosses /\ 0 \in 0 .. MaxFaults
    BY JoinAssumption
  <2> QED BY <2>1 DEF Init, BoundsOK
<1>5. OneWaits /\ SeatedIsStarted /\ ActiveStays /\ AnsweredGoesOn
  BY DEF Init, OneWaits, SeatedIsStarted, ActiveStays, AnsweredGoesOn
<1>6. AllBacked
  BY <1>2 DEF Init, AllBacked, Backed
<1> QED BY <1>1, <1>3, <1>4, <1>5, <1>6, TypeParts DEF IInv

\* Every step keeps the inductive invariant, and so does stuttering.
LEMMA StepInv == IInv /\ [Next]_vars => IInv'
<1> SUFFICES ASSUME IInv, [Next]_vars PROVE IInv'
  OBVIOUS
<1>1. ASSUME NEW t \in Tabs, Request(t) PROVE IInv'
  BY <1>1, NoAnswerInv, WrongHostInv, RefusedInv, TokenIssuedInv DEF Request
<1>2. ASSUME NEW t \in Tabs, CreateArrives(t) \/ JoinArrives(t) \/ User(t) PROVE IInv'
  BY <1>2, CreateArrivesInv, JoinArrivesInv, UserInv
<1>3. ASSUME NEW j \in jobs, Transaction(j) PROVE IInv'
  BY <1>3, FailureInv, CommitInv, AnswerEarlyInv DEF Transaction
<1>4. ASSUME NEW r \in Rooms, End(r) PROVE IInv'
  BY <1>4, EndInv
<1>5. CASE UNCHANGED vars
  BY <1>5 DEF vars, apiVars, tabVars, IInv, TypeOK, OneWaits, SeatedIsStarted, ActiveStays,
     AnsweredGoesOn, AllBacked, Backed
<1> QED BY <1>1, <1>2, <1>3, <1>4, <1>5 DEF Next

\* The inductive invariant holds in every reachable state.
THEOREM Invariance == Spec => []IInv
  BY InitInv, StepInv, PTL DEF Spec

\* Every variable keeps its type, for whatever instance.
THEOREM TypeCorrect == Spec => []TypeOK
<1>1. IInv => TypeOK
  BY DEF IInv
<1> QED BY <1>1, Invariance, PTL

\* A meeting with a participant has been started, however many transactions raced.
THEOREM StartedOnceSeated == Spec => []SeatedIsStarted
<1>1. IInv => SeatedIsStarted
  BY DEF IInv
<1> QED BY <1>1, Invariance, PTL

\* Credentials lead to a meeting that exists or is about to.
THEOREM AdmittedAlways == Spec => []AdmittedToAMeeting
<1>1. IInv => AdmittedToAMeeting
  BY DEF IInv, AllBacked, Backed, AdmittedToAMeeting
<1> QED BY <1>1, Invariance, PTL

-----------------------------------------------------------------------------
(* Seats *)

\* Participants that no user has, in the database or on their way there.
Behind == Unclaimed \ given

\* No step leaves one behind, but that an answer got lost.
BehindStays ==
  \/ Behind' \subseteq Behind /\ bounds'.losses >= bounds.losses
  \/ /\ \E i \in Ids : Behind' \subseteq Behind \cup {i}
     /\ bounds'.losses = bounds.losses + 1

\* Who is in Unclaimed.
LEMMA InUnclaimed ==
  \A i : i \in Unclaimed <=> \/ i \in Ids /\ seat[i] # None
                             \/ \E j \in jobs : j.kind = "join" /\ j.tab = None /\ j.id = i
  BY DEF Unclaimed

\* The client's side of a step takes no participant from a user.
LEMMA ClientGives ==
  ASSUME NEW t, NEW status, Passed(t, status) \/ NextHost(t) \/ Offline(t)
  PROVE  given \subseteq given'
<1>1. CASE Passed(t, status) \/ NextHost(t)
  BY <1>1 DEF Passed, NextHost, Rejected, GiveUp
<1>2. CASE Offline(t)
  BY <1>2 DEF Offline, JoinNext, Enter
<1> QED BY <1>1, <1>2

\* A page stops waiting for its transaction: if there is one an answer is lost, and
\* its participant may be left behind.
LEMMA AbandonBehind ==
  ASSUME IInv, NEW t \in Tabs, jobs' = Abandoned(t), UNCHANGED seat, given \subseteq given',
         IF call[t] # NoCall /\ call[t].arrived THEN Spend("losses", MaxLosses)
                                                ELSE UNCHANGED bounds
  PROVE  BehindStays
<1> DEFINE Left(j) == [j EXCEPT !.tab = IF @ = t THEN None ELSE @]
<1>1. jobs' = {Left(j) : j \in jobs}
  BY DEF Abandoned
<1>2. \A j \in jobs : /\ Left(j).kind = j.kind /\ Left(j).id = j.id
                      /\ Left(j).tab = (IF j.tab = t THEN None ELSE j.tab)
                      /\ j.kind = "join" => j.id \in Ids
  BY DEF IInv, TypeOK, Jobs
<1> HIDE DEF Left
<1>3. \A i \in Unclaimed' :
        i \in Unclaimed \/ \E j \in jobs : j.kind = "join" /\ j.tab = t /\ j.id = i
  <2> TAKE i \in Unclaimed'
  <2>1. CASE i \in Ids /\ seat[i] # None
    BY <2>1, InUnclaimed
  <2>2. CASE \E x \in jobs' : x.kind = "join" /\ x.tab = None /\ x.id = i
    <3>1. PICK j \in jobs : Left(j).kind = "join" /\ Left(j).tab = None /\ Left(j).id = i
      BY <1>1, <2>2
    <3> QED BY <1>2, <3>1, InUnclaimed
  <2> QED BY <2>1, <2>2 DEF Unclaimed
<1>4. CASE call[t] # NoCall /\ call[t].arrived
  <2>1. bounds'.losses = bounds.losses + 1
    BY <1>4 DEF Spend, IInv, TypeOK
  <2>2. CASE \E j \in jobs : j.kind = "join" /\ j.tab = t
    <3>1. PICK j \in jobs : j.kind = "join" /\ j.tab = t
      BY <2>2
    <3>2. \A k \in jobs : k.tab = t => k = j
      BY <3>1, JoinAssumption DEF IInv, OneWaits
    <3>3. Behind' \subseteq Behind \cup {j.id} /\ j.id \in Ids
      BY <1>2, <1>3, <3>1, <3>2 DEF Behind
    <3> QED BY <2>1, <3>3 DEF BehindStays
  <2>3. CASE ~\E j \in jobs : j.kind = "join" /\ j.tab = t
    <3>1. Behind' \subseteq Behind
      BY <1>3, <2>3 DEF Behind
    <3>2. bounds.losses \in Nat
      BY DEF IInv, TypeOK
    <3> QED BY <2>1, <3>1, <3>2 DEF BehindStays
  <2> QED BY <2>2, <2>3
<1>5. CASE ~(call[t] # NoCall /\ call[t].arrived)
  <2>1. \A j \in jobs : j.tab # t
    BY <1>5, JoinAssumption DEF IInv, OneWaits
  <2>2. bounds.losses \in Nat /\ bounds' = bounds
    BY <1>5 DEF IInv, TypeOK
  <2> QED BY <1>3, <2>1, <2>2 DEF Behind, BehindStays
<1> QED BY <1>4, <1>5

\* Neither the answers a step keeps nor what it commits leaves anyone behind.
LEMMA KeepBehind ==
  ASSUME IInv, given \subseteq given', bounds'.losses = bounds.losses,
         \A i \in Ids : seat'[i] # None => seat[i] # None \/ i \in Unclaimed \cup given',
         \A j \in jobs' : j.kind = "join" /\ j.tab = None => j \in jobs \/ j.id \in given'
  PROVE  BehindStays
<1>1. bounds.losses \in Nat
  BY DEF IInv, TypeOK
<1>2. \A i \in Unclaimed' : i \in Unclaimed \/ i \in given'
  <2> TAKE i \in Unclaimed'
  <2>1. \/ i \in Ids /\ seat'[i] # None
        \/ \E j \in jobs' : j.kind = "join" /\ j.tab = None /\ j.id = i
    BY DEF Unclaimed
  <2> QED BY <2>1, InUnclaimed
<1> QED BY <1>1, <1>2 DEF Behind, BehindStays

\* A request and a page's own steps leave nobody behind but by a lost answer.
LEMMA RequestBehind ==
  ASSUME IInv, NEW t \in Tabs, Request(t)
  PROVE  BehindStays
<1>1. CASE NoAnswer(t)
  <2>1. given \subseteq given'
    BY <1>1, ClientGives DEF NoAnswer
  <2> QED BY <1>1, <2>1, AbandonBehind DEF NoAnswer
<1>2. CASE WrongHost(t)
  <2>1. given \subseteq given'
    BY <1>2, ClientGives DEF WrongHost
  <2> QED BY <1>2, <2>1, KeepBehind DEF WrongHost, apiVars
<1>3. CASE Refused(t) \/ TokenIssued(t)
  BY <1>3, KeepBehind DEF Refused, GiveUp, TokenIssued, apiVars
<1> QED BY <1>1, <1>2, <1>3 DEF Request

\* A request that arrives is waited for.
LEMMA ArrivalBehind ==
  ASSUME IInv, NEW t \in Tabs, CreateArrives(t) \/ JoinArrives(t)
  PROVE  BehindStays
<1>1. UNCHANGED <<seat, given, bounds>>
  BY DEF CreateArrives, JoinArrives
<1>2. \A j \in jobs' : j \in jobs \/ j.tab # None
  BY JoinAssumption DEF CreateArrives, JoinArrives
<1> QED BY <1>1, <1>2, KeepBehind

\* What the user does leaves nobody behind, but by a reload.
LEMMA UserBehind ==
  ASSUME IInv, NEW t \in Tabs, User(t)
  PROVE  BehindStays
<1>1. CASE Reload(t)
  BY <1>1, AbandonBehind DEF Reload
<1>2. ASSUME NEW r, Begin(t, r), given \subseteq given'
      PROVE  BehindStays
  <2>1. bounds'.losses = bounds.losses
    BY <1>2 DEF Begin, Spend, IInv, TypeOK
  <2> QED BY <1>2, <2>1, KeepBehind DEF Begin, apiVars
<1>3. CASE StartMeeting(t) \/ \E r \in Rooms : JoinMeeting(t, r) \/ OpenPage(t, r)
  BY <1>2, <1>3 DEF StartMeeting, JoinMeeting, OpenPage, Named
<1>4. CASE LeaveMeeting(t)
  BY <1>4, KeepBehind DEF LeaveMeeting, apiVars
<1> QED BY <1>1, <1>3, <1>4 DEF User

\* A transaction leaves nobody behind: the page of the one that commits has its
\* participant, and the others seat nobody.
LEMMA TransactionBehind ==
  ASSUME IInv, NEW j \in jobs, Transaction(j)
  PROVE  BehindStays
<1>0. /\ j.kind \in {"create", "join"}
      /\ j.kind = "join" => j.id \in Ids
      /\ None \notin Ids
  BY JobTyped, JoinAssumption DEF IInv, TypeOK
<1>1. CASE JoinEnded(j) \/ RoomUnavailable(j) \/ Conflict(j)
  <2>1. given \subseteq given'
    BY <1>1, ClientGives DEF JoinEnded, RoomUnavailable, Conflict, Answered
  <2>2. bounds'.losses = bounds.losses
    BY <1>1 DEF JoinEnded, RoomUnavailable, Conflict, Spend, IInv, TypeOK
  <2> QED BY <1>1, <2>1, <2>2, KeepBehind DEF JoinEnded, RoomUnavailable, Conflict
<1>2. ASSUME Delivered(j)
      PROVE  given \subseteq given' /\ (j.kind = "join" => j.id \in given')
  BY <1>0, <1>2 DEF Delivered, JoinNext, Enter
<1>3. CASE Commit(j)
  <2>1. given \subseteq given' /\ (j.kind = "join" /\ j.tab # None => j.id \in given')
    BY <1>2, <1>3 DEF Commit
  <2>2. j.kind = "join" /\ j.tab = None => j.id \in Unclaimed
    BY InUnclaimed
  <2>3. \A i \in Ids : seat'[i] = seat[i] \/ (j.kind = "join" /\ i = j.id)
    BY <1>3 DEF Commit, Written, IInv, TypeOK
  <2> QED BY <1>3, <2>1, <2>2, <2>3, KeepBehind DEF Commit
<1>4. CASE AnswerEarly(j)
  <2> DEFINE sent == [j EXCEPT !.tab = None, !.done = TRUE]
  <2>1. sent.kind = j.kind /\ sent.id = j.id
    BY DEF IInv, TypeOK, Jobs
  <2> HIDE DEF sent
  <2>2. jobs' = (jobs \ {j}) \cup {sent} /\ UNCHANGED <<seat, bounds>>
    BY <1>4 DEF AnswerEarly, sent
  <2>3. given \subseteq given' /\ (j.kind = "join" => j.id \in given')
    BY <1>2, <1>4 DEF AnswerEarly
  <2> QED BY <2>1, <2>2, <2>3, KeepBehind
<1> QED BY <1>1, <1>3, <1>4 DEF Transaction

\* Every step either leaves nobody behind, or has lost an answer.
LEMMA BehindStep ==
  ASSUME IInv, [Next]_vars
  PROVE  BehindStays
<1>1. CASE UNCHANGED vars
  BY <1>1, KeepBehind DEF vars, apiVars
<1>2. ASSUME NEW r \in Rooms, End(r) PROVE BehindStays
  BY <1>2, KeepBehind DEF End
<1> QED BY <1>1, <1>2, RequestBehind, ArrivalBehind, UserBehind, TransactionBehind DEF Next

\* Every participant of the database that no user has is owed to an answer that got
\* lost: neither a commit that fails nor any race of transactions leaves one behind.
THEOREM SeatsAreAccounted == Spec => []SeatsAccounted
<1>1. Init => SeatsAccounted
  <2> SUFFICES ASSUME Init PROVE SeatsAccounted
    OBVIOUS
  <2>1. Unclaimed \ given = {}
    BY DEF Init, Unclaimed
  <2> QED BY <2>1, FS_EmptySet DEF SeatsAccounted, Init
<1>2. SeatsAccounted /\ IInv /\ [Next]_vars => SeatsAccounted'
  <2> SUFFICES ASSUME SeatsAccounted, IInv, [Next]_vars PROVE SeatsAccounted'
    OBVIOUS
  <2>1. IsFiniteSet(Behind)
    <3>1. Behind \subseteq Ids
      <4>1. TypeOK
        BY DEF IInv
      <4>2. \A j \in jobs : j.kind = "join" => j.id \in Ids
        <5>1. jobs \subseteq Jobs
          BY <4>1 DEF TypeOK
        <5>2. QED
          BY <5>1, JobTyped
      <4>3. QED
        BY <4>2 DEF Behind, Unclaimed
    <3> QED BY <3>1, FS_Subset, JoinAssumption
  <2>2. Cardinality(Behind) \in Nat /\ Cardinality(Behind) <= bounds.losses
    BY <2>1, FS_CardinalityType DEF SeatsAccounted, Behind
  <2>3. bounds.losses \in Nat /\ bounds'.losses \in Nat
    <3>1. IInv'
      BY StepInv
    <3> QED BY <3>1 DEF IInv, TypeOK
  <2>4. CASE Behind' \subseteq Behind /\ bounds'.losses >= bounds.losses
    <3>1. Cardinality(Behind') <= Cardinality(Behind) /\ Cardinality(Behind') \in Nat
      BY <2>1, <2>4, FS_Subset, FS_CardinalityType
    <3> QED BY <2>2, <2>3, <2>4, <3>1 DEF SeatsAccounted, Behind
  <2>5. ASSUME NEW i \in Ids, Behind' \subseteq Behind \cup {i},
               bounds'.losses = bounds.losses + 1
        PROVE  SeatsAccounted'
    <3>1. /\ IsFiniteSet(Behind \cup {i})
          /\ Cardinality(Behind \cup {i}) <= Cardinality(Behind) + 1
          /\ Cardinality(Behind \cup {i}) \in Nat
      <4>1. /\ IsFiniteSet(Behind \cup {i})
            /\ Cardinality(Behind \cup {i})
                 = IF i \in Behind THEN Cardinality(Behind) ELSE Cardinality(Behind) + 1
        BY <2>1, FS_AddElement
      <4> QED BY <2>2, <4>1
    <3>2. Cardinality(Behind') <= Cardinality(Behind \cup {i}) /\ Cardinality(Behind') \in Nat
      BY <2>5, <3>1, FS_Subset, FS_CardinalityType
    <3> QED BY <2>2, <2>3, <2>5, <3>1, <3>2 DEF SeatsAccounted, Behind
  <2> QED BY <2>4, <2>5, BehindStep DEF BehindStays
<1> QED BY <1>1, <1>2, Invariance, PTL DEF Spec

=============================================================================
