------------------------------- MODULE JoinFlow -------------------------------
(***************************************************************************)
(* Getting into a meeting: the lobby and the meeting page of the web       *)
(* application (apps/web/src/app), the API client that asks one candidate  *)
(* host after another and falls back to mock answers (apps/web/src/lib/    *)
(* api.ts), and the transactions of the meeting API they reach             *)
(* (services/api/routers/rooms.py).  All candidates lead to one API.       *)
(*                                                                         *)
(* A transaction reads when its request arrives and writes when it         *)
(* commits.  Whether it commits before or after its answer is sent depends *)
(* on the version of FastAPI, of which the project admits both kinds.      *)
(***************************************************************************)
EXTENDS Naturals, FiniteSets

CONSTANTS
  Tabs,         \* browser tabs
  Rooms,        \* meeting ids
  Ids,          \* participant ids
  None,         \* null
  Hosts,        \* number of candidates of getApiCandidates
  AnswersEarly, \* TRUE when an answer may be sent before the commit
  MaxFlows,     \* bound: times the users start, join or retry
  MaxLosses,    \* bound: answers that get lost
  MaxFaults     \* bound: rooms LiveKit cannot provide

ASSUME JoinAssumption ==
  /\ IsFiniteSet(Tabs) /\ IsFiniteSet(Rooms) /\ IsFiniteSet(Ids)
  /\ None \notin Rooms \cup Ids \cup Tabs
  /\ Hosts \in Nat \ {0}
  /\ AnswersEarly \in BOOLEAN
  /\ {MaxFlows, MaxLosses, MaxFaults} \subseteq Nat

VARIABLES
  row,     \* [Rooms -> Statuses]: the meetings table
  seat,    \* [Ids -> Rooms or None]: the participants table
  jobs,    \* transactions under way
  call,    \* [Tabs -> Calls]: what a tab awaits
  store,   \* [Tabs -> Credentials]: useMeetingStore
  page,    \* [Tabs -> Rooms or None]: the meeting page, or the lobby
  minted,  \* rooms and ids that were made up
  given,   \* those of them that users know of
  bounds   \* counters behind the bounds

apiVars == <<row, seat, jobs>>
tabVars == <<call, store, page>>
vars == <<apiVars, tabVars, minted, given, bounds>>

-----------------------------------------------------------------------------
Statuses == {"absent", "SCHEDULED", "ACTIVE", "ENDED"}

\* tab is the one that waits for the answer, None when nobody does (any more); saw is
\* the status the transaction read, and done says that only the commit is left.
Jobs ==
  [kind : {"create"}, room : Rooms, id : {None}, tab : Tabs \cup {None}, saw : {"absent"},
   done : BOOLEAN]
    \cup [kind : {"join"}, room : Rooms, id : Ids, tab : Tabs \cup {None}, saw : Statuses,
          done : BOOLEAN]

\* request(): what is asked, of which candidate, whether it has arrived, and the
\* token it carries.
Calls ==
  LET Asked(kinds, rooms) ==
        [kind : kinds, room : rooms, host : 1 .. Hosts, arrived : BOOLEAN,
         token : {"none", "dev", "real"}]
  IN  Asked({"token"}, Rooms \cup {None}) \cup Asked({"create", "alias"}, {None})
        \cup Asked({"join"}, Rooms)

NoCall == [kind |-> "none"]

NoCredentials == [kind |-> "none", room |-> None, id |-> None]

Credentials == [kind : {"none", "mock"}, room : Rooms \cup {None}, id : {None}]
                 \cup [kind : {"real"}, room : Rooms, id : Ids]

TypeOK ==
  /\ row \in [Rooms -> Statuses]
  /\ seat \in [Ids -> Rooms \cup {None}]
  /\ jobs \subseteq Jobs
  /\ call \in [Tabs -> Calls \cup {NoCall}]
  /\ store \in [Tabs -> Credentials]
  /\ page \in [Tabs -> Rooms \cup {None}]
  /\ minted \subseteq Rooms \cup Ids /\ given \subseteq Rooms \cup Ids
  /\ bounds \in [flows : 0 .. MaxFlows, losses : 0 .. MaxLosses, faults : 0 .. MaxFaults]

Init ==
  /\ row = [r \in Rooms |-> "absent"]
  /\ seat = [i \in Ids |-> None]
  /\ jobs = {}
  /\ call = [t \in Tabs |-> NoCall]
  /\ store = [t \in Tabs |-> NoCredentials]
  /\ page = [t \in Tabs |-> None]
  /\ minted = {}
  /\ given = {}
  /\ bounds = [flows |-> 0, losses |-> 0, faults |-> 0]

Spend(c, limit) ==
  /\ bounds[c] < limit
  /\ bounds' = [bounds EXCEPT ![c] = @ + 1]

-----------------------------------------------------------------------------
(* request() *)

Asking(t, kinds) == call[t] # NoCall /\ call[t].kind \in kinds /\ ~call[t].arrived

Ask(kind, room, token) ==
  [kind |-> kind, room |-> room, host |-> 1, arrived |-> FALSE, token |-> token]

\* joinRoom: acquireUserToken comes first, and so it does in createRoom (room is
\* None then).
AskToken(room) == Ask("token", room, "none")

\* The transaction that works for t, if any, works for nobody from now on.
Abandoned(t) == {[j EXCEPT !.tab = IF @ = t THEN None ELSE @] : j \in jobs}

\* The next candidate is asked.
NextHost(t) ==
  /\ call[t].host < Hosts
  /\ call' = [call EXCEPT ![t].host = @ + 1, ![t].arrived = FALSE]
  /\ UNCHANGED <<store, page, minted, given>>

\* An error is shown to the user: in the lobby, or on the page with a retry.
GiveUp(t) ==
  /\ call' = [call EXCEPT ![t] = NoCall]
  /\ UNCHANGED <<store, page, minted, given>>

\* createRoom is through: joinRoom for room.
JoinNext(t, room) ==
  /\ call' = [call EXCEPT ![t] = AskToken(room)]
  /\ given' = given \cup {room}
  /\ UNCHANGED <<store, page>>

\* joinRoom is through: the credentials are stored and the page shown.
Enter(t, credentials) ==
  /\ store' = [store EXCEPT ![t] = credentials]
  /\ page' = [page EXCEPT ![t] = credentials.room]
  /\ call' = [call EXCEPT ![t] = NoCall]
  /\ given' = given \cup ({credentials.id} \ {None})
  /\ UNCHANGED minted

\* The last candidate gave no answer either: the fallbacks.
Offline(t) ==
  LET c == call[t] IN
  /\ c.host = Hosts
  /\ \/ /\ c.kind = "token"
        /\ call' = [call EXCEPT ![t] = Ask(IF c.room = None THEN "create" ELSE "join", c.room, "dev")]
        /\ UNCHANGED <<store, page, minted, given>>
     \/ /\ c.kind \in {"create", "alias"}
        /\ \E r \in Rooms \ minted :
             /\ minted' = minted \cup {r}
             /\ JoinNext(t, r)
     \/ /\ c.kind = "join"
        /\ Enter(t, [kind |-> "mock", room |-> c.room, id |-> None])

\* The last candidate answered with a status that lets others be tried: 404 of a
\* room that cannot be created leads to the alias, the rest is thrown.
Rejected(t, status) ==
  /\ call[t].host = Hosts
  /\ IF status = 404 /\ call[t].kind = "create"
       THEN /\ call' = [call EXCEPT ![t] = Ask("alias", None, call[t].token)]
            /\ UNCHANGED <<store, page, minted, given>>
       ELSE GiveUp(t)

\* An answer with status 404, 400 or 500.
Passed(t, status) == NextHost(t) \/ Rejected(t, status)

\* fetch() fails, though the request may have arrived.
NoAnswer(t) ==
  /\ call[t] # NoCall
  /\ IF call[t].arrived THEN Spend("losses", MaxLosses) ELSE UNCHANGED bounds
  /\ jobs' = Abandoned(t)
  /\ NextHost(t) \/ Offline(t)
  /\ UNCHANGED <<row, seat>>

\* Something else than the API answers at this candidate.
WrongHost(t) ==
  /\ call[t] # NoCall /\ ~call[t].arrived
  /\ Passed(t, 404)
  /\ UNCHANGED <<apiVars, bounds>>

\* 401, 403 or 422: thrown at once.  A development token is not accepted.
Refused(t) ==
  /\ call[t] # NoCall /\ ~call[t].arrived
  /\ GiveUp(t)
  /\ UNCHANGED <<apiVars, bounds>>

\* A token is issued.
TokenIssued(t) ==
  /\ Asking(t, {"token"})
  /\ LET c == call[t] IN
       call' = [call EXCEPT ![t] = Ask(IF c.room = None THEN "create" ELSE "join", c.room, "real")]
  /\ UNCHANGED <<apiVars, store, page, minted, given, bounds>>

-----------------------------------------------------------------------------
(* rooms.py *)

\* create_room up to the answer of LiveKit: the row is pending.
CreateArrives(t) ==
  /\ Asking(t, {"create", "alias"})
  /\ call[t].token = "real"
  /\ \E r \in Rooms \ minted :
       /\ minted' = minted \cup {r}
       /\ jobs' = jobs \cup {[kind |-> "create", room |-> r, id |-> None, tab |-> t, saw |-> "absent",
                              done |-> FALSE]}
  /\ call' = [call EXCEPT ![t].arrived = TRUE]
  /\ UNCHANGED <<row, seat, store, page, given, bounds>>

\* join_room: the meeting is read; if there is none one is added under this id.
JoinArrives(t) ==
  /\ Asking(t, {"join"})
  /\ call[t].token = "real"
  /\ \E i \in Ids \ minted :
       /\ minted' = minted \cup {i}
       /\ jobs' = jobs \cup {[kind |-> "join", room |-> call[t].room, id |-> i, tab |-> t,
                              saw |-> row[call[t].room], done |-> FALSE]}
  /\ call' = [call EXCEPT ![t].arrived = TRUE]
  /\ UNCHANGED <<row, seat, store, page, given, bounds>>

\* What a transaction that ends without effect answers.
Answered(j, status) ==
  IF j.tab = None THEN UNCHANGED <<tabVars, minted, given>> ELSE Passed(j.tab, status)

\* join_room finds that the meeting has ended.
JoinEnded(j) ==
  /\ j.saw = "ENDED"
  /\ jobs' = jobs \ {j}
  /\ Answered(j, 400)
  /\ UNCHANGED <<row, seat, bounds>>

\* The commit of j: it writes what it changed of the row it read, whatever others
\* have written since.
Written(j) ==
  /\ row' = [row EXCEPT ![j.room] = IF j.kind = "create" THEN "SCHEDULED"
                                    ELSE IF j.saw \in {"absent", "SCHEDULED"} THEN "ACTIVE" ELSE @]
  /\ seat' = IF j.kind = "join" THEN [seat EXCEPT ![j.id] = j.room] ELSE seat

\* What the client makes of a success.
Delivered(j) ==
  IF j.kind = "create"
    THEN JoinNext(j.tab, j.room) /\ UNCHANGED minted
    ELSE Enter(j.tab, [kind |-> "real", room |-> j.room, id |-> j.id])

\* Mutation of Conflicting: the meeting is merged into the table, not added.
ConflictingMerged(j) == FALSE

\* The transaction adds a meeting that another one has committed meanwhile.
Conflicting(j) == j.saw = "absent" /\ row[j.room] # "absent"

\* Mutation of RoomUnavailable: the answer is an error, but what was added stays.
RoomUnavailableKept(j) ==
  /\ j.saw = "absent" /\ ~j.done
  /\ Spend("faults", MaxFaults)
  /\ jobs' = jobs \ {j}
  /\ Answered(j, 500)
  /\ Written(j)

\* Mutation of RoomUnavailable: the answer is a success, though nothing stays.
RoomUnavailableUnnoticed(j) ==
  /\ j.saw = "absent" /\ ~j.done /\ j.tab # None
  /\ Spend("faults", MaxFaults)
  /\ jobs' = jobs \ {j}
  /\ Delivered(j)
  /\ UNCHANGED <<row, seat>>

\* LiveKit cannot provide the room: the transaction is rolled back.
RoomUnavailable(j) ==
  /\ j.saw = "absent" /\ ~j.done
  /\ Spend("faults", MaxFaults)
  /\ jobs' = jobs \ {j}
  /\ Answered(j, 500)
  /\ UNCHANGED <<row, seat>>

\* The transaction commits, and then its answer is sent to whoever waits.
Commit(j) ==
  /\ j.saw # "ENDED" /\ ~Conflicting(j)
  /\ Written(j)
  /\ jobs' = jobs \ {j}
  /\ IF j.tab = None THEN UNCHANGED <<tabVars, minted, given>> ELSE Delivered(j)
  /\ UNCHANGED bounds

\* The commit fails.
Conflict(j) ==
  /\ Conflicting(j)
  /\ jobs' = jobs \ {j}
  /\ Answered(j, 500)
  /\ UNCHANGED <<row, seat, bounds>>

\* The answer is sent before the commit.
AnswerEarly(j) ==
  /\ AnswersEarly
  /\ j.saw # "ENDED" /\ j.tab # None
  /\ jobs' = (jobs \ {j}) \cup {[j EXCEPT !.tab = None, !.done = TRUE]}
  /\ Delivered(j)
  /\ UNCHANGED <<row, seat, bounds>>

\* end_room, by a host (no page of the application calls it).
End(r) ==
  /\ row[r] \in {"SCHEDULED", "ACTIVE"}
  /\ row' = [row EXCEPT ![r] = "ENDED"]
  /\ UNCHANGED <<seat, jobs, tabVars, minted, given, bounds>>

-----------------------------------------------------------------------------
(* The user *)

Begin(t, room) ==
  /\ call[t] = NoCall
  /\ Spend("flows", MaxFlows)
  /\ call' = [call EXCEPT ![t] = AskToken(room)]
  /\ UNCHANGED apiVars

\* A code is entered or a link opened: one that was passed on, or any other.
Named(r) ==
  /\ r \in given \/ r \notin minted
  /\ minted' = minted \cup {r}
  /\ given' = given \cup {r}

\* handleStartMeeting
StartMeeting(t) ==
  /\ page[t] = None
  /\ Begin(t, None)
  /\ UNCHANGED <<store, page, minted, given>>

\* handleJoinMeeting
JoinMeeting(t, r) ==
  /\ page[t] = None
  /\ Named(r)
  /\ Begin(t, r)
  /\ UNCHANGED <<store, page>>

\* A link to the meeting is opened, or Retry is clicked there: handleJoin.
OpenPage(t, r) ==
  /\ Named(r)
  /\ page[t] \in {None, r} /\ store[t].kind = "none"
  /\ Begin(t, r)
  /\ page' = [page EXCEPT ![t] = r]
  /\ UNCHANGED store

\* The meeting is left for the lobby; the store is kept.
LeaveMeeting(t) ==
  /\ page[t] # None /\ call[t] = NoCall
  /\ page' = [page EXCEPT ![t] = None]
  /\ UNCHANGED <<apiVars, call, store, minted, given, bounds>>

\* The page is reloaded, which empties the store, and what it awaited is lost.
Reload(t) ==
  /\ store[t].kind # "none" \/ call[t] # NoCall
  /\ IF call[t] # NoCall /\ call[t].arrived THEN Spend("losses", MaxLosses) ELSE UNCHANGED bounds
  /\ jobs' = Abandoned(t)
  /\ call' = [call EXCEPT ![t] = NoCall]
  /\ store' = [store EXCEPT ![t] = NoCredentials]
  /\ UNCHANGED <<row, seat, page, minted, given>>

-----------------------------------------------------------------------------
Request(t) == NoAnswer(t) \/ WrongHost(t) \/ Refused(t) \/ TokenIssued(t)

Transaction(j) ==
  JoinEnded(j) \/ RoomUnavailable(j) \/ Commit(j) \/ Conflict(j) \/ AnswerEarly(j)

User(t) ==
  StartMeeting(t) \/ LeaveMeeting(t) \/ Reload(t) \/ \E r \in Rooms : JoinMeeting(t, r) \/ OpenPage(t, r)

Next ==
  \/ \E t \in Tabs : Request(t) \/ CreateArrives(t) \/ JoinArrives(t) \/ User(t)
  \/ \E j \in jobs : Transaction(j)
  \/ \E r \in Rooms : End(r)

Spec == Init /\ [][Next]_vars

-----------------------------------------------------------------------------
(* Properties *)

\* Participants that no page waits for, in the database or on their way there.
Unclaimed ==
  {i \in Ids : seat[i] # None} \cup {j.id : j \in {k \in jobs : k.kind = "join" /\ k.tab = None}}

\* Every participant of the database that no user has is owed to an answer that got lost: joinRoom repeats the POST at the next candidate, which makes another participant
\* (api.ts, the loop of request), or the page was reloaded.  Nothing else leaves one behind:
\* neither the 500 of a room LiveKit cannot provide, nor the 400 of an ended meeting, nor a
\* commit that fails.
SeatsAccounted == Cardinality(Unclaimed \ given) <= bounds.losses

\* A meeting that has a participant has been started: it is ACTIVE, so that the ingress
\* finds it (list_active_rooms), or ENDED, whatever the order in which its creation,
\* answered before the commit, and the joins that found no meeting or a scheduled one
\* were committed.
SeatedIsStarted == \A i \in Ids : seat[i] # None => row[seat[i]] \in {"ACTIVE", "ENDED"}

\* Credentials of a meeting that does not exist are never handed out for good: once no
\* transaction is left for a participant the server has admitted, the meeting is in the
\* database, even when the participant's own transaction, answered before it was
\* committed, failed because another one had inserted the meeting first.
AdmittedToAMeeting ==
  \A t \in Tabs :
    LET mine == store[t] IN
      mine.kind = "real" => row[mine.room] # "absent" \/ \E j \in jobs : j.id = mine.id

\* A participant who was admitted has a seat, once no transaction is left for it (page.tsx:
\* "Populate store with genuine credentials").  It holds where answers wait for the commit
\* and is refuted where they do not (join_early.cfg): createRoom is answered, the join finds
\* no meeting yet and adds it under the same id, and one of the two commits fails.
SeatBehindCredentials ==
  \A t \in Tabs :
    LET mine == store[t] IN
      mine.kind = "real" => seat[mine.id] = mine.room \/ \E j \in jobs : j.id = mine.id
=============================================================================
