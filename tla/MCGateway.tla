------------------------------ MODULE MCGateway ------------------------------
(***************************************************************************)
(* Small instances of Gateway.  Where every participant connects once, a   *)
(* participant stands for its connection too, which makes the instance     *)
(* symmetric in the participants.                                          *)
(***************************************************************************)
EXTENDS Gateway, TLC

CONSTANTS p1, p2, p3, c1, c2, c3   \* model values

Trio     == {p1, p2, p3}
Duo      == {p1, p2}
Itself   == [p \in Participants |-> p]
AnyOrder == Permutations(Participants)

\* The state without versions and what is recorded under them: no guard reads
\* them and neither does a property about who is where.
Unversioned ==
  <<room, presence, hazy, pc, todo, link, chats, errorVars,
    [c \in Conns |-> <<frame[c].kind, frame[c].who, view[c].parts>>]>>

\* p1 has a second connection, p2 watches.
Again      == {c1, c2, c3}
Reconnects == (c1 :> p1) @@ (c2 :> p1) @@ (c3 :> p2)
AgainOnly  == {c1, c2}
AloneTwice == (c1 :> p1) @@ (c2 :> p1)
=============================================================================
