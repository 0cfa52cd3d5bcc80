------------------------------ MODULE MCJoinFlow ------------------------------
(***************************************************************************)
(* TLC instance of JoinFlow.                                               *)
(***************************************************************************)
EXTENDS JoinFlow, TLC

\* Tabs, meetings and participants have no names that matter.
AnyNames ==
  {t @@ r @@ i : t \in Permutations(Tabs), r \in Permutations(Rooms), i \in Permutations(Ids)}
=============================================================================
