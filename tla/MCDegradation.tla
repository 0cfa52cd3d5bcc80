---------------------------- MODULE MCDegradation ----------------------------
(***************************************************************************)
(* Small instances of Degradation.                                         *)
(***************************************************************************)
EXTENDS Degradation, TLC

CONSTANTS m1, m2, s1, t1, t2   \* model values

One == {m1}
Two == {m1, m2}

\* Nothing tells one meeting from another.
SameMeetings == Permutations(Two)

\* A recognizer and two synthesizers.
Fleet == {s1, t1, t2}
FleetTypes == (s1 :> "stt") @@ (t1 :> "tts") @@ (t2 :> "tts")

Pair == {s1, t1}
PairTypes == (s1 :> "stt") @@ (t1 :> "tts")

Single == {t1}
SingleType == [w \in Single |-> "tts"]

\* A supposition, for tier_caught_up.cfg alone: a caller that updates the state
\* of every meeting again and again, while time goes on.  The daemon has none.
UpdatedForever ==
  /\ FlowSpec
  /\ \A m \in Meetings : WF_flowVars(UpdatePipelineState(m))
  /\ WF_flowVars(Tick)
=============================================================================
