-------------------------- MODULE MCStreamPipeline --------------------------
(***************************************************************************)
(* Small instances of StreamPipeline.  Groups are strings named after the  *)
(* consumer groups of packages/config/settings.py.                         *)
(***************************************************************************)
EXTENDS StreamPipelineInv, TLC

CONSTANTS s1, s2, w1, w2   \* model values

\* audio stream, STT group: the payload is read with dict.get, so retried
\* payloads are accepted; two workers share the group.
AudioGroups   == {"stt"}
AudioGroupOf  == [w \in {w1, w2} |-> "stt"]
AudioSolo     == [w \in {w1} |-> "stt"]
AudioOutputs  == [g \in AudioGroups |-> [s \in {s1, s2} |-> {2}]]
AudioOnePer   == [g \in AudioGroups |-> [s \in {s1, s2} |-> {1}]]
OneSegOutputs == [g \in AudioGroups |-> [s \in {s1} |-> {1}]]

\* transcripts stream, two of its strict groups with one worker each; the
\* assistant ignores partial transcripts, here s2.
TextGroups    == {"nmt", "assistant"}
TextGroupOf   == (w1 :> "nmt") @@ (w2 :> "assistant")
TextOutputs   ==
  [g \in TextGroups |-> IF g = "nmt" THEN (s1 :> {2}) @@ (s2 :> {1})
                                     ELSE (s1 :> {1}) @@ (s2 :> {0})]
TextOneSeg    == [g \in TextGroups |-> [s \in {s1} |-> {1}]]
PoisonStt     == {<<"stt", s1>>}
PoisonNone    == {}
StrictNone    == {}
=============================================================================
