--------------------------- MODULE MCAudioIngress ---------------------------
(***************************************************************************)
(* Small instances of AudioIngress: p1 has two tracks.  Lengths are in     *)
(* units of half a frame: the padding is a frame, the least speech a frame *)
(* and a half and the silence that ends an utterance a frame, so that, as  *)
(* with the values of vad.py, what silence ends is never a burst.  A unit  *)
(* is two ticks; the time of the fourth frame's end is a tick short.       *)
(***************************************************************************)
EXTENDS AudioIngress

CONSTANTS p1, p2, t1, t2, t3   \* model values

\* With p2, t3 is the track of another participant.
OwnerOf == [t \in Tracks |-> IF t = t3 THEN p2 ELSE p1]
=============================================================================
