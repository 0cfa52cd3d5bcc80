----------------------------- MODULE MCLocalMedia -----------------------------
(***************************************************************************)
(* A small instance of LocalMedia.                                         *)
(***************************************************************************)
EXTENDS LocalMedia, TLC

CONSTANTS t1, t2, t3, t4, k1, k2, k3, k4

FourTracks == {t1, t2, t3, t4}

FourClicks == {k1, k2, k3, k4}

\* Tracks and clicks have no order.
AnyOrder == Permutations(FourTracks) \cup Permutations(FourClicks)
=============================================================================
