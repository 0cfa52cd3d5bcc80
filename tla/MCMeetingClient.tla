--------------------------- MODULE MCMeetingClient ---------------------------
(***************************************************************************)
(* Small instances of MeetingClient: with as many socket objects as calls  *)
(* of connect() may overlap, one is always free for a call or a timer.     *)
(***************************************************************************)
EXTENDS MeetingClient

CONSTANTS s1, s2, s3   \* model values

ThreeSockets == {s1, s2, s3}
=============================================================================
