------------------------------ MODULE MCRoomTabs ------------------------------
(***************************************************************************)
(* A small instance of RoomTabs.                                           *)
(***************************************************************************)
EXTENDS RoomTabs
=============================================================================
