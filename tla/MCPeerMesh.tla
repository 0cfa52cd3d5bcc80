------------------------------ MODULE MCPeerMesh ------------------------------
(***************************************************************************)
(* A small instance of PeerMesh: links are independent of one another, so  *)
(* two tabs show what can happen between any two.                          *)
(***************************************************************************)
EXTENDS PeerMesh

TwoPeers == {1, 2}

Ten == 1 .. 10
=============================================================================
