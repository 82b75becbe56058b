------------------------------ MODULE MCPeers ------------------------------
(* Peers with two programs and two turns at a time. *)
EXTENDS Peers
=============================================================================
