------------------------------ MODULE MCGossip ------------------------------
(* Instance: one attestor, with up to two connections.                     *)
EXTENDS Gossip

CONSTANTS a
MCPeers == {a}
=============================================================================
