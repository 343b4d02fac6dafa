---------------------------- MODULE MCPeerTable ----------------------------
(***************************************************************************)
(* Three addresses and room for two connections, for TLC.  The windows are *)
(* one and two units of time long, so that a minute passes within an hour. *)
(***************************************************************************)
EXTENDS PeerTable, TLC

CONSTANTS a1, a2, a3

MCAddrs == {a1, a2, a3}
MCBootnodes == {a1}
MCCallers == {a2}
=============================================================================
