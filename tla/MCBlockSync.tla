---------------------------- MODULE MCBlockSync ----------------------------
(***************************************************************************)
(* Two peers for TLC.  The first block of p1 names the zero hash, which    *)
(* verify_and_accept_blocks wants at height 1; that of p2 follows the      *)
(* genesis block, which the Block handler wants.  p2 announces an id that  *)
(* the node does not find again.                                           *)
(***************************************************************************)
EXTENDS BlockSync, TLC

CONSTANTS p1, p2

MCPeers == {p1, p2}
MCChain == (p1 :> <<"z", "a", "a">>) @@ (p2 :> <<"g">>)
MCZeroFirst == {<<"z">>}
MCEcho == {p1}
MCSkewed == {p1}
=============================================================================
