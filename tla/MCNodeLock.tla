----------------------------- MODULE MCNodeLock -----------------------------
(* Two reading requests and a writing one; the readers are interchangeable,  *)
(* but liveness is checked, so no symmetry is used.                          *)
EXTENDS NodeLock

MCRequests == {"info", "peers", "transaction"}
MCWriting == {"transaction"}
=============================================================================
