--------------------------- MODULE MCNodeArchive ---------------------------
(***************************************************************************)
(* Targets of four digits below four, for TLC.  The genesis block's is so  *)
(* low that two slow intervals reach Floor, which takes the program some   *)
(* fifty; as there, Target::genesis has a zero in front.                   *)
(***************************************************************************)
EXTENDS NodeArchive

MCFirstTarget == <<0, 1, 2, 2>>
MCEasiestTarget == <<0, 3, 3, 3>>
=============================================================================
