-------------------------- MODULE MCMinerAccounts --------------------------
(* The node's own miner "a" with three shares of the first epoch and one of  *)
(* the second, and a miner "b" with two of the first.  Shares of one miner   *)
(* and epoch are interchangeable.                                            *)
EXTENDS MinerAccounts, TLC

CONSTANTS a1, a2, a3, a4, b1, b2

MCMiners == {"a", "b"}
MCShares == {a1, a2, a3, a4, b1, b2}
MCMinerOf == [s \in MCShares |-> IF s \in {b1, b2} THEN "b" ELSE "a"]
MCEpochOf == [s \in MCShares |-> IF s = a4 THEN 2 ELSE 1]
MCSymmetry == Permutations({a1, a2, a3}) \cup Permutations({b1, b2})
=============================================================================
