------------------------------ MODULE SharePool ------------------------------
(***************************************************************************)
(* SharePool: the shares of the current epoch, kept per miner under a      *)
(* memory limit.  A share is identified by its share_hash, which covers    *)
(* its miner and its header, so both are functions of the share.           *)
(***************************************************************************)
EXTENDS Integers, Sequences, FiniteSets

CONSTANTS
    Miners,
    Nobody,       \* in the place of an eviction's victim: no room was made
    Shares,       \* share hashes
    MinerOf,      \* MinerOf[s]: share.miner_id
    EpochOf,      \* EpochOf[s]: share.header.epoch_index
    MaxPerMiner,  \* MAX_SHARES_PER_MINER_PER_EPOCH
    Capacity      \* shares that fit in max_memory_bytes

ASSUME PoolAssumption ==
    /\ Nobody \notin Miners
    /\ MinerOf \in [Shares -> Miners]
    /\ EpochOf \in [Shares -> Nat]
    /\ MaxPerMiner \in Nat
    /\ Capacity \in Nat \ {0}

VARIABLES
    shares,      \* per miner, oldest first
    shareCount,  \* share_count
    hashes,      \* share_hashes
    invalid,     \* invalid_shares
    total,       \* total_shares
    memoryUsed,  \* memory_used, in shares
    poolEpoch    \* current_epoch

poolVars == <<shares, shareCount, hashes, invalid, total, memoryUsed, poolEpoch>>

Elements(q) == {q[i] : i \in DOMAIN q}
Zeroes == [m \in Miners |-> 0]

-----------------------------------------------------------------------------
(* evict_oldest looks for a miner with the most shares, in map order, and    *)
(* finds none in an empty pool.                                              *)
Largest ==
    {m \in Miners : shares[m] # <<>> /\ \A n \in Miners : Len(shares[n]) <= Len(shares[m])}
LargestOrNone == IF Largest = {} THEN {Nobody} ELSE Largest

(* Variant: the limit is tested without the share that arrives. *)
VictimsLate == IF memoryUsed > Capacity THEN LargestOrNone ELSE {Nobody}

(* The miners a valid share may push a share of out. *)
Victims == IF memoryUsed + 1 > Capacity THEN LargestOrNone ELSE {Nobody}

(* Variant: the evicted share's hash stays known. *)
HashesKept(v) == hashes

(* The pool without the oldest share of v. *)
SharesWithout(v) == IF v = Nobody THEN shares ELSE [shares EXCEPT ![v] = Tail(@)]
CountWithout(v) == IF v = Nobody THEN shareCount ELSE [shareCount EXCEPT ![v] = @ - 1]
HashesWithout(v) == IF v = Nobody THEN hashes ELSE hashes \ {Head(shares[v])}
MemoryWithout(v) == IF v = Nobody THEN memoryUsed ELSE memoryUsed - 1

(* add_share, one operator per outcome.                                      *)
WrongEpoch(s) == EpochOf[s] # poolEpoch /\ UNCHANGED poolVars
Duplicate(s) == EpochOf[s] = poolEpoch /\ s \in hashes /\ UNCHANGED poolVars
NovelUnchecked(s) == EpochOf[s] = poolEpoch  \* variant: duplicates are taken
Novel(s) == EpochOf[s] = poolEpoch /\ s \notin hashes

(* Variant: an invalid share is not counted in the total. *)
CountInvalidOnly(s) ==
    /\ Novel(s)
    /\ invalid' = [invalid EXCEPT ![MinerOf[s]] = @ + 1]
    /\ UNCHANGED <<shares, shareCount, hashes, total, memoryUsed, poolEpoch>>
CountInvalid(s) ==
    /\ Novel(s)
    /\ total' = [total EXCEPT ![MinerOf[s]] = @ + 1]
    /\ invalid' = [invalid EXCEPT ![MinerOf[s]] = @ + 1]
    /\ UNCHANGED <<shares, shareCount, hashes, memoryUsed, poolEpoch>>

(* Over the limit: refused after the total is counted and room was made.     *)
OverLimit(s, v) ==
    /\ Novel(s) /\ v \in Victims
    /\ CountWithout(v)[MinerOf[s]] >= MaxPerMiner
    /\ total' = [total EXCEPT ![MinerOf[s]] = @ + 1]
    /\ shares' = SharesWithout(v)
    /\ shareCount' = CountWithout(v)
    /\ hashes' = HashesWithout(v)
    /\ memoryUsed' = MemoryWithout(v)
    /\ UNCHANGED <<invalid, poolEpoch>>

(* Variant: one share too many is taken. *)
AcceptOneMore(s, v) ==
    /\ Novel(s) /\ v \in Victims
    /\ CountWithout(v)[MinerOf[s]] <= MaxPerMiner
    /\ total' = [total EXCEPT ![MinerOf[s]] = @ + 1]
    /\ shares' = [SharesWithout(v) EXCEPT ![MinerOf[s]] = Append(@, s)]
    /\ shareCount' = [CountWithout(v) EXCEPT ![MinerOf[s]] = @ + 1]
    /\ hashes' = HashesWithout(v) \cup {s}
    /\ memoryUsed' = MemoryWithout(v) + 1
    /\ UNCHANGED <<invalid, poolEpoch>>

Accept(s, v) ==
    /\ Novel(s) /\ v \in Victims
    /\ CountWithout(v)[MinerOf[s]] < MaxPerMiner
    /\ total' = [total EXCEPT ![MinerOf[s]] = @ + 1]
    /\ shares' = [SharesWithout(v) EXCEPT ![MinerOf[s]] = Append(@, s)]
    /\ shareCount' = [CountWithout(v) EXCEPT ![MinerOf[s]] = @ + 1]
    /\ hashes' = HashesWithout(v) \cup {s}
    /\ memoryUsed' = MemoryWithout(v) + 1
    /\ UNCHANGED <<invalid, poolEpoch>>

(* SharePool::new, with the first epoch whatever the node's epoch is. *)
FreshPool ==
    /\ shares' = [m \in Miners |-> <<>>]
    /\ shareCount' = Zeroes /\ invalid' = Zeroes /\ total' = Zeroes
    /\ hashes' = {} /\ memoryUsed' = 0
    /\ poolEpoch' = 1

(* Variant: the counts are cleared, the stored shares are not. *)
NewEpochKeepsShares ==
    /\ shareCount' = Zeroes /\ invalid' = Zeroes /\ total' = Zeroes
    /\ poolEpoch' = poolEpoch + 1
    /\ UNCHANGED <<shares, hashes, memoryUsed>>

NewEpoch ==
    /\ shares' = [m \in Miners |-> <<>>]
    /\ shareCount' = Zeroes /\ invalid' = Zeroes /\ total' = Zeroes
    /\ hashes' = {} /\ memoryUsed' = 0
    /\ poolEpoch' = poolEpoch + 1

PoolInit ==
    /\ shares = [m \in Miners |-> <<>>]
    /\ shareCount = Zeroes /\ invalid = Zeroes /\ total = Zeroes
    /\ hashes = {} /\ memoryUsed = 0
    /\ poolEpoch = 1

(* Everything a pool's user may do with it. *)
PoolNext ==
    \/ \E s \in Shares : WrongEpoch(s) \/ Duplicate(s) \/ CountInvalid(s)
    \/ \E s \in Shares, v \in Miners \cup {Nobody} : OverLimit(s, v) \/ Accept(s, v)
    \/ NewEpoch
    \/ FreshPool

PoolSpec == PoolInit /\ [][PoolNext]_poolVars

-----------------------------------------------------------------------------
(* Every field holds a value of its type; in particular no counter that the  *)
(* code decrements (u64 and usize) has gone below zero.                      *)
PoolTypeOK ==
    /\ shares \in [Miners -> Seq(Shares)]
    /\ shareCount \in [Miners -> Nat]
    /\ hashes \in SUBSET Shares
    /\ invalid \in [Miners -> Nat]
    /\ total \in [Miners -> Nat]
    /\ memoryUsed \in Nat
    /\ poolEpoch \in Nat

(* share_count is the length of the miner's vector: rewards by count are     *)
(* rewards by stored shares, and evict_oldest never takes one from zero.     *)
CountsMatch == \A m \in Miners : shareCount[m] = Len(shares[m])

(* share_hashes knows exactly the stored shares: a stored share is not taken *)
(* twice, an evicted one is not remembered, none survives its epoch.         *)
HashesMatch == hashes = UNION {Elements(shares[m]) : m \in Miners}

(* No share is stored twice, nor under another miner's name.                 *)
StoredOnce ==
    \A m \in Miners :
        /\ \A i \in DOMAIN shares[m] : MinerOf[shares[m][i]] = m
        /\ \A i, j \in DOMAIN shares[m] : i # j => shares[m][i] # shares[m][j]

(* memory_used is what the stored shares take, and within the limit, through *)
(* evictions that are followed by a refusal as well.                         *)
MemoryMatches ==
    /\ IsFiniteSet(hashes)
    /\ memoryUsed = Cardinality(hashes)
    /\ memoryUsed <= Capacity

(* No miner holds more shares than the limit of an epoch.                    *)
WithinMinerLimit == \A m \in Miners : Len(shares[m]) <= MaxPerMiner

(* Each stored share and each invalid one was counted in the total, so that  *)
(* invalid_ratio stays within [0, 1].                                        *)
TotalsCover == \A m \in Miners : invalid[m] + shareCount[m] <= total[m]
=============================================================================
