----------------------------- MODULE EpochCycle -----------------------------
(***************************************************************************)
(* The epoch cycle of the library files: EpochManager (epoch.rs) with the  *)
(* shares of its epoch (share.rs) and its registry of miners (miner.rs).   *)
(* No `mod` declaration of main.rs reaches these files; main.rs has an     *)
(* epoch end of its own, which MinerAccounts models.                       *)
(*                                                                         *)
(* Callers give add_block the heights 0, 1, 2, ... in turn and timestamps  *)
(* above the median, and use the registry through miner_registry_mut.      *)
(* Loyalty, a float in the code, is counted in parts of Unit.              *)
(***************************************************************************)
EXTENDS Integers, Sequences, FiniteSets

CONSTANTS
    Miners,
    Shares,     \* share packets; MinerOf and EpochOf are what they name
    MinerOf, EpochOf,
    EpochBlocks,    \* EPOCH_BLOCKS
    PerMiner,       \* the limit of a miner's shares: 5000
    MinimumBond,    \* MINIMUM_BOND_LYT
    Lockup,         \* BOND_LOCKUP_BLOCKS
    MinData,        \* shares below which check_bans has not enough data: 10
    BanEpochs,      \* 3
    Grace,          \* missed epochs that halve the loyalty: 3
    Unit,           \* a loyalty of 1.0
    Wrap            \* 2^32, of the u32 subtraction of a release build

(* What the theorems assume of the constants.                                *)
CycleAssumption ==
    /\ MinerOf \in [Shares -> Miners] /\ EpochOf \in [Shares -> Nat]
    /\ {EpochBlocks, PerMiner, Unit, Wrap} \subseteq Nat \ {0}
    /\ {MinimumBond, Lockup, MinData, BanEpochs, Grace} \subseteq Nat

VARIABLES
    current,    \* EpochManager.current_epoch
    epochs,     \* EpochManager.epochs, 1 to current
    labels,     \* the epoch_index of each block added: block_heights
    pool,       \* EpochShares.shares
    hashes,     \* EpochShares.share_hashes
    count,      \* EpochShares.share_count
    infos,      \* MinerRegistry.miners
    bonds,      \* MinerRegistry.bonds
    regEpoch,   \* MinerRegistry.current_epoch
    regHeight   \* MinerRegistry.current_height

chain == <<current, epochs, labels>>
shares == <<pool, hashes, count>>
registry == <<infos, bonds, regEpoch, regHeight>>
vars == <<current, epochs, labels, pool, hashes, count,
          infos, bonds, regEpoch, regHeight>>

Epoch == [start : Nat, end : Nat, ended : BOOLEAN, shares : Nat, active : Nat]
Info == [shares : Nat, loyalty : Nat, bond : Nat, invalid : Nat, total : Nat, last : Nat]
Bond == [amount : Nat, until : Nat]

NewEpoch(start) == [start |-> start, end |-> start + EpochBlocks - 1, ended |-> FALSE,
                    shares |-> 0, active |-> 0]
Contains(e, h) == h >= e.start /\ h <= e.end
NewInfo == [shares |-> 0, loyalty |-> 0, bond |-> 0, invalid |-> 0, total |-> 0, last |-> 0]
InfoOf(m) == IF m \in DOMAIN infos THEN infos[m] ELSE NewInfo
With(f, k, v) == [j \in DOMAIN f \cup {k} |-> IF j = k THEN v ELSE f[j]]

-----------------------------------------------------------------------------
(* EpochManager::add_share and EpochShares::add_share.  A share of another   *)
(* epoch, a repeated one and one above the limit change nothing.             *)
OfCurrentEpoch(s) == EpochOf[s] = current
Stored(m) == IF m \in DOMAIN pool THEN pool[m] ELSE <<>>

AddShare(s) ==
    /\ OfCurrentEpoch(s)
    /\ s \notin hashes
    /\ Len(Stored(MinerOf[s])) < PerMiner
    /\ pool' = With(pool, MinerOf[s], Append(Stored(MinerOf[s]), s))
    /\ hashes' = hashes \cup {s}
    /\ count' = count + 1
    /\ UNCHANGED <<chain, registry>>

-----------------------------------------------------------------------------
(* The registry, as its caller uses it during an epoch.                      *)

AddValidShare(m) ==
    /\ infos' = With(infos, m, [InfoOf(m) EXCEPT !.shares = @ + 1, !.total = @ + 1,
                                                 !.last = regEpoch])
    /\ UNCHANGED <<chain, shares, bonds, regEpoch, regHeight>>

AddInvalidShare(m) ==
    /\ infos' = With(infos, m, [InfoOf(m) EXCEPT !.invalid = @ + 1, !.total = @ + 1,
                                                 !.last = regEpoch])
    /\ UNCHANGED <<chain, shares, bonds, regEpoch, regHeight>>

AddBond(m, amount) ==
    /\ amount >= MinimumBond
    /\ LET list == IF m \in DOMAIN bonds THEN bonds[m] ELSE <<>>
       IN  bonds' = With(bonds, m, Append(list, [amount |-> amount, until |-> regHeight + Lockup]))
    /\ infos' = With(infos, m, [InfoOf(m) EXCEPT !.bond = @ + amount])
    /\ UNCHANGED <<chain, shares, regEpoch, regHeight>>

SetHeight(h) ==
    /\ regHeight' = h
    /\ UNCHANGED <<chain, shares, infos, bonds, regEpoch>>

-----------------------------------------------------------------------------
(* MinerRegistry::next_epoch, for the registry's epoch e after the step.     *)

(* update_loyalty.                                                           *)
Missed(i, e) == (e - i.last) % Wrap
Halved(l) == l \div 2
Decayed(l) == LET kept == (7 * l) \div 10
                  half == Unit * ((l \div 2) \div Unit)
              IN  IF kept > half THEN kept ELSE half
LoyaltyAfter(i, e) ==
    IF i.last = e THEN i.loyalty + Unit
    ELSE IF Missed(i, e) <= Grace THEN Halved(i.loyalty) ELSE Decayed(i.loyalty)

(* cleanup_expired_bonds: the total follows only if the sum has changed.     *)
Locked(list) == SelectSeq(list, LAMBDA b : b.until > regHeight)
Total(list) == LET sum[n \in 0..Len(list)] ==
                       IF n = 0 THEN 0 ELSE sum[n - 1] + list[n].amount
               IN  sum[Len(list)]
BondAfter(m) ==
    IF m \in DOMAIN bonds /\ Total(bonds[m]) # Total(Locked(bonds[m]))
    THEN Total(Locked(bonds[m])) ELSE infos[m].bond
BondsAfter ==
    [m \in {n \in DOMAIN bonds : Locked(bonds[n]) # <<>>} |-> Locked(bonds[m])]

(* check_bans, on counters that no epoch resets, and ban_miner.              *)
ToBan == {m \in DOMAIN infos :
            infos[m].total >= MinData /\ 10 * infos[m].invalid > 3 * infos[m].total}

InfoAfter(m, e) ==
    [infos[m] EXCEPT
        !.loyalty = IF m \in ToBan THEN 0 ELSE LoyaltyAfter(infos[m], e),
        !.last = IF m \in ToBan THEN e + BanEpochs ELSE @,
        !.bond = BondAfter(m)]

NextRegistryEpoch ==
    /\ regEpoch' = regEpoch + 1
    /\ infos' = [m \in DOMAIN infos |-> InfoAfter(m, regEpoch + 1)]
    /\ bonds' = BondsAfter
    /\ UNCHANGED regHeight

(* Epoch::end and Epoch::update_stats.                                       *)
Ended(e) == [e EXCEPT !.ended = TRUE, !.shares = count, !.active = Cardinality(DOMAIN pool)]

(* end_current_epoch, at the block of height h.  The next epoch starts above *)
(* it.  Rewards are printed and kept nowhere.                                *)
EndEpoch(h) ==
    /\ epochs' = [e \in 1..(current + 1) |->
            IF e = current + 1 THEN NewEpoch(h + 1)
            ELSE IF e = current THEN Ended(epochs[e]) ELSE epochs[e]]
    /\ current' = current + 1
    /\ pool' = <<>> /\ hashes' = {} /\ count' = 0
    /\ NextRegistryEpoch

(* add_block, for a header of the current epoch; any other is refused.       *)
AddBlock ==
    /\ labels' = Append(labels, current)
    /\ IF Len(labels') % EpochBlocks = 0 THEN EndEpoch(Len(labels))
       ELSE UNCHANGED <<current, epochs, shares, registry>>

(* EpochManager::new.                                                        *)
Init ==
    /\ current = 1 /\ epochs = [e \in {1} |-> NewEpoch(0)] /\ labels = <<>>
    /\ pool = <<>> /\ hashes = {} /\ count = 0
    /\ infos = <<>> /\ bonds = <<>> /\ regEpoch = 0 /\ regHeight = 0

Next ==
    \/ AddBlock
    \/ \E s \in Shares : AddShare(s)
    \/ \E m \in Miners : AddValidShare(m) \/ AddInvalidShare(m)
    \/ \E m \in Miners, amount \in Nat : AddBond(m, amount)
    \/ \E h \in Nat : SetHeight(h)

Spec == Init /\ [][Next]_vars

-----------------------------------------------------------------------------
(* Properties.                                                               *)

(* The epochs of the manager tile the heights: each starts where the one     *)
(* before it ends, and although add_block compares the header's epoch and    *)
(* counts blocks modulo EPOCH_BLOCKS and never looks at the bounds, every    *)
(* block lies in the epoch that its header names.                            *)
BlocksInTheirEpoch ==
    /\ \A e \in 2..current : epochs[e].start = epochs[e - 1].end + 1
    /\ \A i \in DOMAIN labels : labels[i] \in 1..current /\ Contains(epochs[labels[i]], i - 1)

(* The registry's epoch is one less than the manager's, always: they start   *)
(* at 0 and 1 and only end_current_epoch moves either.                       *)
RegistryLagsByOne == regEpoch + 1 = current

(* The shares kept are of the current epoch, each under its own miner and    *)
(* within the limit, and the count is that of distinct shares, whatever was  *)
(* repeated, refused or left over from the epoch before.                     *)
SharesOfEpoch ==
    /\ \A s \in hashes : EpochOf[s] = current
    /\ \A m \in DOMAIN pool :
         /\ Len(pool[m]) <= PerMiner
         /\ \A i \in DOMAIN pool[m] : pool[m][i] \in hashes /\ MinerOf[pool[m][i]] = m
    /\ count = Cardinality(hashes)

(* next_epoch raises the epoch before update_loyalty compares it with the    *)
(* epoch a miner last took part in, and a miner whose ban carries that epoch *)
(* ahead is banned again before the two meet: no miner ever has any loyalty, *)
(* however many epochs it takes part in.                                     *)
LoyaltyNeverEarned == \A m \in DOMAIN infos : infos[m].loyalty = 0
=============================================================================
