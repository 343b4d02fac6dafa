---------------------------- MODULE MinerAccounts ----------------------------
(***************************************************************************)
(* What a node knows of each miner: the shares credited to it this epoch,  *)
(* its ban, its loyalty and its rewards.  Shares enter through             *)
(* Node.add_share and the share pool; process_epoch_end pays, opens the    *)
(* next epoch and saves every miner with a write of its own, so a kill may *)
(* fall between any two.  Blocks are not modelled here: an epoch may end   *)
(* after any number of shares.                                             *)
(***************************************************************************)
EXTENDS SharePool

CONSTANTS
    Self,       \* the node's own miner
    OldBonds,   \* miners whose bonds earlier wallets left in the database
    Times,      \* share timestamps, in units of PEER_BAN_DURATION_SECS
    MaxTotal,   \* bound: shares counted per miner and epoch
    MaxEpoch,   \* bound: epochs
    MaxCrashes  \* bound: kills that fall inside an epoch end

ASSUME AccountsAssumption ==
    /\ Self \in Miners /\ OldBonds \subseteq Miners
    /\ Times \subseteq Nat
    /\ MaxTotal \in Nat /\ MaxEpoch \in Nat /\ MaxCrashes \in Nat

VARIABLES
    epoch,     \* Node.epoch
    bonded,    \* miners whose bond is active at the node's height
    known,     \* keys of Node.miners
    accounts,  \* Node.miners
    loyalty,   \* Node.loyalty
    pc,        \* "run", or the part of process_epoch_end under way
    todo,      \* miners that part has still to handle
    sEpoch, sKnown, sAccounts, sLoyalty,  \* the database
    crashes,   \* history: kills inside an epoch end
    evicted,   \* history: shares evicted since the miner's credits were zero
    faulty     \* history: miners that ever sent an invalid share

node == <<epoch, bonded, known, accounts, loyalty, pc, todo>>
disk == <<sEpoch, sKnown, sAccounts, sLoyalty>>
history == <<crashes, evicted, faulty>>
vars == <<poolVars, node, disk, history>>

Account == [credited : Nat, bannedUntil : Nat, rewards : Nat]
NewAccount == [credited |-> 0, bannedUntil |-> 0, rewards |-> 0]
Loyalty == [last : Nat, consecutive : Nat, missed : Nat]
NewLoyalty == [last |-> 0, consecutive |-> 0, missed |-> 0]

-----------------------------------------------------------------------------
(* LoyaltyData::update, its decaying value and grace aside.                  *)
(* Variant: the epoch last counted is counted again.                         *)
UpdatedTwice(l, e, participated) ==
    IF e < l.last THEN l
    ELSE [last |-> e,
          consecutive |-> IF participated THEN l.consecutive + 1 ELSE 0,
          missed |-> IF participated THEN 0 ELSE l.missed + (e - l.last)]
Updated(l, e, participated) ==
    IF e <= l.last THEN l
    ELSE [last |-> e,
          consecutive |-> IF participated THEN l.consecutive + 1 ELSE 0,
          missed |-> IF participated THEN 0 ELSE l.missed + (e - l.last)]

(* update_invalid_ratio, with the ratio of the pool after the share: above   *)
(* 30 % a ban of three units of time, above 10 % of one.                     *)
(* Variant: every refused share is punished.                                 *)
BanAlways(m, t, inv, tot) == t + 1
BanAfter(m, t, inv, tot) ==
    CASE 10 * inv[m] > 3 * tot[m] -> t + 3
      [] 10 * inv[m] > tot[m] /\ 10 * inv[m] <= 3 * tot[m] -> t + 1
      [] OTHER -> accounts[m].bannedUntil
Punish(m, t) ==
    IF m \in known
    THEN accounts' = [accounts EXCEPT ![m].bannedUntil = BanAfter(m, t, invalid', total')]
    ELSE UNCHANGED accounts

(* add_share gives the early answer false to a banned or unbonded miner.     *)
Admitted(m, t) ==
    /\ pc = "run"
    /\ ~(m \in known /\ t < accounts[m].bannedUntil)
    /\ m \in bonded

(* The pool answers Ok(false) to a duplicate and to an invalid share.  A     *)
(* share of this epoch is invalid, too, once its prev_hash is not the tip.   *)
InvalidShare(s, t) ==
    /\ Admitted(MinerOf[s], t)
    /\ total[MinerOf[s]] < MaxTotal
    /\ CountInvalid(s)
    /\ faulty' = faulty \cup {MinerOf[s]}
    /\ UNCHANGED <<node, disk, crashes, evicted>>

(* Err: a share of another epoch than the pool's, or over the limit.         *)
RefusedShare(s, v, t) ==
    /\ Admitted(MinerOf[s], t)
    /\ \/ WrongEpoch(s) /\ v = Nobody
       \/ EpochOf[s] = epoch /\ total[MinerOf[s]] < MaxTotal /\ OverLimit(s, v)
    /\ Punish(MinerOf[s], t)
    /\ evicted' = IF v = Nobody THEN evicted ELSE [evicted EXCEPT ![v] = @ + 1]
    /\ UNCHANGED <<epoch, bonded, known, loyalty, pc, todo, disk, crashes, faulty>>

(* Ok(true): the miner is credited, its loyalty counts the epoch.            *)
Credit(s, v) == [accounts EXCEPT ![MinerOf[s]].credited = @ + 1]
AcceptedShare(s, v, t) ==
    /\ Admitted(MinerOf[s], t)
    /\ total[MinerOf[s]] < MaxTotal
    /\ EpochOf[s] = epoch
    /\ Accept(s, v)
    /\ known' = known \cup {MinerOf[s]}
    /\ accounts' = Credit(s, v)
    /\ loyalty' = [loyalty EXCEPT ![MinerOf[s]] = Updated(@, epoch, TRUE)]
    /\ evicted' = IF v = Nobody THEN evicted ELSE [evicted EXCEPT ![v] = @ + 1]
    /\ UNCHANGED <<epoch, bonded, pc, todo, disk, crashes, faulty>>

(* Blocks passed and a bond is no longer active. *)
BondExpires(m) ==
    /\ pc = "run"
    /\ m \in bonded
    /\ bonded' = bonded \ {m}
    /\ UNCHANGED <<poolVars, epoch, known, accounts, loyalty, pc, todo, disk, history>>

-----------------------------------------------------------------------------
(* process_epoch_end.  calculate_poci gives every miner with shares a        *)
(* reward, and one without a reward or nothing, by its loyalty and bond.     *)
EndEpoch ==
    /\ pc = "run" /\ epoch < MaxEpoch
    /\ pc' = "pay"
    /\ \E idle \in SUBSET {m \in known : accounts[m].credited = 0} :
         todo' = idle \cup {m \in known : accounts[m].credited > 0}
    /\ UNCHANGED <<poolVars, epoch, bonded, known, accounts, loyalty, disk, history>>

(* Variant: the miner stays on the list. *)
PayAgain(m) ==
    /\ pc = "pay" /\ m \in todo
    /\ accounts' = [accounts EXCEPT ![m].rewards = @ + 1]
    /\ sAccounts' = [sAccounts EXCEPT ![m] = accounts'[m]]
    /\ sKnown' = sKnown \cup {m}
    /\ todo' \in {todo, todo \ {m}}
    /\ UNCHANGED <<poolVars, epoch, bonded, known, loyalty, pc, sEpoch, sLoyalty, history>>
Pay(m) ==
    /\ pc = "pay" /\ m \in todo
    /\ accounts' = [accounts EXCEPT ![m].rewards = @ + 1]
    /\ sAccounts' = [sAccounts EXCEPT ![m] = accounts'[m]]
    /\ sKnown' = sKnown \cup {m}
    /\ todo' = todo \ {m}
    /\ UNCHANGED <<poolVars, epoch, bonded, known, loyalty, pc, sEpoch, sLoyalty, history>>

(* Variant: the pool is left alone. *)
OpenEpochKeepsPool ==
    /\ pc = "pay" /\ todo = {}
    /\ epoch' = epoch + 1
    /\ pc' = "loyalty" /\ todo' = known
    /\ UNCHANGED <<poolVars, bonded, known, accounts, loyalty, disk, history>>

OpenEpoch ==
    /\ pc = "pay" /\ todo = {}
    /\ NewEpoch
    /\ epoch' = epoch + 1
    /\ pc' = "loyalty" /\ todo' = known
    /\ UNCHANGED <<bonded, known, accounts, loyalty, disk, history>>

(* The completed epoch, for those who took part and those who did not.       *)
(* Variant: the epoch just opened is counted.                                *)
CountLoyaltyNew(m) ==
    /\ pc = "loyalty" /\ m \in todo
    /\ loyalty' = [loyalty EXCEPT ![m] = Updated(@, epoch, accounts[m].credited > 0)]
    /\ sLoyalty' = [sLoyalty EXCEPT ![m] = loyalty'[m]]
    /\ todo' = todo \ {m}
    /\ UNCHANGED <<poolVars, epoch, bonded, known, accounts, pc,
                   sEpoch, sKnown, sAccounts, history>>
CountLoyalty(m) ==
    /\ pc = "loyalty" /\ m \in todo
    /\ loyalty' = [loyalty EXCEPT ![m] = Updated(@, epoch - 1, accounts[m].credited > 0)]
    /\ sLoyalty' = [sLoyalty EXCEPT ![m] = loyalty'[m]]
    /\ todo' = todo \ {m}
    /\ UNCHANGED <<poolVars, epoch, bonded, known, accounts, pc,
                   sEpoch, sKnown, sAccounts, history>>
LoyaltyDone ==
    /\ pc = "loyalty" /\ todo = {}
    /\ pc' = "reset" /\ todo' = known
    /\ UNCHANGED <<poolVars, epoch, bonded, known, accounts, loyalty, disk, history>>

ResetShares(m) ==
    /\ pc = "reset" /\ m \in todo
    /\ accounts' = [accounts EXCEPT ![m].credited = 0]
    /\ sAccounts' = [sAccounts EXCEPT ![m] = accounts'[m]]
    /\ sKnown' = sKnown \cup {m}
    /\ todo' = todo \ {m}
    /\ evicted' = [evicted EXCEPT ![m] = 0]
    /\ UNCHANGED <<poolVars, epoch, bonded, known, loyalty, pc,
                   sEpoch, sLoyalty, crashes, faulty>>

SaveEpoch ==
    /\ pc = "reset" /\ todo = {}
    /\ sEpoch' = epoch
    /\ pc' = "run"
    /\ UNCHANGED <<poolVars, epoch, bonded, known, accounts, loyalty, todo,
                   sKnown, sAccounts, sLoyalty, history>>

-----------------------------------------------------------------------------
(* add_bond, which a node that mines calls for its own miner: the new bond   *)
(* replaces an old one, expired or not, unless it is below the minimum.      *)
Rebonded == {bonded, bonded \cup {Self}}

(* A kill, and the node's next start: miners, loyalty and epoch as saved,    *)
(* the pool new.                                                             *)
Restart ==
    /\ pc = "run" \/ crashes < MaxCrashes
    /\ crashes' = IF pc = "run" THEN crashes ELSE crashes + 1
    /\ FreshPool
    /\ epoch' = sEpoch
    /\ known' = sKnown
    /\ accounts' = [m \in Miners |-> IF m \in sKnown THEN sAccounts[m] ELSE NewAccount]
    /\ loyalty' = sLoyalty
    /\ bonded' \in Rebonded
    /\ pc' = "run" /\ todo' = {}
    /\ evicted' = Zeroes
    /\ UNCHANGED <<disk, faulty>>

Init ==
    /\ PoolInit
    /\ epoch = 1 /\ bonded = OldBonds \cup {Self}
    /\ known = {} /\ accounts = [m \in Miners |-> NewAccount]
    /\ loyalty = [m \in Miners |-> NewLoyalty]
    /\ pc = "run" /\ todo = {}
    /\ sEpoch = 1 /\ sKnown = {}
    /\ sAccounts = [m \in Miners |-> NewAccount]
    /\ sLoyalty = [m \in Miners |-> NewLoyalty]
    /\ crashes = 0 /\ evicted = Zeroes /\ faulty = {}

Next ==
    \/ \E s \in Shares, t \in Times : InvalidShare(s, t)
    \/ \E s \in Shares, v \in Miners \cup {Nobody}, t \in Times :
         RefusedShare(s, v, t) \/ AcceptedShare(s, v, t)
    \/ \E m \in Miners : BondExpires(m)
    \/ EndEpoch
    \/ \E m \in Miners : Pay(m) \/ CountLoyalty(m) \/ ResetShares(m)
    \/ OpenEpoch
    \/ LoyaltyDone
    \/ SaveEpoch
    \/ Restart

Spec == Init /\ [][Next]_vars

-----------------------------------------------------------------------------
(* Properties.                                                               *)

(* Every variable holds a value of its kind. *)
AccountsTypeOK ==
    /\ PoolTypeOK
    /\ epoch \in Nat /\ sEpoch \in Nat /\ crashes \in Nat
    /\ bonded \subseteq Miners /\ known \subseteq Miners /\ todo \subseteq Miners
    /\ sKnown \subseteq Miners /\ faulty \subseteq Miners
    /\ accounts \in [Miners -> Account] /\ sAccounts \in [Miners -> Account]
    /\ loyalty \in [Miners -> Loyalty] /\ sLoyalty \in [Miners -> Loyalty]
    /\ evicted \in [Miners -> Nat]
    /\ pc \in {"run", "pay", "loyalty", "reset"}

(* A miner is credited for the shares the pool stores and those it evicted,  *)
(* no more and no less, unless a kill fell inside an epoch end: the counters *)
(* of the pool and of Node.miners are kept by different code and reset at    *)
(* different steps of process_epoch_end.                                     *)
CreditsAreShares ==
    (pc = "run" /\ crashes = 0) =>
        \A m \in Miners : accounts[m].credited = shareCount[m] + evicted[m]

(* Loyalty counts an epoch at most once, as taken part or as missed, through *)
(* kills that make the node end the same epoch again.                        *)
LoyaltyCountsOnce ==
    \A m \in Miners :
        loyalty[m].consecutive + loyalty[m].missed <= loyalty[m].last

(* Saved loyalty is never ahead of the saved epoch: process_epoch_end saves  *)
(* it for the completed epoch before it saves the next one, and a restart in *)
(* between must not make update() skip an epoch.                             *)
SavedLoyaltyNotAhead == \A m \in Miners : sLoyalty[m].last <= sEpoch

(* An epoch pays a miner once, and once more for every kill inside an epoch  *)
(* end.                                                                      *)
PaidOncePerEpoch ==
    \A m \in Miners :
        accounts[m].rewards
            <= (epoch - 1) + crashes + (IF pc = "pay" /\ m \notin todo THEN 1 ELSE 0)

(* A miner whose every share was valid when it came is never banned, however *)
(* many were refused for the epoch or the limit.                             *)
FaultlessNotBanned ==
    \A m \in Miners \ faulty : accounts[m].bannedUntil = 0 /\ sAccounts[m].bannedUntil = 0

(* Shares exceeding MAX_SHARES_PER_MINER_PER_EPOCH are ignored: no miner is  *)
(* credited more in an epoch.                                                *)
CreditWithinLimit ==
    crashes = 0 => \A m \in Miners : accounts[m].credited <= MaxPerMiner
=============================================================================
