----------------------------- MODULE NodeLedger -----------------------------
(***************************************************************************)
(* The ledger a node keeps: the chain, the UTXO set, the mempool and the   *)
(* epoch counter, in the memory of `Node` and in RocksDB.                  *)
(*                                                                         *)
(* Every put of the program is a write of its own (no batch), so a kill    *)
(* may fall between any two of them.  The handlers that write several      *)
(* keys are therefore split at their writes: `pc` says which write the     *)
(* node is about to do.  Names that start with "s" are what the database   *)
(* holds; the other names are fields of Node, lost in a kill.              *)
(***************************************************************************)
EXTENDS Naturals, FiniteSets, SequencesExt

CONSTANTS
    Txs,          \* transactions that pass every check not depending on state
    Inputs,       \* Inputs[t]: the outpoints t spends, in order
    Output,       \* Output[t]: the outpoint t creates
    Fee,          \* Fee[t]: its fee while all its inputs are unspent
    BlockCap,     \* how many mempool transactions fit a 1 MB block
    MempoolMax,   \* config.advanced.max_mempool_size
    EpochBlocks,  \* EPOCH_BLOCKS
    SharedLock,   \* may handlers take the node lock while the main loop runs?
    MaxHeight,    \* bound: blocks in a behaviour
    MaxCrashes    \* bound: kills that fall inside a block's writes

Outpoints == {"genesis", "coinbase", "tx", "reward"} \X Nat \X Nat

(* A transaction is named by its txid, a 256-bit number, and its output by   *)
(* the txid as well: no two of them create the same output.  A transaction   *)
(* without inputs here is one that Transaction::is_coinbase takes for a      *)
(* coinbase (one input, the null outpoint).  It may be the copy of a block's *)
(* own coinbase, or of the genesis one, and creates that output then; the    *)
(* txid of a reward is a hash of other bytes and no transaction's.           *)
ASSUME LedgerAssumption ==
    /\ Txs \subseteq Nat /\ IsFiniteSet(Txs)
    /\ \A t \in Txs :
         /\ Inputs[t] \in Seq(Outpoints)
         /\ Output[t] \in Outpoints /\ Output[t][1] # "reward"
         /\ Inputs[t] # <<>> => Output[t][1] = "tx"
    /\ \A t, u \in Txs : Output[t] = Output[u] => t = u
    /\ EpochBlocks \in Nat \ {0}
    /\ BlockCap \in Nat /\ MempoolMax \in Nat
    /\ MaxHeight \in Nat /\ MaxCrashes \in Nat
    /\ SharedLock \in BOOLEAN

VARIABLES
    stored,    \* database: blocks, stored[h] under key h (genesis is implicit)
    sHeight,   \* database: state key "height"
    sEpoch,    \* database: state key "epoch"
    sUtxo,     \* database: unspent outputs
    sMempool,  \* database: the mempool
    blocks, height, epoch, mempool,
    processed, \* processed_txids
    poolEpoch, \* share_pool.current_epoch
    pc,        \* "down", "boot", "loop", or the next write of a block handler
    cursor,    \* <<i, j>>, the next write of update_utxo_set: of the block's
               \* i-th transaction the output (j = 0) or the j-th input
    nextId,    \* history: identities given to block headers
    crashes,   \* history: kills inside a block's writes
    accepted,  \* history: transactions answered with Ok
    dropped    \* history: accepted, then evicted, left out of a full block, or
               \* pending when the node started without a block

disk == <<stored, sHeight, sEpoch, sUtxo, sMempool>>
memory == <<blocks, height, epoch, mempool, processed, poolEpoch>>
history == <<nextId, crashes, accepted, dropped>>
vars == <<disk, memory, pc, cursor, history>>

-----------------------------------------------------------------------------
(* Outpoints: a txid and an index in the code.  A coinbase txid depends on   *)
(* its height and on whose address it pays; a reward txid on the height and  *)
(* the completed epoch.  One output per transaction is enough here.          *)
Makers == {"self", "peer"}
GenesisOut == <<"genesis", 0, 0>>
CoinbaseOut(h, maker) == <<"coinbase", h, IF maker = "self" THEN 0 ELSE 1>>
RewardOutWrongEpoch(h, e) == <<"reward", h, e - 2>>  \* variant: off by two
RewardOut(h, e) == <<"reward", h, e>>

GenesisId == 0
Block == [id : Nat, prev : Nat, maker : Makers, epoch : Nat, txs : Seq(Txs)]
LastId == IF blocks = <<>> THEN GenesisId ELSE Last(blocks).id

CoinbaseShaped(t) == Inputs[t] = <<>>
Ordinary(ts) == {t \in ts : ~CoinbaseShaped(t)}
InputSet(t) == ToSet(Inputs[t])
SpentBy(ts) == UNION {InputSet(t) : t \in ts}
TxsOf(chain) == UNION {ToSet(chain[h].txs) : h \in DOMAIN chain}
Chain == SubSeq(stored, 1, sHeight)

-----------------------------------------------------------------------------
(* What a chain makes and spends, and where: <<h, i>> is the i-th            *)
(* transaction of block h, with the block's own coinbase as the 0th.  A      *)
(* transaction first makes its output, then spends its inputs.               *)
Before(p, q) == p[1] < q[1] \/ (p[1] = q[1] /\ p[2] < q[2])
Places(chain) == UNION {{<<h, i>> : i \in DOMAIN chain[h].txs} : h \in DOMAIN chain}
TxAt(chain, p) == chain[p[1]].txs[p[2]]
Made(chain) ==
    {<< <<0, 0>>, GenesisOut >>}
        \cup {<< <<h, 0>>, CoinbaseOut(h, chain[h].maker) >> : h \in DOMAIN chain}
        \cup {<< p, Output[TxAt(chain, p)] >> : p \in Places(chain)}
Spent(chain) == UNION {{<< p, o >> : o \in InputSet(TxAt(chain, p))} : p \in Places(chain)}

(* The rewards that process_epoch_end may have paid after the last           *)
(* transaction of a boundary block this node mined.                          *)
Rewarded(chain) ==
    {<< <<h, Len(chain[h].txs) + 1>>, RewardOut(h, chain[h].epoch) >> :
        h \in {g \in DOMAIN chain : chain[g].maker = "self" /\ g % EpochBlocks = 0}}

(* The outpoints made and not spent since. *)
Unspent(made, spent) ==
    {m[2] : m \in {n \in made : \A s \in spent : s[2] = n[2] => Before(s[1], n[1])}}

(* What replaying a chain leaves unspent, epoch rewards aside. *)
Replay(chain) == Unspent(Made(chain), Spent(chain))
Rewards == {o \in sUtxo : o[1] = "reward"}

Down == pc = "down"
AtRest == pc \in {"down", "boot", "loop"}
Running == pc \in {"boot", "loop"}

(* Requests and peer messages are handled while no one else has the node.  *)
LockFree == pc = "boot" \/ (SharedLock /\ pc = "loop")

-----------------------------------------------------------------------------
(* sort_mempool_by_fee: a stable sort by descending fee; the fee of a        *)
(* transaction with a missing input, or shaped as a coinbase, counts as 0.   *)
FeeNow(t) == IF ~CoinbaseShaped(t) /\ InputSet(t) \subseteq sUtxo THEN Fee[t] ELSE 0
Precedes(s, i, j) ==
    FeeNow(s[i]) > FeeNow(s[j]) \/ (FeeNow(s[i]) = FeeNow(s[j]) /\ i <= j)
SortedByFee(s) ==
    {[k \in DOMAIN s |-> s[p[k]]] :
        p \in {q \in [DOMAIN s -> DOMAIN s] :
                 \A i, j \in DOMAIN s : i < j => q[i] # q[j] /\ Precedes(s, q[i], q[j])}}

(* Variant: the conflict check against the mempool is dropped. *)
AdmissibleNoConflictCheck(t) ==
    /\ CoinbaseShaped(t) \/ InputSet(t) \subseteq sUtxo
    /\ t \notin processed
    /\ t \notin ToSet(mempool)

(* Variant: inputs are not looked up. *)
AdmissibleUnfunded(t) ==
    /\ t \notin processed
    /\ t \notin ToSet(mempool)
    /\ InputSet(t) \cap SpentBy(ToSet(mempool)) = {}

(* Transaction::validate_basic and validate, which looks at nothing in a     *)
(* transaction shaped as a coinbase, then the checks of                      *)
(* add_transaction_to_mempool against what is processed and pending.         *)
Admissible(t) ==
    /\ CoinbaseShaped(t) \/ InputSet(t) \subseteq sUtxo
    /\ t \notin processed
    /\ t \notin ToSet(mempool)
    /\ InputSet(t) \cap SpentBy(ToSet(mempool)) = {}

SubmitTx(t) ==
    /\ LockFree
    /\ Admissible(t)
    /\ \E sorted \in SortedByFee(Append(mempool, t)) :
         LET kept == SubSeq(sorted, 1, IF Len(sorted) < MempoolMax
                                       THEN Len(sorted) ELSE MempoolMax)
             evicted == ToSet(sorted) \ ToSet(kept)
         IN  /\ mempool' = kept
             /\ sMempool' = kept
             /\ processed' = (processed \cup {t}) \ evicted
             /\ dropped' = (dropped \ {t}) \cup evicted
    /\ accepted' = accepted \cup {t}
    /\ UNCHANGED <<stored, sHeight, sEpoch, sUtxo, blocks, height, epoch,
                   poolEpoch, pc, cursor, nextId, crashes>>

-----------------------------------------------------------------------------
(* Variant: an entry left by an unfinished block is kept. *)
StoreAtKeepsOld(h, b) == IF h = Len(stored) + 1 THEN Append(stored, b) ELSE stored

(* save_block under the next height; the entry of an unfinished block of     *)
(* the same height is overwritten.                                           *)
StoreAt(h, b) == IF h = Len(stored) + 1 THEN Append(stored, b)
                 ELSE [stored EXCEPT ![h] = b]

(* The common start of mine_block's success path and of the P2P Block        *)
(* handler: save the block, then push it on the in-memory chain.             *)
WriteBlock(b) ==
    /\ stored' = StoreAt(height + 1, b)
    /\ blocks' = Append(blocks, b)
    /\ height' = height + 1
    /\ cursor' = <<0, 0>>
    /\ nextId' = nextId + 1
    /\ pc' = "utxo"
    /\ UNCHANGED <<sHeight, sEpoch, sUtxo, sMempool, epoch, mempool, processed,
                   poolEpoch, crashes, accepted, dropped>>

BlockTemplate == SubSeq(mempool, 1, IF Len(mempool) < BlockCap
                                    THEN Len(mempool) ELSE BlockCap)

(* mine_block's look for duplicates, which passes over what is shaped as a   *)
(* coinbase.                                                                 *)
NoDuplicate(ts) ==
    \A i, j \in DOMAIN ts : ts[i] = ts[j] /\ ~CoinbaseShaped(ts[i]) => i = j

(* mine_block up to its first write.  Whether a nonce is found is not        *)
(* modelled: a step of Next is the case where it is.                         *)
MineBlock ==
    /\ pc = "loop"
    /\ height < MaxHeight
    /\ NoDuplicate(BlockTemplate)
    /\ WriteBlock([id |-> nextId, prev |-> LastId, maker |-> "self",
                   epoch |-> epoch, txs |-> BlockTemplate])

(* A block another node mined on the same parent.  The handler checks only   *)
(* prev_hash and the proof of work; the sender is honest, so its             *)
(* transactions are spendable on this chain and do not conflict.             *)
PeerBlockTxs ==
    {ts \in UNION {[1..n -> Txs] : n \in 0..BlockCap} :
        /\ IsInjective(ts)
        /\ SpentBy(ToSet(ts)) \subseteq Replay(Chain)
        /\ \A i, j \in DOMAIN ts : i # j => InputSet(ts[i]) \cap InputSet(ts[j]) = {}}
PeerBlock(ts) ==
    /\ SharedLock
    /\ pc = "loop"
    /\ height < MaxHeight
    /\ WriteBlock([id |-> nextId, prev |-> LastId, maker |-> "peer",
                   epoch |-> epoch, txs |-> ts])

(* update_utxo_set: for each transaction in block order, its own coinbase    *)
(* first, save its output, then delete the outputs it spends.                *)
Coinbase == 0
OutputOf(b, h, i) == IF i = Coinbase THEN CoinbaseOut(h, b.maker) ELSE Output[b.txs[i]]
InputsOf(b, i) == IF i = Coinbase THEN <<>> ELSE Inputs[b.txs[i]]
UtxoWritten == cursor[1] > Len(Last(blocks).txs)

(* Variant: what a transaction spends is not deleted. *)
UpdateUtxoKeepsSpent ==
    /\ pc = "utxo" /\ ~UtxoWritten
    /\ LET b == Last(blocks) i == cursor[1] j == cursor[2]
       IN  /\ sUtxo' = IF j = 0 THEN sUtxo \cup {OutputOf(b, height, i)} ELSE sUtxo
           /\ cursor' = IF j < Len(InputsOf(b, i)) THEN <<i, j + 1>> ELSE <<i + 1, 0>>
    /\ UNCHANGED <<stored, sHeight, sEpoch, sMempool, memory, pc, history>>

UpdateUtxo ==
    /\ pc = "utxo" /\ ~UtxoWritten
    /\ LET b == Last(blocks) i == cursor[1] j == cursor[2]
       IN  /\ sUtxo' = IF j = 0 THEN sUtxo \cup {OutputOf(b, height, i)}
                       ELSE sUtxo \ {InputsOf(b, i)[j]}
           /\ cursor' = IF j < Len(InputsOf(b, i)) THEN <<i, j + 1>> ELSE <<i + 1, 0>>
    /\ UNCHANGED <<stored, sHeight, sEpoch, sMempool, memory, pc, history>>

(* Variants: the boundary test is off by one; the cleared mempool is not     *)
(* saved.                                                                    *)
ClearMempoolEarlyBoundary ==
    /\ pc = "utxo" /\ UtxoWritten /\ Last(blocks).maker = "self"
    /\ processed' = processed \cup Ordinary(ToSet(Last(blocks).txs))
    /\ dropped' = dropped \cup (ToSet(mempool) \ ToSet(Last(blocks).txs))
    /\ mempool' = <<>> /\ sMempool' = <<>>
    /\ pc' = IF (height + 1) % EpochBlocks = 0 THEN "reward" ELSE "height"
    /\ UNCHANGED <<stored, sHeight, sEpoch, sUtxo, blocks, height, epoch,
                   poolEpoch, cursor, nextId, crashes, accepted>>
ClearMempoolUnsaved ==
    /\ pc = "utxo" /\ UtxoWritten /\ Last(blocks).maker = "self"
    /\ processed' = processed \cup Ordinary(ToSet(Last(blocks).txs))
    /\ dropped' = dropped \cup (ToSet(mempool) \ ToSet(Last(blocks).txs))
    /\ mempool' = <<>>
    /\ pc' = IF height % EpochBlocks = 0 THEN "reward" ELSE "height"
    /\ UNCHANGED <<disk, blocks, height, epoch, poolEpoch, cursor, nextId, crashes,
                   accepted>>

(* mine_block after update_utxo_set: remember the block's ordinary           *)
(* transactions, empty the mempool, save it.                                 *)
ClearMempool ==
    /\ pc = "utxo" /\ UtxoWritten /\ Last(blocks).maker = "self"
    /\ LET mined == ToSet(Last(blocks).txs)
       IN  /\ processed' = processed \cup Ordinary(mined)
           /\ dropped' = dropped \cup (ToSet(mempool) \ mined)
    /\ mempool' = <<>>
    /\ sMempool' = <<>>
    /\ pc' = IF height % EpochBlocks = 0 THEN "reward" ELSE "height"
    /\ UNCHANGED <<stored, sHeight, sEpoch, sUtxo, blocks, height, epoch,
                   poolEpoch, cursor, nextId, crashes, accepted>>

(* process_epoch_end, first part: a reward output for this node's miner if   *)
(* it is in the results.  Rewards of other miners, loyalty and the share     *)
(* counters do not touch the ledger.                                         *)
PayReward ==
    /\ pc = "reward"
    /\ sUtxo' \in {sUtxo, sUtxo \cup {RewardOut(height, epoch)}}
    /\ pc' = "epoch"
    /\ UNCHANGED <<stored, sHeight, sEpoch, sMempool, memory, cursor, history>>

(* Variant: the new epoch is left to the save at the end of mine_block. *)
EndEpochUnsaved ==
    /\ pc = "epoch"
    /\ poolEpoch' = poolEpoch + 1
    /\ epoch' = epoch + 1
    /\ pc' = "height"
    /\ UNCHANGED <<disk, blocks, height, mempool, processed, cursor, history>>

(* process_epoch_end, last part: new share pool, next epoch, saved at once.  *)
EndEpoch ==
    /\ pc = "epoch"
    /\ poolEpoch' = poolEpoch + 1
    /\ epoch' = epoch + 1
    /\ sEpoch' = epoch + 1
    /\ pc' = "height"
    /\ UNCHANGED <<stored, sHeight, sUtxo, sMempool, blocks, height, mempool,
                   processed, cursor, history>>

(* save_state("height"): the write that makes the block part of the chain a  *)
(* restart loads.                                                            *)
SaveHeight ==
    /\ pc = "height"
    /\ sHeight' = height
    /\ pc' = IF Last(blocks).maker = "self" THEN "save_epoch" ELSE "save_mempool"
    /\ UNCHANGED <<stored, sEpoch, sUtxo, sMempool, memory, cursor, history>>

(* The last state write of mine_block; the checkpoint, the backup and the    *)
(* broadcast that follow do not touch the ledger.                            *)
SaveEpoch ==
    /\ pc = "save_epoch"
    /\ sEpoch' = epoch
    /\ pc' = "loop"
    /\ UNCHANGED <<stored, sHeight, sUtxo, sMempool, memory, cursor, history>>

(* What Vec::retain leaves of s: its members in S, in the order of s. *)
Retain(s, S) ==
    LET kept[i \in 0..Len(s)] ==
            IF i = 0 THEN <<>>
            ELSE IF s[i] \in S THEN Append(kept[i - 1], s[i]) ELSE kept[i - 1]
    IN  kept[Len(s)]

(* Variant: the block's transactions stay in the mempool. *)
RetainMempoolKeepsAll ==
    /\ pc = "utxo" /\ UtxoWritten /\ Last(blocks).maker = "peer"
    /\ processed' = processed \cup Ordinary(ToSet(Last(blocks).txs))
    /\ pc' = "height"
    /\ UNCHANGED <<disk, blocks, height, epoch, mempool, poolEpoch, cursor, history>>

(* Variant: the transactions that are not in the block are dropped. *)
RetainMempoolInverted ==
    /\ pc = "utxo" /\ UtxoWritten /\ Last(blocks).maker = "peer"
    /\ LET inBlock == Ordinary(ToSet(Last(blocks).txs))
       IN  /\ processed' = processed \cup inBlock
           /\ mempool' = Retain(mempool, inBlock)
    /\ pc' = "height"
    /\ UNCHANGED <<disk, blocks, height, epoch, poolEpoch, cursor, history>>

(* The P2P Block handler after update_utxo_set: it forgets the block's       *)
(* ordinary transactions, and no others, then saves height and mempool.  It  *)
(* does not end the epoch.                                                   *)
RetainMempool ==
    /\ pc = "utxo" /\ UtxoWritten /\ Last(blocks).maker = "peer"
    /\ LET inBlock == Ordinary(ToSet(Last(blocks).txs))
       IN  /\ processed' = processed \cup inBlock
           /\ mempool' = Retain(mempool, Txs \ inBlock)
    /\ pc' = "height"
    /\ UNCHANGED <<disk, blocks, height, epoch, poolEpoch, cursor, history>>

SavePeerMempool ==
    /\ pc = "save_mempool"
    /\ sMempool' = mempool
    /\ pc' = "loop"
    /\ UNCHANGED <<stored, sHeight, sEpoch, sUtxo, memory, cursor, history>>

-----------------------------------------------------------------------------
(* A kill at any moment, inside a block's writes or at rest.  Puts keep      *)
(* their order in RocksDB's log, so the database keeps those already made.   *)
Kill ==
    /\ ~Down
    /\ Running \/ crashes < MaxCrashes
    /\ crashes' = IF Running THEN crashes ELSE crashes + 1
    /\ pc' = "down"
    /\ blocks' = <<>> /\ height' = 0 /\ epoch' = 0
    /\ mempool' = <<>> /\ processed' = {} /\ poolEpoch' = 0
    /\ cursor' = <<0, 0>>
    /\ UNCHANGED <<disk, nextId, accepted, dropped>>

(* init_genesis, at every start at height 0: save the genesis output and the *)
(* first epoch.  (The block, number 0, and the height are as they were.)     *)
(* What the saved mempool holds is not read any more.                        *)
InitGenesis ==
    /\ sUtxo' = sUtxo \cup {GenesisOut}
    /\ sEpoch' = 1
    /\ dropped' = dropped \cup ToSet(sMempool)

(* Variant: load_state stops one block short of the saved height. *)
RestartShort ==
    /\ Down
    /\ height' = sHeight /\ epoch' = sEpoch
    /\ blocks' = SubSeq(stored, 1, sHeight - 1)
    /\ mempool' = IF sHeight = 0 THEN <<>> ELSE sMempool
    /\ IF sHeight = 0 THEN InitGenesis ELSE UNCHANGED <<sUtxo, sEpoch, dropped>>
    /\ processed' = {} /\ poolEpoch' = 1
    /\ pc' = "boot"
    /\ UNCHANGED <<stored, sHeight, sMempool, cursor, nextId, crashes, accepted>>

(* Node::new: height and epoch from the database, the share pool new.  With  *)
(* no block the genesis state is written again and the mempool not read;     *)
(* otherwise load_state reads the blocks and the mempool, unchecked.         *)
Restart ==
    /\ Down
    /\ height' = sHeight
    /\ epoch' = sEpoch
    /\ blocks' = Chain
    /\ mempool' = IF sHeight = 0 THEN <<>> ELSE sMempool
    /\ IF sHeight = 0 THEN InitGenesis ELSE UNCHANGED <<sUtxo, sEpoch, dropped>>
    /\ processed' = {}
    /\ poolEpoch' = 1
    /\ pc' = "boot"
    /\ UNCHANGED <<stored, sHeight, sMempool, cursor, nextId, crashes, accepted>>

(* run_node takes the write lock and enters the main loop. *)
EnterLoop ==
    /\ pc = "boot"
    /\ pc' = "loop"
    /\ UNCHANGED <<disk, memory, cursor, history>>

(* After the first start, on an empty database.  (A kill during it changes   *)
(* nothing: the next start finds height 0 and writes the same again.)        *)
Init ==
    /\ stored = <<>> /\ sHeight = 0 /\ sEpoch = 1 /\ sUtxo = {GenesisOut}
    /\ sMempool = <<>>
    /\ blocks = <<>> /\ height = 0 /\ epoch = 1 /\ mempool = <<>>
    /\ processed = {} /\ poolEpoch = 1
    /\ pc = "boot" /\ cursor = <<0, 0>>
    /\ nextId = 1 /\ crashes = 0 /\ accepted = {} /\ dropped = {}

Next ==
    \/ \E t \in Txs : SubmitTx(t)
    \/ MineBlock
    \/ \E ts \in PeerBlockTxs : PeerBlock(ts)
    \/ UpdateUtxo
    \/ ClearMempool
    \/ PayReward
    \/ EndEpoch
    \/ SaveHeight
    \/ SaveEpoch
    \/ RetainMempool
    \/ SavePeerMempool
    \/ Kill
    \/ Restart
    \/ EnterLoop

Spec == Init /\ [][Next]_vars

-----------------------------------------------------------------------------
(* Properties.                                                               *)

(* Every variable holds a value of its kind. *)
TypeOK ==
    /\ stored \in Seq(Block)
    /\ sHeight \in Nat /\ sEpoch \in Nat
    /\ sUtxo \subseteq Outpoints
    /\ sMempool \in Seq(Txs)
    /\ blocks \in Seq(Block)
    /\ height \in Nat /\ epoch \in Nat /\ poolEpoch \in Nat
    /\ mempool \in Seq(Txs)
    /\ processed \subseteq Txs
    /\ pc \in {"down", "boot", "loop", "utxo", "reward", "epoch", "height",
               "save_epoch", "save_mempool"}
    /\ cursor \in Nat \X Nat
    /\ nextId \in Nat \ {0} /\ crashes \in Nat
    /\ accepted \subseteq Txs /\ dropped \subseteq Txs

(* Whatever write a kill falls on, the blocks up to the saved height are all *)
(* there and each names its predecessor: mine_block and the Block handler    *)
(* save the height after the block, so a restart always finds a whole chain. *)
StoredChainLinked ==
    /\ sHeight <= Len(stored)
    /\ \A h \in 1..sHeight :
         stored[h].prev = IF h = 1 THEN GenesisId ELSE stored[h - 1].id

(* While the node runs, its in-memory chain is as long as its height says    *)
(* and is the stored one: last_difficulty slices `timestamps` by height and  *)
(* would panic, and last_hash would name a wrong parent, otherwise.          *)
MemoryIsStored ==
    ~Down => /\ Len(blocks) = height
             /\ height <= Len(stored)
             /\ blocks = SubSeq(stored, 1, height)
             /\ sHeight <= height /\ height <= sHeight + 1

(* The saved epoch is never behind the saved height, so the boundary block   *)
(* of an epoch is never on disk as the tip with its epoch still open: the    *)
(* epoch is written before the height that closes it.                        *)
EpochNotBehind == sHeight < sEpoch * EpochBlocks

(* The saved epoch runs ahead of the height by at most one for every kill    *)
(* that fell between the epoch's write and the height's.                     *)
EpochLeadBounded ==
    AtRest => sEpoch <= (sHeight \div EpochBlocks) + 1 + crashes

(* A block never spends an outpoint twice, kills and stale mempools          *)
(* included: the pending transactions never conflict with each other.        *)
BlockSpendsOnce ==
    \A h \in DOMAIN stored : \A i, j \in DOMAIN stored[h].txs :
        i # j => InputSet(stored[h].txs[i]) \cap InputSet(stored[h].txs[j]) = {}

(* Between blocks the saved mempool is the node's mempool, so that a restart *)
(* takes up exactly the transactions that were pending.  (At height 0        *)
(* Node::new does not read the mempool.)                                     *)
MempoolIsSaved == (Running /\ height > 0) => mempool = sMempool

(* At rest the UTXO set is what replaying the saved chain from the genesis   *)
(* output gives (and the epoch rewards), as long as no kill fell inside a    *)
(* block's writes: whatever is made again, after a conflicting transaction   *)
(* or a restart, update_utxo_set keeps to the order of the chain.            *)
UtxoIsReplay == (AtRest /\ crashes = 0) => sUtxo \ Rewards = Replay(Chain)

(* Every transaction of the chain spends what was made before it and not     *)
(* spent since, as long as no kill fell inside a block's writes: it is       *)
(* admitted only while its inputs are unspent, and mine_block takes the      *)
(* mempool without looking again.  (An outpoint can be spent a second time   *)
(* if it was made a second time: validate asks nothing of a transaction      *)
(* shaped as a coinbase, and after a restart nothing is known as processed.) *)
SpendsUnspent ==
    crashes = 0 =>
      LET made == Made(Chain) \cup Rewarded(Chain)
          spent == Spent(Chain)
      IN  \A s \in spent :
            s[2] \in Unspent({m \in made : Before(m[1], s[1])},
                            {r \in spent : Before(r[1], s[1])})

(* A transaction the node has processed is not processed again: no           *)
(* transaction is in two places of the saved chain, whatever kills fell.     *)
TxMinedOnce ==
    \A h, g \in 1..sHeight :
      \A i \in DOMAIN stored[h].txs, j \in DOMAIN stored[g].txs :
        stored[h].txs[i] = stored[g].txs[j] => <<h, i>> = <<g, j>>

(* A transaction answered with Ok is pending or in the chain, but for three  *)
(* cases: the mempool limit evicted it, a full block left it out (mine_block *)
(* clears the whole mempool, whatever part of it the block took), or the     *)
(* node was started again before its first block, when Node::new does not    *)
(* read the mempool.                                                         *)
NoSilentLoss ==
    (AtRest /\ crashes = 0) =>
        accepted \subseteq ToSet(sMempool) \cup TxsOf(Chain) \cup dropped

(* The share pool collects the shares of the node's epoch.                   *)
PoolHoldsCurrentEpoch == Running => poolEpoch = epoch

(* The transactions that have an input no transaction outside the set makes: *)
(* theirs cannot be made again, so they can be mined once only.              *)
Grounded ==
    UNION {G \in SUBSET Txs :
             \A t \in G : \E o \in InputSet(t) : \A u \in Txs \ G : Output[u] # o}

(* Between kills at rest the node implements the abstract ledger: a block    *)
(* takes effect when its height is saved, and until then the transactions of *)
(* the node's own count as pending, in the mempool or in the block being     *)
(* written.  A node that is down has pending what its next start will read.  *)
InFlight ==
    IF ~Down /\ height > sHeight /\ Last(blocks).maker = "self"
    THEN ToSet(Last(blocks).txs) ELSE {}
Pending ==
    IF Down THEN (IF sHeight = 0 THEN {} ELSE ToSet(sMempool))
    ELSE ToSet(mempool) \cup InFlight
Abstract == INSTANCE LedgerSpec WITH
    Once <- Grounded,
    chain <- [h \in 1..sHeight |-> stored[h].txs],
    pending <- Pending
ImplementsLedgerSpec == Abstract!Spec
=============================================================================
