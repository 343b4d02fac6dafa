# A formal model of the Accum node

TLA+ modules, TLC configurations and TLAPS proofs for the node in
`src/accum-node`.  The program is one binary: `src/main.rs` (6463 lines).  The
other 21 files under `src/accum-node/src` are not reached by any `mod`
declaration and are not part of it (there is no `lib.rs` either); `EpochCycle`
models three of them, everything else is about `main.rs`.  All line numbers
below are those of `main.rs` unless a file is named.

## The system

One process holds one `Node` behind one lock (`Arc<RwLock<Node>>`, parking_lot).

| Part | State | Operations | Lines |
|---|---|---|---|
| Ledger | chain, height, epoch, mempool, processed txids; RocksDB: blocks, UTXO set, mempool, `height`, `epoch` | `add_transaction_to_mempool`, `mine_block`, P2P `Block`, `process_epoch_end`, `Node::new` | 4765-5111, 5295-5365, 5534-5987, 3531-3617 |
| Share pool | shares per miner, counts, hashes, memory | `add_share`, `evict_oldest`, `new_epoch`, `new` | 2799-2951 |
| Miner accounts | credited shares, ban, loyalty, rewards, bonds | `Node::add_share`, epoch end, load | 2295-2498, 5197-5292, 5804-5987 |
| Node lock and shutdown | the lock, `SHUTDOWN`, `SAVING_STATE` | `run_node`, RPC handlers, Ctrl+C task, message handlers | 42-58, 4495-4728, 5367-5532, 6385-6463 |
| Sync manager | peers, session, local chain | `start_sync`, `request_blocks_from_peer`, `verify_and_accept_blocks`, `on_blocks_received`, `check_timeouts` | 3748-4296 |
| Peers | connections, bans, known addresses | `accept_connections`, `process_messages`, `handle_message`, `connect_to` | 3028-3741 |
| DDoS protection, attack detection | windows, bans | `check_rate_limit`, `check_connection_limit` | 377-664 |
| Slashing | pending and processed proofs | `verify`, `execute_slash`, `process_all` | 148-370 |
| PoCI | none (functions) | `calculate_poci` | 4303-4399 |
| Difficulty | the targets and times of the blocks | `last_difficulty`, `adjust_difficulty`, `Target::adjust` | 801-880, 4423-4456, 5147-5167 |
| Checkpoints, backups | RocksDB, directories | `create_checkpoint`, `load_checkpoints`, `backup`, `restore` | 2008-2285, 5045-5064, 5989-6052 |
| Library epoch cycle (not compiled) | epochs, shares, registry of miners | `add_block`, `end_current_epoch`, `next_epoch`, `add_share`, `add_bond` | `epoch.rs`, `share.rs`, `miner.rs` |

How they interact: RPC requests and the Ctrl+C task run on tokio worker threads
and reach the node through the lock.  The main thread takes the write lock and
runs the main loop under it until shutdown: P2P messages, new connections, sync,
mining.  P2P handlers and the sync manager's send callback reach the node through
the same lock.  Blocks and shares feed the ledger and the accounts; a block whose
height is a multiple of 1440 ends the epoch, which pays the miners, opens a new
share pool and saves every miner.  Each save is one RocksDB put.

What is hard, and where a test would hardly reach it, is listed line by line
under "hazards" in `PROJECT.json`: kills between two puts, the order of the saves
of epoch and height, a mempool read back into a node that forgot what it
processed, counters of one thing kept in two places and reset at different steps,
eviction before a refusal, a lock taken by a thread that holds it, answers that
come after the session they belong to, connections dropped later than they are
noted, windows that are reset lazily, and a checkpoint written after its height.

What makes each part correct: the database holds a whole, linked chain, and an
epoch and a mempool that go with it; nothing is spent or paid twice; an accepted
transaction is not lost; the pool's counters are those of the shares it stores
and the accounts agree with them; an epoch counts once; requests do not see a
half-applied block; the node starts, and stops when it is told to; a node that
fetches blocks never has a hole in its database and never stays in sync for ever;
peers stay within their limits and a well-behaved one is not shut out; checkpoints
and backups belong to the chain.

## The modules

### `NodeLedger` (with `LedgerSpec`, `MCNodeLedger`)

Names beginning with `s` are the database, the others the fields of `Node`.
`mine_block` and the P2P `Block` handler are split at their writes, and `pc` names
the next one: block, then the UTXO puts and deletes one by one (`cursor`: which
transaction of the block, and which of its outpoints), mempool, epoch end (reward,
epoch), height, epoch.  `Kill` may fall between any two and leaves the database as
it is (RocksDB's log keeps puts in order).  `Restart` is `Node::new`: above height 0
`load_state` reads blocks and mempool back; at height 0 `init_genesis` writes the
genesis output and epoch 1 again (`InitGenesis`) and the mempool is not read.  `Init`
is the state after the first start.

`SharedLock` says whether the handlers of peers' blocks and of transactions get
the lock while the main loop runs.  `FALSE` is the program as it is: they run
only before the loop (`NodeLock` shows what happens otherwise).  `TRUE` is the
handlers as they are written, with a lock they could take.

Abstracted: a transaction is an element of `Txs` with inputs, a fee and one
output (`Output`); the 1 MB limit is `BlockCap`; signatures, amounts and proof of
work hold; rewards of other miners, checkpoints and backups do not touch the
ledger.  A failing database write, which `mine_block` ignores, is not modelled.  A txid is an
identity: what the code derives a coinbase or reward txid from is kept
(`CoinbaseOut`, `RewardOut`), since properties depend on it.  A peer's block
extends this node's chain and is itself valid (`PeerBlockTxs`): peers are honest.

A transaction without `Inputs` is one shaped as a coinbase (`CoinbaseShaped`: one
input, the null outpoint).  `validate` looks at nothing in it (1646), it conflicts
with none (5330, 5337), `mine_block` and the `Block` handler do not put it among the
processed (5738), and it may be a copy of a block's own coinbase and make that
outpoint again.  After a restart, which empties `processed_txids`, or after another
node's block that held it, such a transaction is accepted and mined again, and
whatever spends what it makes can then follow once more.  The properties say what
still holds with it: each transaction spends what is unspent at its place
(`SpendsUnspent`), the UTXO set is what a replay in the order of the chain gives
(`UtxoIsReplay`), and the transactions that rest on an outpoint no other can make
again are in the chain once (`Grounded`).

`LedgerSpec` is what the node promises of transactions with no database: pending,
then in a block, those of `Once` in at most one, a block taking effect in one step.
`Abstract` maps the detailed state to it: the chain is what is saved up to `sHeight`,
a block's transactions count as pending until the height is saved, and `Once` is
`Grounded`.

### `SharePool`, `MinerAccounts` (with `MCMinerAccounts`)

`SharePool` is the pool alone, one operator per outcome of `add_share`: wrong
epoch, duplicate, invalid, over the limit, accepted; the last two with the share
that `evict_oldest` takes to make room (`v`, or `Nobody`).  A miner with most
shares is chosen freely among several, as a `HashMap`'s order does.  Memory counts
in shares (`Capacity >= 1`; a configured limit of 0 MB is not modelled).

`MinerAccounts` extends it with `Node.add_share` around the pool and the saves of
`process_epoch_end`, one action each, so that a kill may fall in between;
`Restart` is a kill and the next start.  Shares are only accepted from miners with
an active bond; the program makes bonds for its own miner only, so others have
those in the database (`OldBonds`).  Not kept: the decaying value of loyalty, the
amounts of rewards and bonds, the hash rate.

### `NodeLock` (with `MCNodeLock`)

Where the main thread, every RPC request and the Ctrl+C task are, who holds the
lock, and how many worker threads are taken.  A request blocks its worker while
it waits, as parking_lot's lock does in an async handler.  `HandleMessage` stands
for every handler that locks inside the loop (lines 3463, 3483, 3517, 3535, 3619,
and the callback at 4850): with the lock held by its own thread it is stuck.

### `BlockSync` (with `MCBlockSync`)

The table of peers, the one session, and what is asked and answered, next to the
heights and the stored blocks of the node.  `local` is the length of the sync
manager's own chain, which is not the node's: it is empty after a start, and
`on_blocks_received` pushes once more what `verify_and_accept_blocks` has pushed.
A block is the sequence of its ancestors' labels, so that what it links to is
part of it.  Timers are left open: any session may time out, any request may come
too early.  `Echo` are the peers whose announced id is the one this node drew for
the connection; the others, which is every peer the program has, are never found
when a request is to be sent.  `ZeroFirst` are first blocks that name the zero
hash, which sync wants (4113) and the `Block` handler does not.  Peers answer
requests from their own chain, in order, or never.

### `PeerTable` (with `MCPeerTable`)

One turn of the main loop in its order: collect the messages of every connection
(`Receive`, `Refuse`, `Fail`), handle them, drop the connections noted, accept one;
then time passes or the node broadcasts.  `DDoSProtection` is the three operators
`Counted`, `MayConnect` and `FailureOf` with the windows of the code.  `heard` and
`loud` are history: which messages of the last hour really came and when, to say
who kept to the limits.
Assumed: there are no more bootnodes than `MAX_PEERS`, since
`connect_to_bootnodes` does not look at it.

### `NodeArchive` (with `MCNodeArchive`)

A mining node's block, height, checkpoint, backup and pruning, one action per
write, with kills, starts and the backup commands.  Targets are kept digit by
digit, since `adjust` carries remainders downwards and `to_difficulty` compares
the low half of the digits only.  A block's identity is the process that mined it
and its time, so that a block stored above the saved height, and overwritten by
the next process, is told from the other.  `load_checkpoints` reads the list in the
order of its little-endian keys (`InKeyOrder`).  Other nodes' blocks are left out, as
the program never handles them (`NodeLock`); a clock that goes back is not
modelled (line 5538 subtracts times without a check).

### `EpochCycle`

`EpochManager` with the shares of its epoch and its registry, translated for
proof only: its integers are unbounded and the theorems hold for all of them, so
it has no bounds to run under.  Assumed of its callers (`CycleAssumption` and the
module's head): heights come one after the other from 0, times are above the
median.  Nothing in `main.rs` calls it.

## The runs

| Run | Configuration | What it shows |
|---|---|---|
| `ledger_crash` | lock kept, 3 blocks, epochs of 2, 2 kills inside writes, any number at rest | `StoredChainLinked`, `MemoryIsStored`, `EpochNotBehind`, `EpochLeadBounded`, `BlockSpendsOnce`, `MempoolIsSaved`, `SpendsUnspent` |
| `ledger_shared` | handlers between blocks, 4 blocks of one transaction, kills at rest | `UtxoIsReplay`, `NoSilentLoss`, and the refinement `ImplementsLedgerSpec` |
| `accounts_epochs` | 2 miners, 6 shares, 2 epoch ends, 1 kill inside one | the pool's and the accounts' properties |
| `lock_shutdown` | 3 requests, 3 workers | `LoopIsAlone`, `ExitSaved`, and the liveness of start and shutdown |
| `sync` | 2 peers, 3 and 1 blocks, batches of 2, 2 unanswered requests | `HeightIsStored`, `SessionMatches`, `NoGapAsked`, and the liveness `SyncEnds` |
| `peer_turns` | 3 addresses, 2 connections, 3 messages in an hour | `PeersBounded`, `BlacklistedNotConnected`, `CompliantNotBlacklisted` |
| `archive` | 5 blocks, 7 seconds, 3 processes, a checkpoint every block, a backup every other block | `ArchiveAgrees` |
| `ledger_reprocess` | lock kept, ordinary transactions only, 1 kill inside writes | violation of `TxMinedOnce` |
| `ledger_pool` | no kill inside writes | violation of `PoolHoldsCurrentEpoch` |
| `accounts_limit` | memory for 2 shares, limit 2 | violation of `CreditWithinLimit` |
| `lock_message` | no requests | violation of `ShutdownCompletes` |
| `archive_slow` | as `archive`, one process | violation of `SlowIntervalEases` |

Bounds, and why they are enough.  Ledger: transaction 1 spends the genesis
output, 2 the coinbase of block 1, 3 is a copy of that coinbase, 4 spends both
outpoints and so conflicts with 1 and 2, and 5 spends what 2 creates.  That gives
conflict, dependency, a missing input, a transaction that can be accepted at height
0 and lost there, and one that can be mined again and make the input of another
again; `ledger_crash` takes 2 to 4 and `ledger_shared` 1 to 4.  A mempool of 2 evicts
the third; 3 blocks hold a boundary that can be mined again and a block that
follows it; 4 blocks (`ledger_shared`) let 3 and 2 be mined a second time with a
restart in between; two kills fall inside one epoch end or two blocks.  The
violations about kills take ordinary transactions only (2 and 5), so that nothing
else can be their cause.  Accounts: three shares of one miner against a limit of
two and a capacity of three give refusal, eviction of one's own and of the other
miner's share and both together; a share of the second epoch tells the epochs
apart; times 0 and 2 lie before and after a ban of one unit.  `MaxTotal`,
`MaxEpoch`, `MaxHeight` and `MaxCrashes` only stop counters.  Lock: one writer and
two readers, and no worker more than requests, so that requests can take them all.
A runtime whose workers all wait for the loop's lock (`Starved`) cannot run the
Ctrl+C task: `ShutdownUnlessStuck` says that this and a main thread that waits for
its own lock are the only ways in which Ctrl+C does not end the process.

Sync: three blocks of one peer make a full and a partial batch; one request more
than is answered makes a late or repeated answer meet the next session; two
timeouts ban a peer in the table.  Peers: with the minute shorter than the hour
and three messages in an hour, either limit can be passed or just kept, by one
connection or by two in turn; one address calls, one is a bootnode and one only
known by name, with room for two.  The program's limits (1000 an hour, 100 a
minute, 50 connections) are 2, 1 and 1 here.  Archive: two adjustments of two
blocks, of which the second can reach the floor; a second process can overwrite a
block of the first and a third can read what the second left; seven seconds make
intervals as short as allowed and up to three times as long; `MaxBackups` bounds the
directories that the backup command adds, which nothing bounds in the code.  The
run stops at its bounds, hence `CHECK_DEADLOCK FALSE`.

`BlockSync` assumes weak fairness of `CheckTimeouts` alone: the main loop calls
`check_timeouts` in every iteration, and the deadline of a session without
activity passes.  No peer, request or answer has fairness.  `NodeLock` has weak fairness of the main thread, of each
request and of the Ctrl+C task.  The operating system runs threads that can run,
tokio polls tasks that are ready while a worker is free, and parking_lot's lock is
given to a waiting thread once it is free.  Requests, messages and signals have no
fairness: they need never come.  `CHECK_DEADLOCK FALSE` is set there because the
process really stops: after its exit, or waiting for its own lock.

`BlockSync` and `PeerTable` take each handler to get the lock it asks for.  In the
program the first message that needs it stops the loop (violation 4); the two
modules say what the handlers do once that is mended, and up to then.

### What the violations say

1. **Transactions mined twice** (`TxMinedOnce`): a kill after the UTXO writes
   (5735) and before the empty mempool is saved (5746) or the height is (5752)
   leaves mined transactions pending in a node whose `processed_txids` is empty;
   `mine_block` includes them without validation.  Line 5314 says processed
   transactions are checked for.
2. **The pool's epoch after a restart** (`PoolHoldsCurrentEpoch`): it starts at 1
   (2819) and stays behind; `README.md:529` of the node says current epoch.
3. **Credits beyond the limit** (`CreditWithinLimit`): eviction lowers the count
   the limit is tested on (2887), not the credit (5267).
4. **The loop waits for its own lock** (`ShutdownCompletes`): any message whose
   handler locks the node stops the loop for good, and shutdown with it.
5. **A slow interval makes mining harder** (`SlowIntervalEases`): the factor is
   expected over actual time (4440), where `README.md:620` of the node and
   `SPEC.md.txt:402` have actual over expected.

Read on the way, without a run of their own: an invalid share never leads to a ban
by itself, because the ban is tested in the `Err` branch only (5285), which
`SPEC.md.txt` does not say; validation filters with the share target (2769) while
mining filters with the prefilter target; the header of a boundary block carries
the epoch it ends; with `SharedLock` the `Block` handler would keep pending
transactions that conflict with the block (3584), so `SpendsUnspent` is checked
only where the loop keeps the lock; a restart within an epoch drops the credits
not yet saved; a transaction shaped as a coinbase is accepted whatever it makes
(1646) and can be mined more than once; transactions accepted at height 0 are saved
but not read at the next start (4817), and the first block saves an empty mempool;
the epoch (5981) is saved before the height of its last block (5752), so after a kill
in between that block is mined again in the next epoch number and pays a second
reward under another txid (`EpochLeadBounded` and `PaidOncePerEpoch` count it: one
more for each such kill).

Of sync: a second answer to a request, counted in the next session, takes
`current_height` past the target; the second honest batch is refused and its
sender banned, since `local_chain` has grown twice by the first; blocks that sync
accepts enter neither `Node.blocks` nor the timestamps, and their height is not
saved; a restarted node starts again from block 1, and its height falls; a timeout
counts against the peer of a session that had completed.  Of peers: `BanPeer` is
never sent, since `ban` sets the flag first (3235); the node's own pings renew
`last_message_time` (3133), so a silent peer is not dropped, against
`README.md:834`; failures are never forgotten; limits go by address and port.  Of
the archive: the wait of a block time before each block keeps the inverted factor
at or below one, so targets only fall (`NoIntervalEases`), except that comparing low
halves can set one back to the floor; the genesis target is all ones, where `README.md:777` says otherwise;
`restore` puts nothing back though it reports success (2212).  Of the library:
`next_epoch` raises the epoch before `update_loyalty` compares with it, so no miner
ever has loyalty (`miner.rs:116-118` says otherwise).

## The proofs

TLAPS proves, for all values of the constants that satisfy the named assumptions
(`PoolAssumption`, `AccountsAssumption`, `LedgerAssumption`, `SyncAssumption`,
`PeerAssumption`, `LockAssumption`, `ArchiveAssumption`, `CycleAssumption`), every
invariant of the passing runs, the refinement of the ledger, that no interval eases
mining, and what the library's epoch cycle keeps.  The bounds of the runs (`MaxHeight`, `MaxCrashes`, `MaxNow` and the
like) are constants too, so a theorem holds whatever they are.

- `NodeLedgerProofs`.  `ChainInv` is the stored chain, the chain in memory as its
  prefix and the height as a function of `pc`; it gives `ChainSurvives` and, with
  the types (`LedgerTypeCorrect`), `MemoryAgrees`.  `EpochInv` says at which `pc`
  the height may already be the boundary (`EpochSavedFirst`); `LeadInv` counts both
  epochs against the height that is or is about to be saved (`EpochLead`).
  `ConflictInv`: both mempools and the blocks on disk are free of conflicts, since
  whatever is taken from a mempool, reloaded or mined draws from it in order
  (`BlocksSpendOnce`).  `MempoolInv` is the pairs of mempools at each `pc`
  (`RestartKeepsMempool`).
  `UtxoInv`, under `crashes = 0`, carries `ReplayGivesUtxo`.  It compares the UTXO set
  with what the chain makes and spends at each place (`Made`, `Spent`, `Possible`):
  between blocks with the chain in hand (`Book`), and inside a block's writes with
  the chain and the part of the block that lies before the cursor (`HandPossible`).
  A set of outpoints alone would not be inductive, since what is made again must
  not be taken for spent.  `LossInv` counts what was accepted (`NothingLost`).
  `SpendInv`: the chain, and with it the block being written, spends only what is
  unspent (`Funded`), and whatever is pending between blocks has its inputs in the
  UTXO set (`SpendsOnlyUnspent`).  `GroundInv`: every outpoint the chain spends was
  made before (`Backed`), and a grounded transaction is at one place of it
  (`MinedOnce`), kills included.  The argument: it spends an outpoint that only
  grounded transactions or the node's own blocks make, hence one that is made at one
  place (`OneMaker`); once the chain has spent it, it is never unspent again
  (`OnceMined`), so the transaction is not admitted a second time.
  `LedgerRefinement` maps `NodeLedger` to `LedgerSpec` with these invariants: the save
  of the height is the abstract block (`SaveHeightIsExtend`), an answer of Ok the
  abstract acceptance (`SubmitIsAccept`), clearing the mempool, a kill and a start
  give up what is left out or not read, and every other step is a stutter
  (`OthersGiveUp`).
- `MinerAccountsProofs`.  `PoolInv` is the pool's six parts together
  (`PoolTypeCorrect`, `PoolCorrect`).  None is inductive by itself: removing an
  evicted hash keeps `HashesMatch` only because no share is stored twice, and
  `MemoryMatches` needs the hash to have been there.  `NodeKeepsPool`: the
  node takes its pool through behaviours of the pool's own, which carries the parts
  over to the node.  `LoyaltyInv` bounds memory and disk alike, because a restart turns one
  into the other.  `CreditInv` says which counters are already reset at each `pc`
  of an epoch end, in memory and on disk; `RewardInv` how far saved and paid rewards
  may be apart when a kill ends the same epoch again; `FaultlessInv` that the pool
  has counted nothing invalid for a miner without fault.
- `NodeArchiveProofs`.  `ArchiveInv` relates memory, database and every backup at
  each `pc`.  `HistoryInv` adds that each block's time and target come from the
  blocks before it (`ChainSucceeds`), which a start reads back, and that what is
  listed is stored (`ListedAreStored`), whatever order `load_checkpoints` finds the
  keys in.  `NoIntervalEases` is then arithmetic: each block comes a block time
  after its predecessor, so an interval lasts at least what is expected
  (`IntervalTime`), so the factor is at most one (`FactorAtMostOne`), so what `adjust`
  carries into a digit is less than a unit of it and no digit grows
  (`AdjustedFacts`); the clamp to the genesis target is never taken
  (`NothingEasier`), and only the one to the floor is left to raise a target.
- `BlockSyncProofs`.  `SyncInv` adds to the properties that the stored heights are
  an initial segment, that a completed session has all it wanted, which keeps the
  flag down when a late answer arrives, and that no session is ahead of
  `local_chain`.  `local_chain` may be ahead of the database: what keeps the segment
  whole is that a block is stored only where its predecessor was found
  (`DatabaseHasNoHole`, `FlagIsSession`, `RequestsLeaveNoGap`).  `ReachInv` says that
  a session that can still ask has its peer connected and that peer's height as its
  target, so that no count is negative (`SyncTypeCorrect`).
- `PeerTableProofs`.  `PeersInv` is that of a turn: whoever is listed and still
  connected is noted for removal (`PeersStayBounded`, `ListedAreNotConnected`);
  `TurnInv` the types and where the queue and the notes are empty.  `HeardInv`
  compares each window that has not run out with the messages that really came
  since it opened; `ListedInv` says why an address is listed (`CompliantSafe`).
- `NodeLockProofs`.  `LockInv` says who holds the lock by where the threads are, and
  that a save begun and not done is that of the Ctrl+C task, which then holds it, so
  the loop cannot leave on the strength of it (`LoopAlone`, `ExitHasSaved`).
- `EpochCycleProofs`: `EpochsTile` (the current epoch starts at a multiple of its
  length and holds the block to come), `EpochSharesCorrect` and `NoLoyalty` (a
  miner's last epoch is at most the registry's, or it is among those to ban).
- `DataLemmas`.  The prover cannot instantiate the library's induction theorems,
  which take a predicate.  `IntervalInduction` and `RecursionExists` state what the
  proofs need of them with a set in place of the predicate and a step function in
  place of the operator; they follow from the least element of a set of numbers.
  With them `Retain` and the sums over an interval become provable.

What the theorems assume, and why.  `~SharedLock` (`EpochSavedFirst`,
`SpendsOnlyUnspent`) is the program as it is: a handler that ran during the loop would
pass the boundary without `process_epoch_end` (3531) and keep conflicting
transactions (3584).  `MaxCrashes = 0` (`LedgerRefinement`) allows any number of
kills between blocks but none inside a block's writes, after which the node really
does leave the abstract ledger (violation 1).  `Minute <= Hour` holds of the
windows the code has (60 and 3600).  The greatest low digits of `EasiestTarget` are
those of the genesis target; with lower ones a target could pass it.  `"gone"`
stands for no peer.  The other assumptions say what the constants are.

Only model-checked: liveness (`SyncEnds` and that of `NodeLock`), which with
fairness and ENABLED is beyond the prover used, and the five violations, which are
not theorems.

## Not modelled

- Cryptography and the wallet, the Argon2 cache (a cache of a pure function),
  configuration, command line, formatting of RPC answers: these compute, read or
  print, and no property depends on their detail.
- Reward amounts and the decay of loyalty (`calculate_poci`): floating point
  arithmetic, whose rounding integers would not be faithful to.
- Slashing, attack detection, aggregated shares, `restore_from_checkpoint`,
  `get_latest_checkpoint`, `start_active_sync`, `select_best_peer`: the program
  never calls them; a model of them would say nothing about it.
- The bytes of a frame.  A frame that arrives in parts breaks the stream from
  there on (3138), which `PeerTable` allows as a failed stream.
- Several nodes at once.  With the lock as it is a node handles no block of
  another, and the disagreement on epochs of those that would (3531) is listed
  under hazards.
- The library files other than `epoch.rs`, `share.rs` and `miner.rs`: not compiled,
  and either types that `main.rs` defines again or functions without state.
- A database write that fails, which `mine_block` ignores.
