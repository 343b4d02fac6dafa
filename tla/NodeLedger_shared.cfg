\* Handlers get the lock between blocks, so other nodes' blocks arrive and
\* transactions are submitted at any height; kills at rest only.
CONSTANTS
    Txs <- MCSharedTxs
    Inputs <- MCInputs
    Output <- MCOutput
    Fee <- MCFee
    BlockCap = 1
    MempoolMax = 2
    EpochBlocks = 2
    SharedLock = TRUE
    MaxHeight = 4
    MaxCrashes = 0
SPECIFICATION Spec
INVARIANTS UtxoIsReplay NoSilentLoss
PROPERTY ImplementsLedgerSpec
