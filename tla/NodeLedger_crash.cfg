\* The program as it is: the main loop keeps the lock, two kills inside a
\* block's writes, and any number of them at rest.
CONSTANTS
    Txs <- MCCrashTxs
    Inputs <- MCInputs
    Output <- MCOutput
    Fee <- MCFee
    BlockCap = 2
    MempoolMax = 2
    EpochBlocks = 2
    SharedLock = FALSE
    MaxHeight = 3
    MaxCrashes = 2
SPECIFICATION Spec
INVARIANTS TypeOK StoredChainLinked MemoryIsStored EpochNotBehind EpochLeadBounded
    BlockSpendsOnce MempoolIsSaved SpendsUnspent
