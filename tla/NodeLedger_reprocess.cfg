CONSTANTS
    Txs <- MCOrdinary
    Inputs <- MCInputs
    Output <- MCOutput
    Fee <- MCFee
    BlockCap = 2
    MempoolMax = 2
    EpochBlocks = 2
    SharedLock = FALSE
    MaxHeight = 4
    MaxCrashes = 1
SPECIFICATION Spec
INVARIANT TxMinedOnce
