CONSTANTS
    Txs <- MCOrdinary
    Inputs <- MCInputs
    Output <- MCOutput
    Fee <- MCFee
    BlockCap = 2
    MempoolMax = 2
    EpochBlocks = 2
    SharedLock = FALSE
    MaxHeight = 4
    MaxCrashes = 0
SPECIFICATION Spec
INVARIANT PoolHoldsCurrentEpoch
