CONSTANTS
    a1 = a1
    a2 = a2
    a3 = a3
    a4 = a4
    b1 = b1
    b2 = b2
    Miners <- MCMiners
    Nobody = Nobody
    Shares <- MCShares
    MinerOf <- MCMinerOf
    EpochOf <- MCEpochOf
    Self = "a"
    OldBonds = {"b"}
    Times = {0}
    MaxPerMiner = 2
    Capacity = 2
    MaxTotal = 4
    MaxEpoch = 1
    MaxCrashes = 0
SYMMETRY MCSymmetry
SPECIFICATION Spec
INVARIANT CreditWithinLimit
