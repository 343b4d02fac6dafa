CONSTANTS
    a1 = a1
    a2 = a2
    a3 = a3
    a4 = a4
    b1 = b1
    b2 = b2
    Miners <- MCMiners
    Nobody = Nobody
    Shares <- MCShares
    MinerOf <- MCMinerOf
    EpochOf <- MCEpochOf
    Self = "a"
    OldBonds = {"b"}
    Times = {0, 2}
    MaxPerMiner = 2
    Capacity = 3
    MaxTotal = 3
    MaxEpoch = 3
    MaxCrashes = 1
SYMMETRY MCSymmetry
SPECIFICATION Spec
INVARIANTS AccountsTypeOK CreditsAreShares LoyaltyCountsOnce SavedLoyaltyNotAhead
    PaidOncePerEpoch FaultlessNotBanned HashesMatch StoredOnce MemoryMatches
    WithinMinerLimit TotalsCover
