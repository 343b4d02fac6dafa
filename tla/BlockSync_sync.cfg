SPECIFICATION FairSpec
CONSTANTS
    p1 = p1
    p2 = p2
    Peers <- MCPeers
    Chain <- MCChain
    ZeroFirst <- MCZeroFirst
    Echo <- MCEcho
    Skewed <- MCSkewed
    Own = "own"
    Batch = 2
    RetryLimit = 2
    MaxAsked = 2
    MaxHeight = 3
INVARIANTS
    SyncTypeOK
    HeightIsStored
    SessionMatches
    NoGapAsked
PROPERTIES
    SyncEnds
