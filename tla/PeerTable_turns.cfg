SPECIFICATION Spec
CONSTANTS
    a1 = a1
    a2 = a2
    a3 = a3
    Addrs <- MCAddrs
    Bootnodes <- MCBootnodes
    Callers <- MCCallers
    MaxPeers = 2
    Minute = 0
    Hour = 1
    PerMinute = 1
    PerHour = 2
    PerConnection = 2
    MaxConnections = 1
    MaxFailures = 0
    PeerTimeout = 1
    Heartbeat = 0
    MaxNow = 2
    MaxHeard = 3
INVARIANTS
    PeerTypeOK
    PeersBounded
    BlacklistedNotConnected
    CompliantNotBlacklisted

