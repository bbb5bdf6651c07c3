SPECIFICATION FairSpec
CONSTANTS
    Dsts = {near, far}
    Reachable = {near}
    Hops = {2}
    RateLimit = 1
    RreqRetries = 1
    TtlStart = 1
    TtlIncrement = 2
    TtlThreshold = 3
    NetDiameter = 4
    MaxLen = 1
    MaxPackets = 2
    CntRange = 4
    IntBits = 2
    Flooding = TRUE
    MaxOutside = 1
INVARIANTS
    WaitingIsWatched
    OneCustodian
    QueueBounded
    BackoffComputable
PROPERTY EveryPacketResolved
