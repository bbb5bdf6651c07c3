SPECIFICATION Spec
CONSTANTS
    Dsts = {near, far}
    Reachable = {}
    Hops = {2}
    RateLimit = 1
    RreqRetries = 1
    TtlStart = 1
    TtlIncrement = 2
    TtlThreshold = 1
    NetDiameter = 4
    MaxLen = 2
    MaxPackets = 4
    CntRange = 4
    IntBits = 2
    Flooding = FALSE
    MaxOutside = 1
INVARIANT AttemptsBounded
