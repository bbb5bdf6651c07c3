CONSTANTS
    a = a
    b = b
    c = c
    Nodes = {a, b, c}
    Links <- Line
    NoHop = NoHop
    Attackers = {}
    DestinationOnly = FALSE
    GratuitousReply = TRUE
    TtlStart = 2
    TtlIncrement = 1
    TtlThreshold = 2
    NetDiameter = 3
    ForgedLead = 1
    MaxOutside = 2
SPECIFICATION IsolationSpec
PROPERTY IsolatedCannotAnswer
CHECK_DEADLOCK FALSE
