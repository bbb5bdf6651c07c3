SPECIFICATION Spec
CONSTANTS
    nNodes = 3
    nMalicious = 2
    wormhole = TRUE
    Win = 1
    SimTime = 3
    MaxEvents = 4
INVARIANT HonestLooksHonest
PROPERTIES RowsAddUp ChurnIsReal
CHECK_DEADLOCK FALSE
