SPECIFICATION Spec
CHECK_DEADLOCK FALSE
CONSTANTS
    Window = 4
    WindowStep = 2
    SimTime = 7
    AttackStart = 3
    Attacker = TRUE
    Drops = TRUE
    CounterRange = 256
    MaxPackets = 3
INVARIANT RowsCoverWindow
