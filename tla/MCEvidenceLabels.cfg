SPECIFICATION EvidenceSpec
CHECK_DEADLOCK FALSE
CONSTANTS
    Window = 4
    WindowStep = 2
    SimTime = 8
    AttackStart = 5
    Attacker = TRUE
    Drops = TRUE
    CounterRange = 256
    MaxPackets = 1
    Observers = {o1, o2}
    MaxBeacons = 2
INVARIANT AttackWindowsLabelled
