CONSTANTS
    Targets = {b0}
    persistence = 2
    clear_persistence = 3
    MaxWindows = 7
SPECIFICATION Spec
INVARIANTS
    ConvictionEarned
    ReleaseEarned
    RecoveryCounterReady
    DwellInConfirmed
CHECK_DEADLOCK FALSE
