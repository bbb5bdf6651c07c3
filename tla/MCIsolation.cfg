CONSTANTS
    Targets = {b0, b1}
    Nodes = {b0, b1, n2}
    node0 = b0
    persistence = 1
    clear_persistence = 1
    MaxWindows = 3
SPECIFICATION FairPipelineSpec
INVARIANTS
    PipelineTypeOK
    DNotLaterThanE
    NetworkWideAgreement
    ScheduleIsReplayable
PROPERTIES
    EachIsolationIsNew
    ImplementsPolicy
    EndsSettled
CHECK_DEADLOCK FALSE
