CONSTANTS
    Targets = {b0}
    persistence = 2
    clear_persistence = 3
    MaxWindows = 7
SPECIFICATION Spec
CHECK_DEADLOCK FALSE
PROPERTY ConvictedOnConsecutiveWindows
