CONSTANTS
    r1 = r1
    r2 = r2
    Ids = {r1}
    Handles = {1, 2}
    Durations = {1}
    MaxTime = 2
    Capacity = 3
SPECIFICATION Spec

PROPERTIES TimedBlockHolds
CHECK_DEADLOCK FALSE
