CONSTANTS
    r1 = r1
    r2 = r2
    Ids = {r1}
    Handles = {1, 2, 3}
    Durations = {1, 2}
    MaxTime = 2
    Capacity = 3
SPECIFICATION FairSpec
INVARIANTS TimerIsAlive
PROPERTIES ImplementsContract ReleaseEnds TimedBlockEnds
CHECK_DEADLOCK FALSE
