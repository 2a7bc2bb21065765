CONSTANTS
    r1 = r1
    r2 = r2
    Ids <- TwoIds
    Handles = {1}
    Durations = {1}
    MaxTime = 1
    Capacity = 6
SPECIFICATION Spec
INVARIANTS TypeOK NoMissingBlocker NeverFull QueueOrder NoLostUnblock
PROPERTIES MomentsInOrder
SYMMETRY Symmetry
CHECK_DEADLOCK FALSE
