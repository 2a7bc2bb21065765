CONSTANTS
    g1 = g1
    g2 = g2
    RequestsPerPeriod = 2
    Period = 2
    Gap = 1
    GroupIds <- TwoGroups
    GroupSizes = {1, 2}
    Skew = 1
    MaxTime = 4
    MaxRequests = 4
SPECIFICATION Spec
INVARIANTS TypeOK ScheduledLimit ScheduledInOrder InstantLimit
CHECK_DEADLOCK FALSE
SYMMETRY Symmetry
