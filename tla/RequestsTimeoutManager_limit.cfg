CONSTANTS
    g1 = g1
    g2 = g2
    RequestsPerPeriod = 2
    Period = 2
    Gap = 1
    GroupIds <- TwoGroups
    GroupSizes = {1}
    Skew = 0
    MaxTime = 4
    MaxRequests = 5
SPECIFICATION Spec
INVARIANTS PeriodLimit
CHECK_DEADLOCK FALSE
