CONSTANTS
    t1 = t1
    t2 = t2
    Tabs = {t1, t2}
    MaxPairs = 2
    MaxRequests = 1
    MaxFaults = 0
SPECIFICATION FairSpec
PROPERTIES RefreshesEnd
CHECK_DEADLOCK FALSE
