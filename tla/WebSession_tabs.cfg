CONSTANTS
    t1 = t1
    t2 = t2
    Tabs = {t1, t2}
    MaxPairs = 2
    MaxRequests = 1
    MaxFaults = 1
SPECIFICATION Spec
INVARIANTS TypeOK NothingLeftBehind RequestsDoNotMultiply
SYMMETRY Symmetric
CHECK_DEADLOCK FALSE
