CONSTANTS
    Sels = {s1, s2}
    NoSel = NoSel
    On = On
    Topics = {"Liquidity", "PL", "Balances", "TradeSignals"}
    MaxFaults = 1
    MaxQueue = 1
SPECIFICATION FairSpec
INVARIANTS TypeOK NoSendBeforeOpen ServerAgrees PaintedBookIsSelected PagesLeaveNothing
PROPERTIES TasksEnd Recovers
CHECK_DEADLOCK FALSE
