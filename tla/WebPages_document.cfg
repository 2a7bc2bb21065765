CONSTANTS
    Catalogue <- MC_Catalogue
    Profiles <- MC_Profiles
    Typed <- MC_Typed
    Texts = {"good", "bad"}
    BadTexts = {"bad"}
    MaxClicks = 3
    MaxPending = 1
    MaxFaults = 1
SPECIFICATION FairSpec
INVARIANTS TypeOK UrlMatchesSelection PaintedIsSelected
PROPERTIES Settles PagesFillIn
CHECK_DEADLOCK FALSE
