SPECIFICATION FairSpec
CONSTANTS
    Msgs = {m1}
    MaxOrder = 0
    Tombs = {}
    MaxCrashes = 1
    None = None
    Repeated = {"request"}
    AdsRestarts = TRUE
PROPERTIES
    SessionFreed
    TurnEnds
CHECK_DEADLOCK FALSE
