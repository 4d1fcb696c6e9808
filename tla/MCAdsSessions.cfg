SPECIFICATION AnySpec
CONSTANTS
    None = None
    \* AdsRun
    Msgs = {m1, m2}
    MaxOrder = 2
    Tombs = {1, 2}
    \* ChatTurn
    ChatOrder = 0
    ChatTombs = {}
    MaxCrashes = 0
    Repeated = {}
    AdsRestarts = FALSE
    \* BrowserSession
    Requests = {1, 2}
    Life = 2
    Skew = 1
    MaxFaults = 2
    MaxTime = 3
    MaxGen = 3
INVARIANTS
    TranscriptSound
    FinishedIsComplete
    TurnsAgree
    RotationIsSafe
SYMMETRY Symmetry
CHECK_DEADLOCK FALSE
