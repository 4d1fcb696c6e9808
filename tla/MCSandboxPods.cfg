SPECIFICATION AnySpec
CONSTANTS
    None = None
    \* SandboxExec
    Execs = {e1}
    Pods = {p1}
    T = 1
    MaxTime = 3
    MaxGen = 1
    Idents = {i1}
    Oversize = {}
    Shutdowns = {}
    Failures = FALSE
    MaxRestarts = 1
    Repeated = {"ack-reply"}
    \* GuestExecutor
    GuestExecs = {g1, g2}
    Pids = {2, 3, 4}
    MaxPods = 2
    MaxCrashes = 1
    \* EgressDelivery
    MaxRev = 2
    MaxInst = 2
    Faults = TRUE
    \* EgressIdentity
    Jobs = {1}
    UpKeys = {1, 2}
    MaxKeyGen = 2
    MaxEch = 2
    IdentityTime = 3
    MaxSeq = 3
    MaxAsked = 2
    \* Http2Proxy
    Streams = {1, 2}
    Maximum = 2
    StreamKinds <- MCKinds
    Window = 1
    MaxData <- MCData
    \* EgressFlows
    Flows = {1, 2}
    MaxFlows = 1
    MaxRequests = 2
INVARIANTS
    StartsOnce
    TreesAccounted
    EvidenceIsTrue
    IdentitiesDurable
    ExchangesHold
    FlowsContained
PROPERTIES
    GivenUpNeverStarts
    RevisionsNeverRegress
    DrainHolds
CHECK_DEADLOCK FALSE
