SPECIFICATION AnySpec
CONSTANTS
    \* DnssecTrust
    Depth = 2
    MaxAnchors = 2
    MaxSigners = 2
    \* DnssecDenial
    ZoneNames <- MCNames
    Contents <- MCContents
    Probes <- MCProbes
    Hash <- MCHash
    \* Resolution
    Queried = {"q", "a"}
    Question = "q"
    Root = "."
    Ttls = {1, 2}
    Upstreams = 2
    MaxSubqueries = 3
    MaxEndpoints = 2
    MaxAliases = 1
    Deadline = 2
    \* Membership
    Keys = {1, 2}
    Requests = {1, 2, 3}
    Cap = 2
    Maximum = 1
    MemberTime = 3
    MaxTtl = 3
    \* DnsService
    Datagrams = {1}
    Conns = {1, 2}
    Ids = {1, 2}
    MaxAccepted = 2
    MaxExecuting = 1
    MaxConnections = 1
    MaxOutstanding = 1
    MaxFrames = 2
    \* StatusAcquisition
    Reasons = {"key", "hold"}
    Hold = "hold"
    Advertised <- MCChain
    MaxFetches = 6
    MaxNumber = 3
    \* CertificateMirror
    TopLevel = 1
    Lifetime = 1
    MaxEntries = 1
    MaxOpen = 1
    FetchedCrls <- MCAsked
    MaxTime = 2
    MaxSerial = 3
    MaxCrashes = 1
INVARIANTS
    TrustEarned
    DenialIsSound
    ResolutionIsSound
    MembershipIsCurrent
    ServiceIsSound
    StatusIsTrue
    ShownStands
CHECK_DEADLOCK FALSE
