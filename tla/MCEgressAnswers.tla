--------------------------- MODULE MCEgressAnswers ---------------------------
(***************************************************************************)
(* Small instances of what the egress Pod answers a guest from, checked in *)
(* one run: the trust in a signed answer, the proof of a denial, the       *)
(* resolution of a name, the membership of a connection, the DNS service,  *)
(* the status of a certificate and the mirrored certificates.              *)
(***************************************************************************)
EXTENDS DnssecTrust, Sequences, TLC

CONSTANTS ZoneNames, Contents, Probes, Hash, Queried, Question, Root, Ttls, Upstreams,
    MaxSubqueries, MaxEndpoints, MaxAliases, Deadline, Keys, Requests, Cap, Maximum,
    MemberTime, MaxTtl, Datagrams, Conns, Ids, MaxAccepted, MaxExecuting,
    MaxConnections, MaxOutstanding, MaxFrames, Reasons, Hold, Advertised, MaxFetches,
    MaxNumber, TopLevel, Lifetime, MaxEntries, MaxOpen, FetchedCrls, MaxTime, MaxSerial,
    MaxCrashes

\* What the proofs assume of the constants.
ASSUME ResolutionAssumption ==
    Ttls \subseteq Nat /\ MaxAliases \in Nat /\ MaxSubqueries \in Nat /\ MaxEndpoints \in Nat
ASSUME MembershipAssumption == IsFiniteSet(Keys) /\ Cap \in Nat /\ Maximum \in Nat /\ MaxTtl \in Nat
ASSUME ServiceAssumption ==
    /\ IsFiniteSet(Datagrams) /\ IsFiniteSet(Conns) /\ IsFiniteSet(Ids)
    /\ MaxAccepted \in Nat /\ MaxExecuting \in Nat /\ MaxConnections \in Nat
ASSUME StatusAssumption == DOMAIN Advertised \subseteq Nat /\ {"none", "lifted"} \cap Reasons = {}
ASSUME MirrorAssumption ==
    TopLevel \in Nat /\ MaxSerial \in Nat /\ MaxCrashes \in Nat /\ FetchedCrls \subseteq {<<"signer", 0>>}

VARIABLES
    part,  \* the component that moves
    zone, style, shown,
    clock, purpose, job, plan, calls, messages, services, evidence, resolutionAnswer,
    outcome,
    now, cache, inflight, request, closed,
    accepted, connections, udp, conn, pending, owed, failed, asked, answered, server,
    ca, statusConn,
    mirrorConn, pair, heads, service, mirrorShown, serial, mirrorClock, crashes

Denial == INSTANCE DnssecDenial WITH
    Names <- ZoneNames
Resolving == INSTANCE Resolution WITH
    Names <- Queried, answer <- resolutionAnswer
Member == INSTANCE Membership WITH
    MaxTime <- MemberTime
Service == INSTANCE DnsService
Status == INSTANCE StatusAcquisition WITH
    conn <- statusConn
Mirror == INSTANCE CertificateMirror WITH
    MaxCrashes <- 0, Top <- TopLevel, conn <- mirrorConn, shown <- mirrorShown,
    clock <- mirrorClock
Restart == INSTANCE CertificateMirror WITH
    MaxSerial <- 2, Top <- TopLevel, conn <- mirrorConn, shown <- mirrorShown,
    clock <- mirrorClock

\* What the proofs assume of the names and of their hashes: what an authoritative server may
\* hold at a name, no name below a wildcard, and a hash for every name that is looked at.
ASSUME DenialAssumption ==
    /\ IsFiniteSet(ZoneNames) /\ ZoneNames \subseteq Seq(Nat) /\ Probes \subseteq Seq(Nat) /\ <<>> \in ZoneNames
    /\ \A x \in ZoneNames : Denial!Ancestors(x) \subseteq ZoneNames
    /\ \A x, y \in ZoneNames : Denial!Below(y, Denial!Star(x)) => y = Denial!Star(x)
    /\ \A x \in ZoneNames : \A types \in Contents[x] :
          /\ "SOA" \in types <=> x = <<>>
          /\ Denial!IsCut(types) => "DNAME" \notin types
          /\ (\E y \in ZoneNames : x = Denial!Star(y)) => "NS" \notin types
    /\ \A x \in ZoneNames : {x, Denial!Star(x)} \subseteq DOMAIN Hash
    /\ \A x \in Probes : Denial!Ancestors(x) \subseteq DOMAIN Hash
    /\ \A x \in DOMAIN Hash : Hash[x] \in Nat
    /\ \A x, y \in DOMAIN Hash : Hash[x] = Hash[y] => x = y

\* The zones of DnssecDenial are drawn from these names, with these types.
MCNames == {<<>>, <<0>>, <<1>>, <<1, 0>>, <<1, 1>>, <<2>>}
MCContents ==
    (<<>> :> {{"SOA", "NS", "DNSKEY"}}) @@ (<<0>> :> {{}, {"A"}})
    @@ (<<1>> :> {{}, {"A"}, {"CNAME"}, {"DNAME"}, {"NS"}, {"NS", "DS"}})
    @@ (<<1, 0>> :> {{}, {"A"}}) @@ (<<1, 1>> :> {{}, {"A"}, {"NS"}, {"NS", "DS"}})
    @@ (<<2>> :> {{"A"}})
MCProbes == MCNames \union {<<1, 2>>, <<1, 1, 1>>, <<2, 1>>, <<3>>}
HashOrder ==
    << <<1, 1>>, <<3>>, <<0>>, <<1, 2>>, <<2>>, <<>>, <<1, 1, 1>>, <<1>>, <<2, 0>>,
       <<1, 1, 0>>, <<1, 0>>, <<2, 1>>, <<0, 0>>, <<1, 0, 0>>, <<3, 0>>, <<1, 1, 1, 0>>,
       <<2, 1, 0>>, <<1, 2, 0>> >>
MCHash ==
    [n \in {HashOrder[i] : i \in DOMAIN HashOrder} |->
        CHOOSE i \in DOMAIN HashOrder : HashOrder[i] = n]

\* An origin's leaf with OCSP and partitioned CRLs with deltas, below an intermediate.
MCChain ==
    (0 :> [ocsp |-> TRUE, must |-> FALSE,
           crls |-> {<<{"key", "hold"}, 1>>, <<{"hold"}, 1>>},
           freshest |-> {<<{"key", "hold"}, 1>>, <<{"key", "hold"}, 2>>}])
    @@ (1 :> [ocsp |-> FALSE, must |-> FALSE,
              crls |-> {<<{"key"}, 1>>, <<{"hold"}, 1>>}, freshest |-> {}])
MCAsked == {<<"signer", 0>>}

denialVars == <<zone, style, shown>>
resolutionVars == <<clock, purpose, job, plan, calls, messages, services, evidence,
    resolutionAnswer, outcome>>
membershipVars == <<now, cache, inflight, request, closed>>
serviceVars == <<accepted, connections, udp, conn, pending, owed, failed, asked,
    answered, server>>
statusVars == <<ca, statusConn>>
mirrorVars == <<mirrorConn, pair, heads, service, mirrorShown, serial, mirrorClock,
    crashes>>
trustVars == vars
anyVars == <<part, trustVars, denialVars, resolutionVars, membershipVars, serviceVars, statusVars, mirrorVars>>

\* In a behaviour one component moves; the variables of the others are zero.
AnyInit ==
    /\ part \in {"trust", "denial", "resolution", "membership", "service", "status", "mirror", "restart"}
    /\ \/ part = "trust" /\ Init
       \/ part # "trust" /\ cuts = 0 /\ anchors = 0 /\ honest = 0 /\ stack = 0 /\
          memo = 0 /\ zones = 0 /\ todo = 0 /\ check = 0 /\ results = 0 /\
          answer = 0 /\ reply = 0
    /\ \/ part = "denial" /\ Denial!Init
       \/ part # "denial" /\ zone = 0 /\ style = 0 /\ shown = 0
    /\ \/ part = "resolution" /\ Resolving!Init
       \/ part # "resolution" /\ clock = 0 /\ purpose = 0 /\ job = 0 /\ plan = 0 /\
          calls = 0 /\ messages = 0 /\ services = 0 /\ evidence = 0 /\
          resolutionAnswer = 0 /\ outcome = 0
    /\ \/ part = "membership" /\ Member!Init
       \/ part # "membership" /\ now = 0 /\ cache = 0 /\ inflight = 0 /\ request = 0 /\
          closed = 0
    /\ \/ part = "service" /\ Service!Init
       \/ part # "service" /\ accepted = 0 /\ connections = 0 /\ udp = 0 /\ conn = 0 /\
          pending = 0 /\ owed = 0 /\ failed = 0 /\ asked = 0 /\ answered = 0 /\
          server = 0
    /\ \/ part = "status" /\ Status!Init
       \/ part # "status" /\ ca = 0 /\ statusConn = 0
    /\ \/ part = "mirror" /\ Mirror!Init
       \/ part = "restart" /\ Restart!Init
       \/ part \notin {"mirror", "restart"} /\ mirrorConn = 0 /\ pair = 0 /\
          heads = 0 /\ service = 0 /\ mirrorShown = 0 /\ serial = 0 /\
          mirrorClock = 0 /\ crashes = 0
TrustMoves ==
    part = "trust" /\ Next /\ UNCHANGED <<part, denialVars, resolutionVars,
        membershipVars, serviceVars, statusVars, mirrorVars>>
DenialMoves ==
    part = "denial" /\ Denial!Next /\ UNCHANGED <<part, trustVars, resolutionVars,
        membershipVars, serviceVars, statusVars, mirrorVars>>
ResolvingMoves ==
    part = "resolution" /\ Resolving!Next /\ UNCHANGED <<part, trustVars, denialVars,
        membershipVars, serviceVars, statusVars, mirrorVars>>
MemberMoves ==
    part = "membership" /\ Member!Next /\ UNCHANGED <<part, trustVars, denialVars,
        resolutionVars, serviceVars, statusVars, mirrorVars>>
ServiceMoves ==
    part = "service" /\ Service!Next /\ UNCHANGED <<part, trustVars, denialVars,
        resolutionVars, membershipVars, statusVars, mirrorVars>>
StatusMoves ==
    part = "status" /\ Status!Next /\ UNCHANGED <<part, trustVars, denialVars,
        resolutionVars, membershipVars, serviceVars, mirrorVars>>
MirrorMoves ==
    part = "mirror" /\ Mirror!Next /\ UNCHANGED <<part, trustVars, denialVars,
        resolutionVars, membershipVars, serviceVars, statusVars>>
RestartMoves ==
    part = "restart" /\ Restart!Next /\ UNCHANGED <<part, trustVars, denialVars,
        resolutionVars, membershipVars, serviceVars, statusVars>>
AnyNext == TrustMoves \/ DenialMoves \/ ResolvingMoves \/ MemberMoves \/
    ServiceMoves \/ StatusMoves \/ MirrorMoves \/ RestartMoves
AnySpec == AnyInit /\ [][AnyNext]_anyVars


-----------------------------------------------------------------------------
\* An answer called secure has its whole chain of signatures, and insecure its proof.
TrustEarned == part = "trust" => TrustIsEarned

\* A denial that is accepted is true of the zone.
DenialIsSound == part = "denial" => Denial!DenialIsSound

\* What a resolution answers and keeps as evidence is what the upstreams said, while
\* it lasts.
ResolutionIsSound == part = "resolution" => Resolving!ResolutionIsSound

\* A request is let through on evidence that is fresh for its own key.
MembershipIsCurrent == part = "membership" => Member!MembershipIsCurrent

\* The DNS service counts what it serves, within its limits, and ends with nothing left.
ServiceIsSound == part = "service" => Service!ServiceIsSound

\* A revocation handed on is what the issuer last said.
StatusIsTrue == part = "status" => Status!StatusIsTrue

\* What a guest was shown stays valid and keeps its revocation.
ShownStands == part \in {"mirror", "restart"} => Mirror!ShownStands
=============================================================================
