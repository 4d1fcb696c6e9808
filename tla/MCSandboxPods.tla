---------------------------- MODULE MCSandboxPods ----------------------------
(***************************************************************************)
(* Small instances of what runs in the Pods of a sandbox, checked in one   *)
(* run: the execution path, the guest executor, the delivery of egress     *)
(* policies, and of the egress Pod the durable identities, the HTTP/2      *)
(* proxy and the life of a flow. The constant names that two of them share *)
(* are told apart here.                                                    *)
(***************************************************************************)
EXTENDS Http2Proxy

CONSTANTS Execs, Pods, T, MaxTime, MaxGen, Idents, Oversize, Shutdowns, None, Failures,
    MaxRestarts, Repeated, GuestExecs, Pids, MaxPods, MaxCrashes, MaxRev, MaxInst,
    Faults, Jobs, UpKeys, MaxKeyGen, MaxEch, IdentityTime, MaxSeq, MaxAsked, Flows,
    MaxFlows, MaxRequests
ASSUME DeliveryAssumption == MaxInst \in Nat \ {0} /\ MaxRev \in Nat

ASSUME GuestAssumption == 0 \notin Pids /\ MaxPods \in Nat

ASSUME ExecAssumption ==
    T \in Nat /\ Pods # {} /\ Idents # {} /\ None \notin Execs /\ Failures \in BOOLEAN

ASSUME IdentityAssumption ==
    MaxEch \in Nat \ {0} /\ MaxKeyGen \in Nat /\ IdentityTime \in Nat \ {0} /\ MaxSeq \in Nat

ASSUME FlowsAssumption == MaxFlows \in Nat

\* The producers may append any message twice but a request.
ASSUME RequestsAppearOnce == "request" \notin Repeated

VARIABLES
    part,  \* the component that moves
    now, row, tx, call, owner, future, wlock, abortDue, observed, topic, log, replied,
    expired, status, worker, pending, gens, tasks, toSandbox, toMcp, dropped, startup,
    kafkaReady, stopping, failed, current, last, delivered, running, execGuest,
    pinging, shut, queue, acked, execStop, replies, execSent, ran, restarts, faulted,
    starts, verdict,
    podUid, daemon, used, tree, pidOf, file, store, pod, clean, ready, pc, cur, pid,
    exited, todo, outcome, escaped, harmed, crashes,
    saved, inbox, inst, policy, disk, floor, snapshot, instance, installed,
    deliveryFailed, stopped, reapply, holder, deliveryPc, attempt, expected,
    deliveryObserved, answer, checks, late, ping, deliverySent, deliveryRestarts,
    keys, pubs, up, ech, jobs, task, identityNow, identityCrashes, asked,
    stage, fence, accepting, flowsPolicy, slots, flow

Exec == INSTANCE SandboxExec WITH
    guest <- execGuest, stop <- execStop, sent <- execSent
Guest == INSTANCE GuestExecutor WITH
    Execs <- GuestExecs
Delivery == INSTANCE EgressDelivery WITH
    Checks <- {"c1"}, failed <- deliveryFailed, pc <- deliveryPc,
    observed <- deliveryObserved, sent <- deliverySent, restarts <- deliveryRestarts
Overlap == INSTANCE EgressDelivery WITH
    Faults <- FALSE, MaxRev <- 1, MaxRestarts <- 0, Checks <- {"c1", "c2"},
    failed <- deliveryFailed, pc <- deliveryPc, observed <- deliveryObserved,
    sent <- deliverySent, restarts <- deliveryRestarts
Identity == INSTANCE EgressIdentity WITH
    MaxTime <- IdentityTime, now <- identityNow, crashes <- identityCrashes
Flow == INSTANCE EgressFlows WITH
    Maximum <- MaxFlows, policy <- flowsPolicy

MCKinds == <<{"http"}, {"ws"}>>
MCData == <<1, 0>>

execVars == <<now, row, tx, call, owner, future, wlock, abortDue, observed, topic, log,
    replied, expired, status, worker, pending, gens, tasks, toSandbox, toMcp, dropped,
    startup, kafkaReady, stopping, failed, current, last, delivered, running,
    execGuest, pinging, shut, queue, acked, execStop, replies, execSent, ran, restarts,
    faulted, starts, verdict>>
guestVars == <<podUid, daemon, used, tree, pidOf, file, store, pod, clean, ready, pc,
    cur, pid, exited, todo, outcome, escaped, harmed, crashes>>
deliveryVars == <<saved, inbox, inst, policy, disk, floor, snapshot, instance,
    installed, deliveryFailed, stopped, reapply, holder, deliveryPc, attempt, expected,
    deliveryObserved, answer, checks, late, ping, deliverySent, deliveryRestarts>>
identityVars == <<keys, pubs, up, ech, jobs, task, identityNow, identityCrashes, asked>>
flowsVars == <<stage, fence, accepting, flowsPolicy, slots, flow>>
http2Vars == vars
anyVars == <<part, execVars, guestVars, deliveryVars, identityVars, http2Vars, flowsVars>>

\* In a behaviour one component moves; the variables of the others are zero.
AnyInit ==
    /\ part \in {"exec", "guest", "delivery", "overlap", "identity", "http2", "flows"}
    /\ \/ part = "exec" /\ Exec!Init
       \/ part # "exec" /\ now = 0 /\ row = 0 /\ tx = 0 /\ call = 0 /\ owner = 0 /\
          future = 0 /\ wlock = 0 /\ abortDue = 0 /\ observed = 0 /\ topic = 0 /\
          log = 0 /\ replied = 0 /\ expired = 0 /\ status = 0 /\ worker = 0 /\
          pending = 0 /\ gens = 0 /\ tasks = 0 /\ toSandbox = 0 /\ toMcp = 0 /\
          dropped = 0 /\ startup = 0 /\ kafkaReady = 0 /\ stopping = 0 /\ failed = 0 /\
          current = 0 /\ last = 0 /\ delivered = 0 /\ running = 0 /\ execGuest = 0 /\
          pinging = 0 /\ shut = 0 /\ queue = 0 /\ acked = 0 /\ execStop = 0 /\
          replies = 0 /\ execSent = 0 /\ ran = 0 /\ restarts = 0 /\ faulted = 0 /\
          starts = 0 /\ verdict = 0
    /\ \/ part = "guest" /\ Guest!Init
       \/ part # "guest" /\ podUid = 0 /\ daemon = 0 /\ used = 0 /\ tree = 0 /\
          pidOf = 0 /\ file = 0 /\ store = 0 /\ pod = 0 /\ clean = 0 /\ ready = 0 /\
          pc = 0 /\ cur = 0 /\ pid = 0 /\ exited = 0 /\ todo = 0 /\ outcome = 0 /\
          escaped = 0 /\ harmed = 0 /\ crashes = 0
    /\ \/ part = "delivery" /\ Delivery!Init
       \/ part = "overlap" /\ Overlap!Init
       \/ part \notin {"delivery", "overlap"} /\ saved = 0 /\ inbox = 0 /\ inst = 0 /\
          policy = 0 /\ disk = 0 /\ floor = 0 /\ snapshot = 0 /\ instance = 0 /\
          installed = 0 /\ deliveryFailed = 0 /\ stopped = 0 /\ reapply = 0 /\
          holder = 0 /\ deliveryPc = 0 /\ attempt = 0 /\ expected = 0 /\
          deliveryObserved = 0 /\ answer = 0 /\ checks = 0 /\ late = 0 /\ ping = 0 /\
          deliverySent = 0 /\ deliveryRestarts = 0
    /\ \/ part = "identity" /\ Identity!Init
       \/ part # "identity" /\ keys = 0 /\ pubs = 0 /\ up = 0 /\ ech = 0 /\ jobs = 0 /\
          task = 0 /\ identityNow = 0 /\ identityCrashes = 0 /\ asked = 0
    /\ \/ part = "http2" /\ Init
       \/ part # "http2" /\ ex = 0 /\ incoming = 0 /\ outgoing = 0 /\ held = 0 /\
          routes = 0 /\ wire = 0 /\ link = 0 /\ drain = 0 /\ stop = 0 /\
          graceful = 0 /\ closing = 0 /\ closed = 0 /\ guest = 0 /\ sent = 0
    /\ \/ part = "flows" /\ Flow!Init
       \/ part # "flows" /\ stage = 0 /\ fence = 0 /\ accepting = 0 /\
          flowsPolicy = 0 /\ slots = 0 /\ flow = 0
ExecMoves ==
    part = "exec" /\ Exec!Next /\ UNCHANGED <<part, guestVars, deliveryVars,
        identityVars, http2Vars, flowsVars>>
GuestMoves ==
    part = "guest" /\ Guest!Next /\ UNCHANGED <<part, execVars, deliveryVars,
        identityVars, http2Vars, flowsVars>>
DeliveryMoves ==
    part = "delivery" /\ Delivery!Next /\ UNCHANGED <<part, execVars, guestVars,
        identityVars, http2Vars, flowsVars>>
OverlapMoves ==
    part = "overlap" /\ Overlap!Next /\ UNCHANGED <<part, execVars, guestVars,
        identityVars, http2Vars, flowsVars>>
IdentityMoves ==
    part = "identity" /\ Identity!Next /\ UNCHANGED <<part, execVars, guestVars,
        deliveryVars, http2Vars, flowsVars>>
Http2Moves ==
    part = "http2" /\ Next /\ UNCHANGED <<part, execVars, guestVars, deliveryVars,
        identityVars, flowsVars>>
FlowMoves ==
    part = "flows" /\ Flow!Next /\ UNCHANGED <<part, execVars, guestVars, deliveryVars,
        identityVars, http2Vars>>
AnyNext == ExecMoves \/ GuestMoves \/ DeliveryMoves \/ OverlapMoves \/ IdentityMoves \/
    Http2Moves \/ FlowMoves
AnySpec == AnyInit /\ [][AnyNext]_anyVars


-----------------------------------------------------------------------------
\* The guest starts an execution at most once, and only what the door released.
StartsOnce ==
    part = "exec" => Exec!AtMostOneStart /\ Exec!StartsOnlyReleased /\ Exec!ResultMeansStarted

\* A call given up before it was released is never executed.
GivenUpNeverStarts == [][part = "exec" => Exec!GivenUpStays]_anyVars

\* Only the sessions' trees are killed, they do not meet in the guest, and what
\* survives its execution is recorded.
TreesAccounted ==
    part = "guest" =>
        /\ Guest!OnlySessionTreesKilled /\ Guest!OneTreeInGuest
        /\ Guest!SurvivorsAreRecorded /\ Guest!InterruptedIsReaped

\* Installation evidence names the process that enforces the policy, and a process
\* that was observed without one is going to be served.
EvidenceIsTrue == part \in {"delivery", "overlap"} => Delivery!EvidenceIsTrue /\ Delivery!ObservedIsServed

\* No egress process is moved to an older revision, across restarts of either end.
RevisionsNeverRegress ==
    [][(part \in {"delivery", "overlap"}) => Delivery!NoRegress]_anyVars

\* What a guest was told keeps its private keys, and a crash leaves a state that opens.
IdentitiesDurable == part = "identity" => Identity!IdentitiesDurable

\* DATA is credited once, responses reach their own stream, a graceful end is whole.
ExchangesHold == part = "http2" => ExchangesSound

\* A drain lets no new request through to the origin.
DrainHolds == [][part = "http2" => NoLateRequest]_anyVars

\* Whichever owner a flow fails or is cancelled under, it ends with nothing open; the
\* slots bound what is open, and a stop leaves none of it.
FlowsContained == part = "flows" => Flow!FlowsContained
=============================================================================
