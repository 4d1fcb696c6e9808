----------------------------- MODULE PairLifetime -----------------------------
(***************************************************************************)
(* The paired resources of one session in ads-sandbox-manager: the ledger  *)
(* of a generation (PairIntent), the publishers that create its objects,   *)
(* the cleanup that captures, seals and tears them down, the retirement of *)
(* the generation, and what a stopped session keeps for the next one.      *)
(*                                                                         *)
(* Every object is created by one write, reserved in the ledger before it  *)
(* is sent and settled after it returned normally.  A write that timed out *)
(* or whose process died may still be performed, at any later time.        *)
(*                                                                         *)
(* Members of a generation are grouped as the code publishes them: the     *)
(* controls, the three CA clones, the three Pods of the first compute      *)
(* publication and the two relay inputs are one member each.               *)
(***************************************************************************)
EXTENDS Integers, FiniteSets, Sequences, SequencesExt

CONSTANTS MaxGen,     \* bound on claims of the session, each with its generation
          MaxFaults,  \* bound on failures: dead or late writes, crashes, lost work rows
          MaxTurns    \* bound on idle shutdowns
ASSUME BoundAssumption == MaxGen \in Nat

\* The order of PairCreation.build.
Plan == <<"control", "workspace", "clone", "topics", "compute", "custody", "input",
          "key", "state", "egress", "ipcvol", "ipcpod">>
Members == Range(Plan)
Objects == Members \ {"topics"}
Pods == {"compute", "egress", "ipcpod"}
Volumes == {"workspace", "clone", "state", "ipcvol"}
\* What an idle session keeps, and a resumed one inherits.
Kept == {"workspace", "key", "state"}
\* Objects named by the generation; all others are named by the sandbox.
OwnNamed == {"custody", "input"}
\* Volumes that the manifests of the Pods mount.
ComputeMounts == {"workspace", "clone"}
EgressMounts == {"state", "clone"}
IpcMounts == {"ipcvol"}
Mounts == [compute |-> ComputeMounts, egress |-> EgressMounts, ipcpod |-> IpcMounts]
\* Members whose uids the frozen payload of a reservation names: they are settled and
\* bound before it.
VolumeNeeds == {"control"}
ComputeNeeds == {"control", "workspace", "clone"}
InputNeeds == {"custody", "compute", "control"}
StateNeeds == {"key"}
EgressNeeds == {"input", "key", "state", "clone", "control"}
IpcNeeds == Objects \ {"ipcvol", "ipcpod"}
Needs(m) ==
    CASE m \in {"workspace", "clone"} -> VolumeNeeds
      [] m = "compute" -> ComputeNeeds
      [] m = "input" -> InputNeeds
      [] m = "state" -> StateNeeds
      [] m = "egress" -> EgressNeeds
      [] m \in {"ipcvol", "ipcpod"} -> IpcNeeds
      [] OTHER -> {}

Gens == 1..MaxGen
NoGen == 0
NoUid == 0      \* the uid of an object is the generation that created it

VARIABLES
    row,        \* the sandbox_session row with its session_pvc record
    intents,    \* the sandbox_pair_intent rows and the EgressState they anchor
    disposals,  \* generations with an open PairDisposal receipt
    works,      \* the cleanup_work rows
    objs,       \* objects in the cluster
    attached,   \* volumes attached to a node
    writes,     \* create calls a living publisher task waits for
    wire,       \* create calls nobody waits for any more
    builder,    \* PairCreation.build of the current claim
    rebuilt,    \* history: sandboxes whose idle work the registry rebuilt
    turns, faults

ledger == <<row, intents, disposals, works>>
cluster == <<objs, attached>>
calls == <<writes, wire>>
vars == <<ledger, cluster, calls, builder, rebuilt, turns, faults>>

NoIntent ==
    [born |-> FALSE, sb |-> 0, from |-> NoGen, fenced |-> FALSE, retired |-> FALSE,
     validated |-> FALSE, disp |-> [m \in Members |-> "unissued"],
     uid |-> [m \in Objects |-> NoUid]]
NoBuilder == [gen |-> NoGen, resume |-> FALSE, at |-> 0, waits |-> FALSE]

Init ==
    /\ row = [status |-> "none", sb |-> 1, gen |-> NoGen, pvc |-> "none"]
    /\ intents = [g \in Gens |-> NoIntent]
    /\ disposals = {} /\ works = {}
    /\ objs = {} /\ attached = {} /\ writes = {} /\ wire = {}
    /\ builder = NoBuilder /\ rebuilt = {} /\ turns = 0 /\ faults = 0

\* A failure, within its bound.
Fault == faults < MaxFaults /\ faults' = faults + 1

Live(g) == intents[g].born /\ ~intents[g].retired
Lifetime(sb) == {g \in Gens : intents[g].born /\ intents[g].sb = sb}

-----------------------------------------------------------------------------
(***************************************************************************)
(* Claims.                                                                 *)
(***************************************************************************)

\* PairRetirementRepository.require_destroyed_history.
DestroyedHistory(is, sb) ==
    \A g \in Gens : is[g].born => is[g].retired /\ is[g].sb # sb

\* PairTransferRepository.available: the newest generation of the sandbox is
\* retired and neither inherited from nor condemned.
Newest(sb) == CHOOSE g \in Lifetime(sb) : \A h \in Lifetime(sb) : h <= g
Available(sb) ==
    /\ Lifetime(sb) # {}
    /\ LET prior == Newest(sb) IN
        /\ intents[prior].retired
        /\ \A g \in Gens : intents[g].from # prior
        /\ prior \notin disposals

\* SessionRepository.claim, paired: the claim of a fresh or of a retained sandbox.
Claimed(r, status) == [r EXCEPT !.status = status, !.gen = @ + 1, !.pvc = "attaching"]
Builder(g, resume) == [gen |-> g, resume |-> resume, at |-> 0, waits |-> FALSE]

\* SessionProvisioner.provision for a session that is new or stopped.
Provision ==
    /\ row.status \in {"none", "stopped"} /\ row.gen < MaxGen
    /\ \/ row.pvc = "none" /\ DestroyedHistory(intents, row.sb)
       \/ row.pvc = "detached" /\ Available(row.sb)
    /\ row' = Claimed(row, "creating")
    /\ builder' = Builder(row.gen + 1, row.pvc = "detached")
    /\ UNCHANGED <<intents, disposals, works, cluster, calls, rebuilt, turns, faults>>

-----------------------------------------------------------------------------
(***************************************************************************)
(* The builder: one publication after another, in the order of Plan.       *)
(***************************************************************************)

\* PairIntentRepository._owned and _matches: the claim is the row's, and the
\* generation is neither fenced nor retired.
OwnsClaim(g) == row.status = "creating" /\ row.gen = g
Owned(g) == OwnsClaim(g) /\ intents[g].born /\ ~intents[g].fenced /\ ~intents[g].retired

\* PairTransferRepository.inherit: what the predecessor kept is settled and bound.
Inherited(g, prior) ==
    [NoIntent EXCEPT !.born = TRUE, !.sb = row.sb, !.from = prior,
        !.disp = [m \in Members |-> IF m \in Kept \cup {"topics"} THEN "settled" ELSE "unissued"],
        !.uid = [m \in Objects |-> IF m \in Kept THEN intents[prior].uid[m] ELSE NoUid]]

\* PairIntentRepository.begin.
Begin ==
    LET g == builder.gen IN
    /\ g # NoGen /\ builder.at = 0 /\ OwnsClaim(g)
    /\ IF builder.resume
       THEN /\ Available(row.sb)
            /\ intents' = [intents EXCEPT ![g] = Inherited(g, Newest(row.sb))]
       ELSE intents' = [intents EXCEPT ![g] = [NoIntent EXCEPT !.born = TRUE, !.sb = row.sb]]
    /\ builder' = [builder EXCEPT !.at = 1]
    /\ UNCHANGED <<row, disposals, works, cluster, calls, rebuilt, turns, faults>>

\* PairCreation._retained: the disk and the state volume that were kept are
\* there, and only then the transfer is validated.
Standing(m, g) == [m |-> m, sb |-> intents[g].sb, gen |-> intents[g].uid[m]] \in objs
Validate ==
    LET g == builder.gen IN
    /\ g # NoGen /\ builder.at = 1 /\ builder.resume /\ ~intents[g].validated /\ Owned(g)
    /\ \A m \in {"workspace", "state"} : Standing(m, g)
    /\ intents' = [intents EXCEPT ![g].validated = TRUE]
    /\ UNCHANGED <<row, disposals, works, cluster, calls, builder, rebuilt, turns, faults>>

Bound(g, m) == intents[g].disp[m] = "settled" /\ (m \in Objects => intents[g].uid[m] # NoUid)
Member == Plan[builder.at]
Building(ms) ==
    /\ builder.gen # NoGen /\ builder.at \in 1..Len(Plan) /\ Owned(builder.gen)
    /\ Member \in ms

\* The reservation of a member's only create call, committed before the call is
\* sent.  Its transaction re-reads the members the payload names (Needs).  What
\* is reserved already is observed, never sent again.
Reserve ==
    LET g == builder.gen IN
    /\ ~builder.waits
    /\ builder.resume => intents[g].validated
    /\ \A n \in Needs(Member) : Bound(g, n)
    /\ IF intents[g].disp[Member] = "unissued"
       THEN /\ intents' = [intents EXCEPT ![g].disp[Member] = "inflight"]
            /\ writes' = writes \cup {[m |-> Member, gen |-> g, done |-> FALSE]}
            /\ builder' = [builder EXCEPT !.waits = TRUE]
       ELSE /\ intents[g].disp[Member] = "settled"
            /\ builder' = [builder EXCEPT !.at = @ + 1]
            /\ UNCHANGED <<intents, writes>>

\* The builder goes on when the task has settled, and binds the uid it returned.
Bind ==
    LET g == builder.gen IN
    /\ builder.waits /\ intents[g].disp[Member] = "settled"
    /\ intents' = IF Member \in Objects THEN [intents EXCEPT ![g].uid[Member] = g] ELSE intents
    /\ builder' = [builder EXCEPT !.at = @ + 1, !.waits = FALSE]
    /\ UNCHANGED writes

Publish(ms) ==
    /\ Building(ms) /\ (Reserve \/ Bind)
    /\ UNCHANGED <<row, disposals, works, cluster, wire, rebuilt, turns, faults>>

PublishControls == Publish({"control"})
PublishVolumes == Publish({"workspace", "clone"})
PublishTopics == Publish({"topics"})
PublishCompute == Publish({"compute"})
PublishKeys == Publish({"custody"})
PublishInputs == Publish({"input"})
PublishStateKey == Publish({"key"})
PublishState == Publish({"state"})
PublishEgress == Publish({"egress"})
PublishIpc == Publish({"ipcvol", "ipcpod"})

\* The publisher task saw its call return: it settles the write, fenced or not,
\* but never that of a retired generation.
Settle(t) ==
    /\ t.done /\ ~intents[t.gen].retired
    /\ intents' = [intents EXCEPT ![t.gen].disp[t.m] = "settled"]
    /\ writes' = writes \ {t}
    /\ UNCHANGED <<row, disposals, works, cluster, wire, builder, rebuilt, turns, faults>>

\* paired_ready: the IPC of a generation of which everything is settled and bound.
Whole(g) == \A m \in Members : Bound(g, m)
Ready ==
    /\ row.status = "creating" /\ Owned(row.gen) /\ Whole(row.gen)
    /\ row' = [row EXCEPT !.status = "ready", !.pvc = "attached"]
    /\ builder' = NoBuilder
    /\ UNCHANGED <<intents, disposals, works, cluster, calls, rebuilt, turns, faults>>

\* The builder gives up: the retained objects differ, its write failed, its
\* deadline passed.  The task of its write goes on without it.
Stuck ==
    \/ builder.waits /\ intents[builder.gen].disp[Member] = "inflight"
        /\ \A t \in writes : t.gen # builder.gen
    \/ builder.at = 1 /\ builder.resume /\ ~intents[builder.gen].validated
        /\ \E m \in {"workspace", "state"} : ~Standing(m, builder.gen)
BuildFails ==
    /\ builder # NoBuilder /\ OwnsClaim(builder.gen)
    /\ IF Stuck THEN faults' = faults ELSE Fault
    /\ row' = [row EXCEPT !.status = "failed"]
    /\ builder' = NoBuilder
    /\ UNCHANGED <<intents, disposals, works, cluster, calls, rebuilt, turns>>

\* The manager's process dies: its tasks are forgotten, their calls are not.
Crash ==
    /\ builder # NoBuilder \/ writes # {}
    /\ Fault
    /\ builder' = NoBuilder /\ writes' = {}
    /\ wire' = wire \cup {[m |-> t.m, gen |-> t.gen] : t \in {u \in writes : ~u.done}}
    /\ UNCHANGED <<ledger, cluster, rebuilt, turns>>

-----------------------------------------------------------------------------
(***************************************************************************)
(* The cluster: create calls, mounts.                                      *)
(***************************************************************************)

Named(m, g) == {o \in objs : o.m = m /\ o.sb = intents[g].sb /\ (m \in OwnNamed => o.gen = g)}
Object(m, g) == [m |-> m, sb |-> intents[g].sb, gen |-> g]
Made(m, g) == IF m \in Objects THEN objs \cup {Object(m, g)} ELSE objs

\* The API server performs a create.  A Pod is placed at once, which attaches the
\* volumes it mounts; they detach some time after it is gone.
Mounted(v, os) == \E p \in os : p.m \in Pods /\ p.sb = v.sb /\ v.m \in Mounts[p.m]
Created(c) ==
    IF Named(c.m, c.gen) = {}
    THEN /\ objs' = Made(c.m, c.gen)
         /\ attached' = attached \cup {v \in objs : v.m \in Volumes /\ Mounted(v, Made(c.m, c.gen))}
    ELSE UNCHANGED <<objs, attached>>

\* The adapter observes what the payload names before it creates; the volumes are
\* cloned from sources that no session owns.
Dependencies(t) ==
    t.m \notin {"workspace", "clone"} => \A n \in Needs(t.m) : Standing(n, t.gen)

\* A call its task waits for.  A dependency that is gone, or a name that is taken by
\* another generation, ends the task without a settlement.
Perform(t) ==
    /\ ~t.done
    /\ IF Dependencies(t) THEN Created(t) ELSE UNCHANGED cluster
    /\ writes' = (writes \ {t}) \cup
        (IF Dependencies(t) /\ Named(t.m, t.gen) = {} THEN {[t EXCEPT !.done = TRUE]} ELSE {})
    /\ UNCHANGED <<ledger, wire, builder, rebuilt, turns, faults>>

\* The task's own deadline: the write stays in flight for ever.
TimesOut(t) ==
    /\ ~t.done /\ Fault
    /\ writes' = writes \ {t}
    /\ wire' = wire \cup {[m |-> t.m, gen |-> t.gen]}
    /\ UNCHANGED <<ledger, cluster, builder, rebuilt, turns>>

\* A call nobody waits for any more.
PerformLate(c) ==
    /\ wire' = wire \ {c}
    /\ Created(c)
    /\ UNCHANGED <<ledger, writes, builder, rebuilt, turns, faults>>

Detach(v) ==
    /\ v \in attached /\ ~Mounted(v, objs)
    /\ attached' = attached \ {v}
    /\ UNCHANGED <<ledger, objs, calls, builder, rebuilt, turns, faults>>

-----------------------------------------------------------------------------
(***************************************************************************)
(* Cleanup: admission, capture, seal, teardown.                            *)
(***************************************************************************)

\* LifecycleRepository.work with pair_snapshot: the ledger as it is now.  Without
\* a live generation there is no snapshot, and the row's own targets count.
Work(kind, sb, g) ==
    [kind |-> kind, sb |-> sb, gen |-> g, acked |-> kind # "idle", sealed |-> FALSE,
     disp |-> IF g = NoGen THEN NoIntent.disp ELSE intents[g].disp,
     uid |-> IF g = NoGen THEN NoIntent.uid ELSE intents[g].uid]
LiveHere == {g \in Lifetime(row.sb) : ~intents[g].retired}
Snapshot == IF LiveHere = {} THEN NoGen ELSE CHOOSE g \in LiveHere : TRUE

\* LifecycleRepository.idle.
Idle ==
    /\ row.status = "ready" /\ turns < MaxTurns /\ turns' = turns + 1
    /\ row' = [row EXCEPT !.status = "shutting_down", !.pvc = "detaching"]
    /\ works' = works \cup {Work("idle", row.sb, row.gen)}
    /\ UNCHANGED <<intents, disposals, cluster, calls, builder, rebuilt, faults>>

\* The IPC drained and acknowledged the shutdown.
ShutdownAck(w) ==
    /\ w.kind = "idle" /\ ~w.acked
    /\ works' = (works \ {w}) \cup {[w EXCEPT !.acked = TRUE]}
    /\ UNCHANGED <<row, intents, disposals, cluster, calls, builder, rebuilt, turns, faults>>

\* LifecycleRepository.recover: a verdict on a failed, overdue, unhealthy or
\* expired session.  Works of an unfinished cleanup keep their evidence; a session
\* that shuts down, rests or is being reaped is left alone.
Recover ==
    /\ row.status \in {"creating", "ready", "failed", "recovering"}
    /\ disposals = {}
    /\ IF row.status = "failed" \/ (row.status = "creating" /\ builder = NoBuilder)
       THEN faults' = faults ELSE Fault
    /\ works' = works \cup {Work("recovery", row.sb, Snapshot)}
    /\ row' = [row EXCEPT !.status = "recovering", !.sb = @ + 1, !.pvc = "none"]
    /\ builder' = NoBuilder
    /\ UNCHANGED <<intents, disposals, cluster, calls, rebuilt, turns>>

\* The exact objects of a retired generation, and the disk it kept.
Condemned(history) == Work("reap", row.sb, history)

\* LifecycleRepository.reap: with the ledger of some generation of the sandbox,
\* and the receipt of the newest.
Reap ==
    /\ row.status = "stopped" /\ row.pvc = "detached" /\ Available(row.sb)
    /\ row' = [row EXCEPT !.pvc = "destroying"]
    /\ \E history \in Lifetime(row.sb) : works' = works \cup {Condemned(history)}
    /\ disposals' = {Newest(row.sb)}
    /\ UNCHANGED <<intents, cluster, calls, builder, rebuilt, turns, faults>>

\* LifecycleRepository.owned_pair_cleanup: the transition the work belongs to.
Claims(w) ==
    /\ w.gen # NoGen /\ w.acked
    /\ row.status = [idle |-> "shutting_down", recovery |-> "recovering", reap |-> "stopped"][w.kind]
    /\ w.kind # "recovery" => row.sb = w.sb

\* fence_pair_creators: from now on the generation reserves and binds nothing.
Fenced(is, g) == [is EXCEPT ![g].fenced = TRUE]

\* PairCleanupCapture.capture: under the fence, the uid of every object that was
\* dispatched and is seen.  What is not seen stays unknown.
Seen(w, m) ==
    IF w.uid[m] # NoUid \/ w.disp[m] = "unissued" THEN w.uid[m]
    ELSE IF Object(m, w.gen) \in objs THEN w.gen ELSE NoUid
Recorded(w, uids) == [w EXCEPT !.uid = uids]
Captured(w) == Recorded(w, [m \in Objects |-> Seen(w, m)])
Capture(w) ==
    /\ Claims(w) /\ w.kind # "reap" /\ ~w.sealed
    /\ Captured(w) # w \/ ~intents[w.gen].fenced
    /\ intents' = Fenced(intents, w.gen)
    /\ works' = (works \ {w}) \cup {Captured(w)}
    /\ UNCHANGED <<row, disposals, cluster, calls, builder, rebuilt, turns, faults>>

\* pair_writers_settled: every write was never sent, or returned normally and its
\* object was seen; the ledger moved only from in flight to settled since.
Moved(before, now) == before = now \/ (before = "inflight" /\ now = "settled")
WritersSettledInFlight(w) ==
    \A m \in Objects : Moved(w.disp[m], intents[w.gen].disp[m]) /\ intents[w.gen].uid[m] \in {NoUid, w.uid[m]}
WritersSettled(w) ==
    LET i == intents[w.gen] IN
    /\ i.disp["topics"] # "inflight"
    /\ \A m \in Objects :
        /\ Moved(w.disp[m], i.disp[m])
        /\ i.uid[m] \in {NoUid, w.uid[m]}
        /\ \/ i.disp[m] = "unissued" /\ w.uid[m] = NoUid
           \/ i.disp[m] = "settled" /\ w.uid[m] # NoUid

\* seal_pair_cleanup compares the captured ledger with the retained one.  It makes
\* up for a write that settled after the capture's snapshot, and for nothing else.
Merged(w, m) ==
    IF w.disp[m] = "inflight" /\ intents[w.gen].disp[m] = "settled"
    THEN intents[w.gen].uid[m] ELSE w.uid[m]
SealMatches(w) == \A m \in Objects : Merged(w, m) = intents[w.gen].uid[m]

Seal(w) ==
    /\ Claims(w) /\ w.kind # "reap" /\ ~w.sealed /\ intents[w.gen].fenced
    /\ WritersSettled(w) /\ SealMatches(w)
    /\ works' = (works \ {w}) \cup {[w EXCEPT !.sealed = TRUE]}
    /\ UNCHANGED <<row, intents, disposals, cluster, calls, builder, rebuilt, turns, faults>>

\* PairTeardown._release_targets: the exact objects, by name and uid.  An idle
\* session keeps its disk and its egress state, unless the registry rebuilt the
\* work: its targets name the state too.
KeepsDiskOnly(w) == IF w.kind # "idle" THEN {} ELSE {"workspace"}
Keeps(w) ==
    IF w.kind # "idle" THEN {} ELSE IF w.sb \in rebuilt THEN {"workspace"} ELSE Kept
IsTargetNoControl(w, o) == o.sb = w.sb /\ o.gen = w.uid[o.m] /\ o.m \notin Keeps(w) \cup {"control"}
IsTarget(w, o) == o.sb = w.sb /\ o.gen = w.uid[o.m] /\ o.m \notin Keeps(w)
Targets(w) == {o \in objs : IsTarget(w, o)}
Rank(o) == IF o.m \in Pods THEN 1 ELSE IF o.m \in Volumes THEN 3 ELSE 2
GoneAnyway(w, rank) == TRUE
Gone(w, rank) == \A o \in Targets(w) : Rank(o) >= rank

\* CleanupAdapter.released: no attachment names the volume any more.
Released(v) == v \notin attached

\* Pods first, then controls and Secrets, then the volumes that are released.
Delete(w, o) ==
    /\ Claims(w) /\ (w.sealed \/ w.kind = "reap") /\ IsTarget(w, o)
    /\ Gone(w, Rank(o))
    /\ o.m \in Volumes => Released(o)
    /\ objs' = objs \ {o}
    /\ UNCHANGED <<ledger, attached, calls, builder, rebuilt, turns, faults>>

\* PairTeardown.release is complete: every target is absent.  A disk that is retained
\* is the captured one and released; one that is missing is passed over with a warning.
TornDown(w) ==
    /\ Claims(w) /\ (w.sealed \/ w.kind = "reap") /\ Targets(w) = {}
    /\ w.kind = "idle" =>
        \A o \in objs : o.m = "workspace" /\ o.sb = w.sb => o.gen = w.uid["workspace"] /\ Released(o)

-----------------------------------------------------------------------------
(***************************************************************************)
(* Retirement, disposal, and the registry that finds lost work.            *)
(***************************************************************************)

Retired(is, g) == [is EXCEPT ![g].retired = TRUE]

\* PairRetirementRepository.finish_idle: the generation retires, its disk detaches.
FinishIdle(w) ==
    /\ w.kind = "idle" /\ TornDown(w) /\ WritersSettled(w)
    /\ intents' = Retired(intents, w.gen)
    /\ row' = [row EXCEPT !.status = "stopped", !.pvc = "detached"]
    /\ works' = works \ {w}
    /\ UNCHANGED <<disposals, cluster, calls, builder, rebuilt, turns, faults>>

\* RecoveryExecutor._finish_paired: every generation of the session retires and the
\* fresh claim is made, in one transaction.
NeverCreated(w) == w.gen = NoGen /\ Lifetime(w.sb) = {}
AllRetired(ws) ==
    [g \in Gens |-> IF \E w \in ws : w.gen = g THEN [intents[g] EXCEPT !.retired = TRUE] ELSE intents[g]]
FinishRecovery ==
    LET ws == {w \in works : w.kind = "recovery"} IN
    /\ row.status = "recovering" /\ ws # {} /\ row.gen < MaxGen
    /\ \A w \in ws : NeverCreated(w) \/ (TornDown(w) /\ WritersSettled(w))
    /\ DestroyedHistory(AllRetired(ws), row.sb)
    /\ intents' = AllRetired(ws)
    /\ works' = works \ ws
    /\ row' = Claimed(row, "creating")
    /\ builder' = Builder(row.gen + 1, FALSE)
    /\ UNCHANGED <<disposals, cluster, calls, rebuilt, turns, faults>>

\* PairDisposalRepository.finish: the whole lifetime is gone, and its name with it.
FinishDisposal(w) ==
    /\ w.kind = "reap" /\ TornDown(w) /\ disposals # {}
    /\ disposals' = {} /\ works' = works \ {w}
    /\ row' = [row EXCEPT !.sb = @ + 1, !.pvc = "none"]
    /\ UNCHANGED <<intents, cluster, calls, builder, rebuilt, turns, faults>>

LoseWork(w) ==
    /\ w.gen # NoGen /\ Fault
    /\ works' = works \ {w}
    /\ UNCHANGED <<row, intents, disposals, cluster, calls, builder, rebuilt, turns>>

\* PairRegistry.reconcile: a generation of a session that is in a cleanup nobody
\* works at gets its work back.
ReconcileIdleOnly(g) == IF row.status = "shutting_down" THEN "idle" ELSE "none"
ReconcileRecoveryOnly(g) == IF ~intents[g].retired /\ row.status = "recovering" THEN "recovery" ELSE "none"
ReconcileKind(g) ==
    IF ~intents[g].retired
    THEN CASE row.status = "recovering" -> "recovery"
           [] row.status = "shutting_down" /\ row.sb = intents[g].sb -> "idle"
           [] OTHER -> "none"
    ELSE IF g \in disposals /\ intents[g].from = NoGen /\ row.pvc = "destroying" THEN "reap" ELSE "none"
Reconcile(g) ==
    /\ intents[g].born /\ \A w \in works : w.sb # intents[g].sb
    /\ ReconcileKind(g) # "none"
    /\ works' = works \cup
        {[Work(ReconcileKind(g), intents[g].sb, g) EXCEPT
            !.acked = ReconcileKind(g) # "idle" \/ Bound(g, "topics")]}
    /\ rebuilt' = IF ReconcileKind(g) = "idle" THEN rebuilt \cup {row.sb} ELSE rebuilt
    /\ UNCHANGED <<row, intents, disposals, cluster, calls, builder, turns, faults>>

-----------------------------------------------------------------------------
Publishing ==
    \/ PublishControls \/ PublishVolumes \/ PublishTopics \/ PublishCompute \/ PublishKeys
    \/ PublishInputs \/ PublishStateKey \/ PublishState \/ PublishEgress \/ PublishIpc
Build == Begin \/ Validate \/ Publishing \/ Ready \/ BuildFails
Calls ==
    \/ \E t \in writes : Perform(t) \/ TimesOut(t) \/ Settle(t)
    \/ \E c \in wire : PerformLate(c)
Storage == \E v \in attached : Detach(v)
Cleanup ==
    \E w \in works :
        \/ ShutdownAck(w) \/ Capture(w) \/ Seal(w) \/ LoseWork(w)
        \/ FinishIdle(w) \/ FinishDisposal(w)
        \/ \E o \in objs : Delete(w, o)
Admission == Provision \/ Idle \/ Recover \/ Reap \/ \E g \in Gens : Reconcile(g)

Next == Admission \/ Build \/ Crash \/ Calls \/ Storage \/ Cleanup \/ FinishRecovery
Spec == Init /\ [][Next]_vars

-----------------------------------------------------------------------------
(***************************************************************************)
(* Properties.                                                             *)
(***************************************************************************)

\* A retired generation is quiet: none of its create calls is outstanding, and of
\* its objects only what an idle session keeps is left.  A call that is performed
\* after the retirement would leave an object that no work names any more.
RetiredIsQuiet ==
    \A g \in Gens : intents[g].retired =>
        /\ \A c \in writes \cup wire : c.gen # g
        /\ \A o \in objs : o.gen = g => o.m \in Kept

\* What a resting session keeps is there: its disk, and its egress state with the
\* key that wraps it.  The exception is a session whose lost idle work the registry
\* rebuilt: those targets name the state as well (pair_registry.py:381-394).
RetainedKept ==
    row.status = "stopped" /\ row.pvc = "detached" =>
        \A m \in IF row.sb \in rebuilt THEN {"workspace"} ELSE Kept : Standing(m, Newest(row.sb))

\* A create call never finds its name taken by an object of an older generation:
\* "a new generation's dispatch must never collide with a stale label-fenced
\* object" (pair_teardown.py).  The task would fail, and its write be unresolved.
NothingCollides ==
    \A c \in writes : ~c.done => Named(c.m, c.gen) = {}

\* A teardown of an idle session takes what it must and no more.
TeardownLeavesRight == RetainedKept /\ NothingCollides

\* The storage of the session has one tenant at a time.
Tenant ==
    IF \E g \in Gens : Live(g) THEN CHOOSE g \in Gens : Live(g)
    ELSE IF disposals # {} THEN MaxGen + 1 ELSE NoGen
Tenancy == INSTANCE DiskTenancy WITH
    Tenants <- Gens, Reaper <- MaxGen + 1, Nobody <- NoGen,
    tenant <- Tenant,
    spent <- {g \in Gens : intents[g].retired},
    running <- {o.gen : o \in {p \in objs : p.m \in Pods}},
    disks <- {o.gen : o \in {p \in objs : p.m = "workspace"}}
OneTenant == Tenancy!Spec

\* Every worker that has something to do does it in the end.  Requests, idle
\* verdicts, the reaper and failures are nobody's duty.
Fairness ==
    /\ WF_vars(Begin) /\ WF_vars(Validate) /\ WF_vars(Publishing) /\ WF_vars(Ready)
    /\ WF_vars(Stuck /\ BuildFails)
    /\ WF_vars(\E t \in writes : Perform(t) \/ Settle(t))
    /\ WF_vars(\E c \in wire : PerformLate(c))
    /\ WF_vars(Storage)
    /\ WF_vars(row.status \in {"creating", "failed"} /\ Recover)
    /\ WF_vars(\E g \in Gens : Reconcile(g))
    /\ WF_vars(\E w \in works : Capture(w) \/ Seal(w) \/ FinishIdle(w) \/ FinishDisposal(w)
                                    \/ \E o \in objs : Delete(w, o))
    /\ WF_vars(FinishRecovery)
FairSpec == Spec /\ Fairness

\* Nothing stands between a recovery and its end: every write of a generation that
\* is not retired was never sent, or settled and bound, and no claim for a retained
\* sandbox was lost before its generation was recorded.
Provable ==
    /\ \A g \in Gens : Live(g) =>
        \A m \in Members : intents[g].disp[m] = "unissued" \/ Bound(g, m)
    /\ \A w \in works : w.gen = NoGen => NeverCreated(w)
    /\ row.gen < MaxGen
\* A recovery whose evidence is complete ends: the generation is captured, torn down
\* and retired, whatever work was lost on the way.
RecoveryEnds == (row.status = "recovering" /\ Provable) ~> row.status # "recovering"
\* An idle shutdown whose writes are settled ends with the session at rest.
IdleEnds ==
    (\E w \in works : w.kind = "idle" /\ w.acked) ~> row.status # "shutting_down"

\* "A late original writer settling between capture and seal is the same positive
\* evidence pair_writers_settled accepts" (lifecycle_store.py): what the one check
\* accepts as settled the seal accepts as well.
SealAcceptsEvidence ==
    \A w \in works : w.kind # "reap" /\ Claims(w) /\ WritersSettled(w) => SealMatches(w)

=============================================================================
