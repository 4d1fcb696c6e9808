--------------------------- MODULE SessionLifecycle ---------------------------
(***************************************************************************)
(* The life of one session's sandbox in ads-sandbox-manager: its row, its  *)
(* session_pvc records and its cleanup_work rows in the database, the      *)
(* Deployments and the workspace disk in the cluster, and the workers that *)
(* carry state from one to the other: the builder of a creating claim, the *)
(* executors of cleanup work and the recovery executor.                    *)
(*                                                                         *)
(* A database transaction is a step.  Every Kubernetes call lies between   *)
(* two transactions and is a step of its own; a create may land after its  *)
(* caller has given up.  Admission re-reads what a signal observed, so a   *)
(* signal is kept only where it carries an observation of its own: a       *)
(* recovery verdict, an inventory of objects.                              *)
(*                                                                         *)
(* Unpaired configuration: no pair_inputs.  The IPC volume and the CA      *)
(* clones follow the same path as the Deployments and are left out.        *)
(***************************************************************************)
EXTENDS Integers, FiniteSets, Sequences

CONSTANTS
    MaxFaults,  \* bound on failures: workers that die or fail, overdue deadlines, lost locks
    MaxRescueFaults, \* bound on failures of the recovery executor on top of those
    MaxResumes, \* bound on requests that find the session stopped
    MaxTrouble  \* bound on all of these together

ASSUME LifecycleAssumption == MaxFaults \in Nat /\ MaxRescueFaults \in Nat /\ MaxResumes \in Nat /\ MaxTrouble \in Nat

Gens == 1..(MaxFaults + MaxRescueFaults + 1)             \* sandbox ids, in the order they are drawn
Disks == 1..(MaxFaults + MaxResumes + 1)    \* PVC lifetimes
Compute == {"ipc", "guest"}
NoDisk == 0
NoUid == 0

VARIABLES
    row,        \* the sandbox_session row
    pvcs,       \* the session_pvc records
    works,      \* the cleanup_work rows
    objs,       \* the Deployments of each sandbox id
    disks,      \* the workspace disks
    landing,    \* create calls the API server has not performed yet
    builders,   \* SessionProvisioner.build, one per claim
    execs,      \* LifecycleService.execute
    rescue,     \* RecoveryExecutor.execute; at most one
    verdicts,   \* sandbox ids a recovery verdict was published for
    shutdowns,  \* transitions a SandboxShutdown was published for
    sighting,   \* an inventory an orphan signal's admission has read
    recorded,   \* history: disks whose UID was recorded
    drawn,      \* PVC lifetimes drawn so far
    faults, resumes

database == <<row, pvcs, works>>
cluster == <<objs, disks, landing>>
workers == <<builders, execs, rescue>>
signals == <<verdicts, shutdowns, sighting>>
bounds == <<recorded, drawn, faults, resumes>>
vars == <<database, cluster, workers, signals, bounds>>

NoUids == [c \in Compute |-> NoUid]
NoRecord == [state |-> "none", at |-> 0, bound |-> FALSE, evidence |-> FALSE]
NoRescue == [at |-> 0, strike |-> {}, pending |-> {}]
NoSighting == [gen |-> 0, seen |-> {}]

Init ==
    /\ row = [status |-> "none", gen |-> 1, at |-> 0, disk |-> NoDisk, bound |-> FALSE,
              uid |-> NoUids]
    /\ pvcs = [d \in Disks |-> NoRecord]
    /\ works = {}
    /\ objs = [x \in Compute \X Gens |-> [phase |-> "none", uid |-> NoUid, mounts |-> NoDisk]]
    /\ disks = [d \in Disks |-> [phase |-> "absent", gen |-> 0]]
    /\ landing = {} /\ builders = {} /\ execs = {} /\ rescue = NoRescue
    /\ verdicts = {} /\ shutdowns = {} /\ sighting = NoSighting
    /\ recorded = {} /\ drawn = 0 /\ faults = 0 /\ resumes = 0

\* A failure, within its bound.
Trouble == faults + resumes < MaxTrouble
Fault == Trouble /\ faults < MaxFaults /\ faults' = faults + 1
\* A failure of recovery comes after the one that called for it.
RescueFault == Trouble /\ faults < MaxFaults + MaxRescueFaults /\ faults' = faults + 1

-----------------------------------------------------------------------------
(***************************************************************************)
(* The row, its disk record and the work rows.                             *)
(***************************************************************************)

\* advance: every transition gets a timestamp of its own.
Moved(r, status) == [r EXCEPT !.status = status, !.at = @ + 1]
Turned(p, state) == [p EXCEPT !.state = state, !.at = @ + 1]
PvcState == IF row.disk = NoDisk THEN "none" ELSE pvcs[row.disk].state
PvcAt == IF row.disk = NoDisk THEN 0 ELSE pvcs[row.disk].at


Target(part, g, d, uid, retain) ==
    [part |-> part, gen |-> g, disk |-> d, uid |-> uid, retain |-> retain,
     cleaned |-> FALSE, captured |-> FALSE]
IsCompute(t) == t.part \in Compute
DiskTarget(retain) ==
    Target("disk", row.gen, row.disk, IF row.bound THEN 1 ELSE NoUid, retain)
SandboxTargets(retain) ==
    {Target(c, row.gen, NoDisk, row.uid[c], FALSE) : c \in Compute}
        \cup (IF row.disk = NoDisk THEN {} ELSE {DiskTarget(retain)})

\* A work row of the session's current transition.  An orphan's has no session.
Work(kind, at, pvcAt, targets) ==
    [kind |-> kind, born |-> kind, gen |-> row.gen, disk |-> row.disk, at |-> at,
     pvcAt |-> pvcAt, ack |-> FALSE, targets |-> targets]
SameWork(v, w) == v.born = w.born /\ v.gen = w.gen /\ v.at = w.at
OfSession == {w \in works : w.born # "orphan"}
Recoveries == {w \in works : w.kind = "recovery"}

RowState == [idle |-> "shutting_down", reap |-> "stopped", service |-> "service"]
DiskState == [idle |-> "detaching", reap |-> "destroying", service |-> "detached"]
\* LifecycleRepository.owns: the exact transition the work was created for.
Owns(w) ==
    \/ w.kind = "orphan"
    \/ /\ row.gen = w.gen /\ row.disk = w.disk
       /\ row.status = RowState[w.kind] /\ row.at = w.at
       /\ w.disk # NoDisk => PvcState = DiskState[w.kind] /\ PvcAt = w.pvcAt

-----------------------------------------------------------------------------
(***************************************************************************)
(* Requests.                                                               *)
(***************************************************************************)

\* The transaction's claim of a row that is stopped, or was just inserted: the
\* same disk again or the record of a new one, and a builder for it.
ClaimableAnyway == TRUE
Claimable == row.disk = NoDisk \/ PvcState = "detached"
Claimed(r, d) ==
    [Moved(r, "creating") EXCEPT !.disk = d, !.bound = r.disk # NoDisk /\ @, !.uid = NoUids]
Builder(r, d) ==
    [gen |-> r.gen, at |-> r.at + 1, disk |-> d, bound |-> r.disk # NoDisk /\ r.bound,
     stage |-> "disk", issued |-> FALSE]
FreshRecord == [NoRecord EXCEPT !.state = "attaching"]

\* SessionProvisioner.provision: the first request of the session, or one that
\* finds it stopped.  Every other caller reads the row and waits.
Provision ==
    /\ row.status \in {"none", "stopped"} /\ Claimable
    /\ IF row.status = "stopped" THEN Trouble /\ resumes < MaxResumes /\ resumes' = resumes + 1
                                 ELSE resumes' = resumes
    /\ LET d == IF row.disk = NoDisk THEN drawn + 1 ELSE row.disk IN
        /\ drawn' = IF row.disk = NoDisk THEN drawn + 1 ELSE drawn
        /\ row' = Claimed(row, d)
        /\ pvcs' = [pvcs EXCEPT ![d] = IF row.disk = NoDisk THEN FreshRecord ELSE Turned(@, "attaching")]
        /\ builders' = builders \cup {Builder(row, d)}
    /\ UNCHANGED <<works, cluster, execs, rescue, signals, recorded, faults>>

-----------------------------------------------------------------------------
(***************************************************************************)
(* The builder of a claim: the disk, then the guest, then IPC.             *)
(***************************************************************************)

\* SessionRepository.owned.
Holds(b) == row.status = "creating" /\ row.gen = b.gen /\ row.at = b.at
Call(b) == [part |-> b.stage, gen |-> b.gen, disk |-> b.disk]
Exists(part, g, d) ==
    IF part = "disk" THEN disks[d].phase \in {"up", "deleting"} ELSE objs[<<part, g>>].phase # "none"
Intact(part, g, d) ==
    IF part = "disk" THEN disks[d].phase = "up" ELSE objs[<<part, g>>].phase = "up"
NextStage(stage) == IF stage = "disk" THEN "guest" ELSE "ipc"
Advanced(b) ==
    IF b.stage = "ipc" THEN {}
    ELSE {[b EXCEPT !.stage = NextStage(@), !.issued = FALSE, !.bound = TRUE]}

\* The claim is read, the disk verified, the object looked for and its create
\* issued when it is absent.  A disk known by its UID is never cloned again.
BuildCreate(b) ==
    /\ ~b.issued
    /\ IF ~Holds(b) THEN builders' = builders \ {b} /\ landing' = landing
       ELSE /\ b.bound => Intact("disk", b.gen, b.disk)
            /\ IF b.stage = "disk" /\ b.bound
                THEN /\ builders' = (builders \ {b}) \cup Advanced(b)
                     /\ landing' = landing
                ELSE /\ builders' = (builders \ {b}) \cup {[b EXCEPT !.issued = TRUE]}
                     /\ landing' = IF Exists(b.stage, b.gen, b.disk) THEN landing
                                   ELSE landing \cup {Call(b)}
    /\ UNCHANGED <<database, objs, disks, execs, rescue, signals, bounds>>

\* The call has returned: the object is read again and its UID recorded, if the
\* claim still stands.
BuildRecord(b) ==
    /\ b.issued /\ Call(b) \notin landing /\ Intact(b.stage, b.gen, b.disk)
    /\ IF ~Holds(b) THEN builders' = builders \ {b} /\ UNCHANGED <<row, pvcs, recorded>>
       ELSE /\ builders' = (builders \ {b}) \cup Advanced(b)
            /\ recorded' = IF b.stage = "disk" THEN recorded \cup {b.disk} ELSE recorded
            /\ IF b.stage = "disk"
                THEN /\ row' = [row EXCEPT !.bound = TRUE]
                     /\ pvcs' = [pvcs EXCEPT ![b.disk].bound = TRUE]
                ELSE /\ row' = [row EXCEPT !.uid[b.stage] = objs[<<b.stage, b.gen>>].uid]
                     /\ pvcs' = pvcs
    /\ UNCHANGED <<works, cluster, execs, rescue, signals, drawn, faults, resumes>>

\* An error or CREATE_SECONDS: the claim fails, if it still stands.  A call that
\* was issued may land all the same.
BuildFails(b) ==
    /\ Fault
    /\ builders' = builders \ {b}
    /\ IF Holds(b) THEN row' = Moved(row, "failed") /\ pvcs' = [pvcs EXCEPT ![b.disk] = Turned(@, "failed")]
                   ELSE UNCHANGED <<row, pvcs>>
    /\ UNCHANGED <<works, cluster, execs, rescue, signals, recorded, drawn, resumes>>

\* The replica dies: the row stays creating.
BuilderDies(b) ==
    /\ Fault
    /\ builders' = builders \ {b}
    /\ UNCHANGED <<database, cluster, execs, rescue, signals, recorded, drawn, resumes>>

\* SessionRepository.mark_ready, when IPC has announced itself.
MarkReady ==
    /\ row.status = "creating" /\ row.disk # NoDisk /\ row.bound
    /\ \A c \in Compute : row.uid[c] # NoUid
    /\ PvcState = "attaching"
    /\ row' = Moved(row, "ready")
    /\ pvcs' = [pvcs EXCEPT ![row.disk] = Turned(@, "attached")]
    /\ UNCHANGED <<works, cluster, workers, signals, bounds>>

-----------------------------------------------------------------------------
(***************************************************************************)
(* The cluster.                                                            *)
(***************************************************************************)

\* A create lands; one of a name that exists is refused with 409.
Land(call) ==
    /\ landing' = landing \ {call}
    /\ IF call.part = "disk"
        THEN /\ disks' = [disks EXCEPT ![call.disk].phase = "up", ![call.disk].gen = call.gen]
             /\ objs' = objs
        ELSE /\ objs' = [objs EXCEPT ![<<call.part, call.gen>>] =
                    IF @.phase # "none" THEN @
                    ELSE [phase |-> "up", uid |-> @.uid + 1,
                          mounts |-> IF call.part = "guest" THEN call.disk ELSE NoDisk]]
             /\ disks' = disks
    /\ UNCHANGED <<database, workers, signals, bounds>>

\* Foreground deletion ends once the pods are gone and their volumes detached,
ComputeGone(c, g) ==
    /\ objs[<<c, g>>].phase = "ending"
    /\ objs' = [objs EXCEPT ![<<c, g>>].phase = "none", ![<<c, g>>].mounts = NoDisk]
    /\ UNCHANGED <<database, disks, landing, workers, signals, bounds>>

\* a claim's once no pod uses it and its volume is reclaimed.
Mounted(d) == \E g \in Gens : objs[<<"guest", g>>].phase # "none" /\ objs[<<"guest", g>>].mounts = d
DiskGone(d) ==
    /\ disks[d].phase = "deleting" /\ ~Mounted(d)
    /\ disks' = [disks EXCEPT ![d].phase = "gone"]
    /\ UNCHANGED <<database, objs, landing, workers, signals, bounds>>

-----------------------------------------------------------------------------
(***************************************************************************)
(* Signals and their admission.                                            *)
(***************************************************************************)

\* IDLE_SECONDS and DETACHED_SECONDS do not pass between an inventory and the
\* transaction that judges it, which CONTROL_SECONDS bound.
LongQuiet == sighting = NoSighting

\* IDLE: a ready session without activity for IDLE_SECONDS shuts down; its disk is to be kept.
Idle ==
    /\ row.status = "ready" /\ PvcState = "attached" /\ LongQuiet
    /\ row' = Moved(row, "shutting_down")
    /\ pvcs' = [pvcs EXCEPT ![row.disk] = Turned(@, "detaching")]
    /\ works' = works \cup {Work("idle", row.at + 1, PvcAt + 1, SandboxTargets(TRUE))}
    /\ UNCHANGED <<cluster, workers, signals, bounds>>

\* REAP: the disk of a session long stopped is to be destroyed, with the
\* release evidence its idle work left.
Reap ==
    /\ row.status = "stopped" /\ PvcState = "detached" /\ LongQuiet
    /\ pvcs' = [pvcs EXCEPT ![row.disk] = Turned(@, "destroying")]
    /\ works' = works \cup {Work("reap", row.at, PvcAt + 1,
                    {[DiskTarget(FALSE) EXCEPT !.captured = pvcs[row.disk].evidence]})}
    /\ row' = row
    /\ UNCHANGED <<cluster, workers, signals, bounds>>

\* A verdict is published for a session that has failed or whose builder is no
\* more,
Condemn ==
    /\ row.gen \notin verdicts
    /\ \/ row.status = "failed"
       \/ /\ row.status = "creating" /\ \A b \in builders : ~Holds(b)
          /\ \E c \in Compute : row.uid[c] = NoUid
    /\ verdicts' = verdicts \cup {row.gen}
    /\ UNCHANGED <<database, cluster, workers, shutdowns, sighting, bounds>>

\* and for one that only looks dead: a ping unanswered, a claim, a cleanup, a
\* service or a recovery past its deadline.
Suspect ==
    /\ Fault
    /\ row.gen \notin verdicts
    /\ \/ row.status \in {"ready", "creating", "recovering", "service"}
       \/ row.status = "stopped" /\ PvcState = "destroying"
    /\ verdicts' = verdicts \cup {row.gen}
    /\ UNCHANGED <<database, cluster, workers, shutdowns, sighting, recorded, drawn, resumes>>

\* RECOVER: the sandbox id of a verdict is condemned, however late the verdict
\* comes, unless its workspace is to be kept; earlier works turn into recovery
\* works and keep their evidence.
Retained ==
    \/ row.status = "shutting_down"
    \/ row.status = "stopped" /\ PvcState # "destroying"
    \/ \E w \in OfSession : \E t \in w.targets : t.retain
Known(t) == t.part = "disk" /\ pvcs[t.disk].evidence
Recover ==
    /\ row.gen \in verdicts /\ ~Retained
    /\ row' = [Moved(row, "recovering") EXCEPT
                !.gen = @ + 1, !.disk = NoDisk, !.bound = FALSE, !.uid = NoUids]
    /\ works' = (works \ OfSession) \cup {[w EXCEPT !.kind = "recovery"] : w \in OfSession}
                  \cup {Work("recovery", row.at, PvcAt,
                            {[t EXCEPT !.captured = Known(t)] : t \in SandboxTargets(FALSE)})}
    /\ pvcs' = IF row.disk = NoDisk THEN pvcs ELSE [pvcs EXCEPT ![row.disk] = Turned(@, "failed")]
    /\ UNCHANGED <<cluster, workers, signals, bounds>>

\* LifecycleService._ownership of an object found in the cluster.
IsTarget(o, t) == o.part = t.part /\ o.gen = t.gen /\ o.disk = t.disk /\ o.uid \in {NoUid, t.uid}
ClaimedForGood(t) == \E w \in Recoveries : \E o \in w.targets : IsTarget(o, t)
ClaimedByRecovery(t) == \E w \in Recoveries : \E o \in w.targets : IsTarget(o, t) /\ ~o.cleaned
Ownership(t) ==
    IF ClaimedByRecovery(t) \/ (t.part = "disk" /\ pvcs[t.disk].state # "none") THEN "owned"
    ELSE IF row.gen # t.gen THEN "orphan"
    ELSE IF row.status = "stopped" THEN "stopped" ELSE "owned"

\* ORPHAN: the inventory is read before the transaction.  One of the row's own
\* sandbox matters only if the sandbox has stopped by then; of those, the one
\* that shows its last Deployment going, with a resume to come, is kept as a bound.
LastOfSandbox(g) ==
    /\ Trouble /\ resumes < MaxResumes /\ row.status = "shutting_down"
    /\ objs[<<"ipc", g>>].phase = "none" /\ objs[<<"guest", g>>].phase = "ending"
Inventory(g) ==
    {Target(c, g, NoDisk, objs[<<c, g>>].uid, FALSE) : c \in {c \in Compute : objs[<<c, g>>].phase # "none"}}
        \cup {Target("disk", g, d, 1, FALSE) :
                d \in {d \in Disks : disks[d].gen = g /\ disks[d].phase \in {"up", "deleting"}}}
Sight(g) ==
    /\ sighting = NoSighting /\ Inventory(g) # {}
    /\ IF g = row.gen THEN LastOfSandbox(g)
                      ELSE \E t \in Inventory(g) : Ownership(t) = "orphan"
    /\ sighting' = [gen |-> g, seen |-> Inventory(g)]
    /\ UNCHANGED <<database, cluster, workers, verdicts, shutdowns, bounds>>

\* and judged in it: leftovers of a stopped sandbox are serviced under a claim
\* of their own, those of a sandbox that is no more become orphan work.
AdmitSighting ==
    /\ sighting # NoSighting
    /\ LET own(o) == {t \in sighting.seen : Ownership(t) = o} IN
        \/ /\ own("stopped") # {} /\ row.status = "stopped" /\ PvcState \in {"none", "detached"}
           /\ row' = Moved(row, "service")
           /\ works' = works \cup {Work("service", row.at + 1, PvcAt, own("stopped"))}
        \/ /\ own("orphan") # {} /\ \A w \in works : w.kind = "orphan" => w.gen # sighting.gen
           /\ works' = works \cup {[Work("orphan", 0, 0, own("orphan")) EXCEPT
                                        !.gen = sighting.gen, !.disk = NoDisk]}
           /\ row' = row
        \/ /\ own("stopped") # {} => PvcState \notin {"none", "detached"}
           /\ own("orphan") # {} => \E w \in works : w.kind = "orphan" /\ w.gen = sighting.gen
           /\ UNCHANGED <<row, works>>
    /\ sighting' = NoSighting
    /\ UNCHANGED <<pvcs, cluster, workers, verdicts, shutdowns, bounds>>

-----------------------------------------------------------------------------
(***************************************************************************)
(* LifecycleService.execute, one pass over a work's targets.  The advisory *)
(* lock of the work keeps a second executor out for as long as the first   *)
(* one's database connection lives.                                        *)
(***************************************************************************)

\* An idle work asks IPC to drain, and waits for its acknowledgement.
PublishShutdown(w) ==
    /\ w.kind = "idle" /\ ~w.ack /\ Owns(w) /\ w.at \notin shutdowns
    /\ shutdowns' = shutdowns \cup {w.at}
    /\ UNCHANGED <<database, cluster, workers, verdicts, sighting, bounds>>

ShutdownAck(transition) ==
    /\ transition \in shutdowns
    /\ \E w \in works :
        /\ w.kind = "idle" /\ w.at = transition /\ ~w.ack /\ Owns(w)
        /\ works' = (works \ {w}) \cup {[w EXCEPT !.ack = TRUE]}
    /\ UNCHANGED <<row, pvcs, cluster, workers, signals, bounds>>

\* Evidence of a bound claim is captured while its object can be read, once.
Capture(t) ==
    IF t.part = "disk" /\ t.uid # NoUid /\ disks[t.disk].phase = "up" THEN [t EXCEPT !.captured = TRUE] ELSE t

\* No pod uses the claim and no attachment of its volume is left.
Released(t) == t.captured /\ ~Mounted(t.disk)
ReclaimedEarly(d) == disks[d].phase \in {"deleting", "gone"}
Reclaimed(d) == disks[d].phase = "gone"

\* CleanupAdapter.delete: only the object of that UID.
SameObjectAnyway(t) == TRUE
SameObject(t) == t.uid = objs[<<t.part, t.gen>>].uid
Deleted(t) ==
    [objs EXCEPT ![<<t.part, t.gen>>].phase = IF @ = "up" /\ SameObject(t) THEN "ending" ELSE @]
RemainsUndeleted(t) == objs[<<t.part, t.gen>>].phase = "up" /\ t.uid = objs[<<t.part, t.gen>>].uid
Remains(t) == objs[<<t.part, t.gen>>].phase # "none" /\ t.uid = objs[<<t.part, t.gen>>].uid

Order == [ipc |-> 1, guest |-> 2, disk |-> 3]
NextTarget(targets) ==
    CHOOSE t \in targets : \A u \in targets : Order[t.part] <= Order[u.part]

ExecStart(w) ==
    /\ w.kind # "recovery" /\ Owns(w) /\ (w.kind = "idle" => w.ack)
    /\ ~\E e \in execs : e.locked /\ SameWork(e.work, w)
    /\ LET v == [w EXCEPT !.targets = {Capture(t) : t \in @}] IN
        /\ works' = (works \ {w}) \cup {v}
        /\ execs' = execs \cup {[work |-> v, left |-> v.targets, strike |-> FALSE,
                                 pending |-> FALSE, locked |-> TRUE]}
    /\ UNCHANGED <<row, pvcs, cluster, builders, rescue, signals, bounds>>

\* Ownership is checked for each target, before
ExecCheck(e) ==
    /\ ~e.strike /\ e.left # {}
    /\ LET t == NextTarget(e.left)
           waits == t.part = "disk" /\ e.pending
           claimed == e.work.kind = "orphan" /\ Ownership(t) # "orphan" IN
        /\ execs' = IF Owns(e.work) /\ ~waits /\ ~claimed
                    THEN (execs \ {e}) \cup {[e EXCEPT !.strike = TRUE]} ELSE execs \ {e}
        /\ works' = IF claimed /\ ~waits THEN {w \in works : ~SameWork(w, e.work)} ELSE works
    /\ UNCHANGED <<row, pvcs, cluster, builders, rescue, signals, bounds>>

\* the target is deleted, or kept, in a step of its own.  A disk that is not
\* released, or not reclaimed yet, ends the pass.
ExecAct(e) ==
    /\ e.strike
    /\ LET t == NextTarget(e.left)
           on == [e EXCEPT !.strike = FALSE, !.left = @ \ {t}] IN
        \/ /\ IsCompute(t)
           /\ objs' = Deleted(t)
           /\ execs' = (execs \ {e}) \cup {[on EXCEPT !.pending = @ \/ Remains(t)]}
           /\ disks' = disks
        \/ /\ t.part = "disk" /\ t.retain
           /\ execs' = IF Released(t) /\ disks[t.disk].phase = "up" THEN (execs \ {e}) \cup {on} ELSE execs \ {e}
           /\ UNCHANGED <<objs, disks>>
        \/ /\ t.part = "disk" /\ ~t.retain
           /\ disks' = [disks EXCEPT ![t.disk].phase = IF @ = "up" /\ Released(t) THEN "deleting" ELSE @]
           /\ execs' = IF Released(t) /\ Reclaimed(t.disk) THEN (execs \ {e}) \cup {on} ELSE execs \ {e}
           /\ objs' = objs
    /\ UNCHANGED <<database, landing, builders, rescue, signals, bounds>>

\* LifecycleRepository.complete, when no Deployment was still there.
Finished(e) == e.left = {} /\ ~e.pending
ExecEnd(e) ==
    /\ ~e.strike /\ e.left = {}
    /\ execs' = execs \ {e}
    /\ LET w == e.work IN
        IF ~(Finished(e) /\ Owns(w) /\ \E v \in works : SameWork(v, w)) THEN UNCHANGED database
        ELSE
        /\ works' = {v \in works : ~SameWork(v, w)}
        /\ row' = CASE w.kind = "reap" -> [row EXCEPT !.disk = NoDisk, !.bound = FALSE]
                    [] w.kind = "orphan" -> row
                    [] OTHER -> [Moved(row, "stopped") EXCEPT !.uid = NoUids]
        /\ pvcs' = CASE w.kind = "reap" -> [pvcs EXCEPT ![w.disk] = NoRecord]
                     [] w.kind = "idle" -> [pvcs EXCEPT ![w.disk] =
                                                [Turned(@, "detached") EXCEPT !.evidence = TRUE]]
                     [] OTHER -> pvcs
    /\ UNCHANGED <<cluster, builders, rescue, signals, bounds>>

\* An executor dies, or loses the connection that holds its lock and goes on.
ExecDies(e) ==
    /\ Fault
    /\ execs' = execs \ {e}
    /\ UNCHANGED <<database, cluster, builders, rescue, signals, recorded, drawn, resumes>>
LockLost(e) ==
    /\ Fault /\ e.locked
    /\ execs' = (execs \ {e}) \cup {[e EXCEPT !.locked = FALSE]}
    /\ UNCHANGED <<database, cluster, builders, rescue, signals, recorded, drawn, resumes>>

-----------------------------------------------------------------------------
(***************************************************************************)
(* RecoveryExecutor.execute: every target of every recovery work is        *)
(* deleted and proven gone, compute first; then one transaction drops the  *)
(* records and claims a fresh disk.                                        *)
(***************************************************************************)

Standing == row.status = "recovering" /\ row.at = rescue.at
SameTarget(t, u) == t.part = u.part /\ t.gen = u.gen /\ t.disk = u.disk /\ t.uid = u.uid

\* An object without a committed UID is looked for: absent, it is as good as
\* cleaned; present, it gets its UID.  What an earlier work knows is kept.
Examined(t) ==
    LET twins == {u \in UNION {w.targets : w \in Recoveries} : SameTarget(t, u)}
        known == [t EXCEPT !.captured = \E u \in twins : u.captured,
                           !.cleaned = \E u \in twins : u.cleaned] IN
    IF known.captured \/ known.cleaned \/ t.uid # NoUid THEN Capture(known)
    ELSE IF ~Exists(t.part, t.gen, t.disk) THEN [t EXCEPT !.cleaned = TRUE]
    ELSE Capture([t EXCEPT !.uid = IF IsCompute(t) THEN objs[<<t.part, t.gen>>].uid ELSE 1])

RescueStart ==
    /\ rescue = NoRescue /\ row.status = "recovering"
    /\ \A w \in Recoveries : \A t \in w.targets : ~t.retain
    /\ works' = (works \ Recoveries)
                  \cup {[w EXCEPT !.targets = {Examined(t) : t \in @}] : w \in Recoveries}
    /\ rescue' = [NoRescue EXCEPT !.at = row.at]
    /\ UNCHANGED <<row, pvcs, cluster, builders, execs, signals, bounds>>

Uncleaned == {t \in UNION {w.targets : w \in Recoveries} : ~t.cleaned} \ rescue.pending
RescueCheck ==
    /\ rescue # NoRescue /\ rescue.strike = {}
    /\ \/ ~Standing /\ rescue' = NoRescue
       \/ /\ Standing
          /\ \E t \in Uncleaned :
                /\ IsCompute(t) \/ \A u \in Uncleaned : ~IsCompute(u)
                /\ rescue' = IF IsCompute(t) \/ rescue.pending = {}
                             THEN [rescue EXCEPT !.strike = {t}] ELSE NoRescue
       \/ Standing /\ Uncleaned = {} /\ rescue.pending # {} /\ rescue' = NoRescue
    /\ UNCHANGED <<database, cluster, builders, execs, signals, bounds>>

Cleaned(t) == {[w EXCEPT !.targets = {IF SameTarget(t, u) THEN [u EXCEPT !.cleaned = TRUE] ELSE u : u \in @}]
                 : w \in Recoveries}
\* _save refuses a row that has moved on.
Saved(t) ==
    IF Standing THEN works' = (works \ Recoveries) \cup Cleaned(t) /\ rescue' = [rescue EXCEPT !.strike = {}]
                ELSE works' = works /\ rescue' = NoRescue
RescueAct ==
    /\ \E t \in rescue.strike :
        \/ /\ IsCompute(t)
           /\ objs' = Deleted(t)
           /\ IF Remains(t) THEN /\ rescue' = [rescue EXCEPT !.strike = {}, !.pending = @ \cup {t}]
                                 /\ works' = works
                            ELSE Saved(t)
           /\ disks' = disks
        \/ /\ ~IsCompute(t)
           /\ disks' = [disks EXCEPT ![t.disk].phase = IF @ = "up" /\ Released(t) THEN "deleting" ELSE @]
           /\ IF Released(t) /\ Reclaimed(t.disk) THEN Saved(t) ELSE rescue' = NoRescue /\ works' = works
           /\ objs' = objs
    /\ UNCHANGED <<row, pvcs, landing, builders, execs, signals, bounds>>

\* No disk record without proof that its disk is gone.
Proven(d) ==
    \E w \in Recoveries : \E t \in w.targets :
        t.part = "disk" /\ t.disk = d /\ t.cleaned /\ (pvcs[d].bound => t.uid # NoUid)
RescueFinish ==
    /\ rescue # NoRescue /\ rescue.strike = {} /\ Standing
    /\ Uncleaned = {} /\ rescue.pending = {}
    /\ \A d \in Disks : pvcs[d].state # "none" => Proven(d)
    /\ works' = works \ Recoveries
    /\ LET stopped == Moved(row, "stopped") IN
        /\ row' = Claimed(stopped, drawn + 1)
        /\ builders' = builders \cup {Builder(stopped, drawn + 1)}
    /\ pvcs' = [[d \in Disks |-> NoRecord] EXCEPT ![drawn + 1] = FreshRecord]
    /\ drawn' = drawn + 1
    /\ rescue' = NoRescue
    /\ UNCHANGED <<cluster, execs, signals, recorded, faults, resumes>>

\* An error or RECOVERY_SECONDS: the row fails, if it has not moved on; or the
\* replica dies.
RescueFails ==
    /\ RescueFault /\ rescue # NoRescue
    /\ rescue' = NoRescue
    /\ row' = IF Standing THEN Moved(row, "failed") ELSE row
    /\ UNCHANGED <<pvcs, works, cluster, builders, execs, signals, recorded, drawn, resumes>>
RescueDies ==
    /\ RescueFault /\ rescue # NoRescue
    /\ rescue' = NoRescue
    /\ UNCHANGED <<database, cluster, builders, execs, signals, recorded, drawn, resumes>>

-----------------------------------------------------------------------------
Build == \E b \in builders : BuildCreate(b) \/ BuildRecord(b)
Step(e) == ExecCheck(e) \/ ExecAct(e) \/ ExecEnd(e)
Execute == \E e \in execs : Step(e)
Rescue == RescueCheck \/ RescueAct \/ RescueFinish
Cluster ==
    \/ \E call \in landing : Land(call)
    \/ \E c \in Compute, g \in Gens : ComputeGone(c, g)
    \/ \E d \in Disks : DiskGone(d)
Breaks ==
    \/ Suspect \/ RescueFails \/ RescueDies
    \/ \E b \in builders : BuildFails(b) \/ BuilderDies(b)
    \/ \E e \in execs : ExecDies(e) \/ LockLost(e)

Next ==
    \/ Provision \/ Build \/ MarkReady \/ Cluster \/ Breaks
    \/ Idle \/ Reap \/ Condemn \/ Recover \/ AdmitSighting
    \/ \E g \in Gens : Sight(g)
    \/ \E w \in works : PublishShutdown(w) \/ ExecStart(w)
    \/ \E t \in shutdowns : ShutdownAck(t)
    \/ Execute \/ RescueStart \/ Rescue

Spec == Init /\ [][Next]_vars

\* One pass after another: of an executor for a work of the session's own
\* transition, of one for an orphan, of the recovery executor.  Works are queued
\* by deadline and an orphan's is put off at each pass, so none starves another.
OwnPass ==
    \/ \E w \in OfSession : ExecStart(w)
    \/ \E e \in execs : e.work.born # "orphan" /\ Step(e)
OrphanPass(g) ==
    \/ \E w \in works \ OfSession : w.gen = g /\ ExecStart(w)
    \/ \E e \in execs : e.work.born = "orphan" /\ e.work.gen = g /\ Step(e)
RescuePass == RescueStart \/ Rescue

\* What is taken once and leads on: builds, the cluster, admissions, messages.
Progress ==
    \/ Build \/ MarkReady \/ Cluster \/ Condemn \/ Recover
    \/ \E w \in works : PublishShutdown(w)
    \/ \E t \in shutdowns : ShutdownAck(t)

\* The workers poll, the consumers resume from committed offsets and the cluster
\* does what it was asked: none stops for good.  A scan that keeps meeting an
\* orphan admits it in the end.  Nothing forces a request, an idle period, a
\* reaping or a fault.
Fairness ==
    /\ WF_vars(Progress) /\ WF_vars(OwnPass) /\ WF_vars(RescuePass)
    /\ WF_vars(AdmitSighting)
    /\ WF_vars(\E g \in Gens : OrphanPass(g))
    /\ SF_vars(\E g \in Gens : g # row.gen /\ Sight(g))
FairSpec == Spec /\ Fairness

-----------------------------------------------------------------------------
(***************************************************************************)
(* While a session is stopped with its disk detached, nothing of its       *)
(* sandbox exists or is about to: no Deployment, no create still to land.  *)
(* A resume reuses the sandbox id, so a leftover would run beside it.      *)
(***************************************************************************)
DetachedIsUnused ==
    (row.status = "stopped" /\ PvcState = "detached") =>
        /\ \A c \in Compute : objs[<<c, row.gen>>].phase = "none"
        /\ \A call \in landing : call.gen # row.gen
        /\ ~Mounted(row.disk)

(***************************************************************************)
(* A ready session has all it runs on: both Deployments as recorded and    *)
(* its own disk under the guest, whatever stale executors, orphan sweeps   *)
(* and late creates did before.                                            *)
(***************************************************************************)
ReadyIsWhole ==
    row.status = "ready" =>
        /\ \A c \in Compute : objs[<<c, row.gen>>].phase = "up" /\ objs[<<c, row.gen>>].uid = row.uid[c]
        /\ objs[<<"guest", row.gen>>].mounts = row.disk
        /\ disks[row.disk].phase = "up"

(***************************************************************************)
(* The workspace a session is mapped to is never deleted unless it is      *)
(* being reaped, nor one an idle work holds: not by a late verdict, not by *)
(* a stale executor, not by an orphan sweep.                               *)
(***************************************************************************)
WorkspaceKept ==
    /\ (row.disk # NoDisk /\ row.bound /\ PvcState # "destroying") => disks[row.disk].phase = "up"
    /\ \A w \in works : \A t \in w.targets : t.retain => disks[t.disk].phase = "up"

(***************************************************************************)
(* The record of a disk outlives the disk: a bound disk that is not gone   *)
(* still has the record through which it is found and reclaimed.           *)
(***************************************************************************)
RecordOutlivesDisk ==
    \A d \in Disks : d \in recorded /\ pvcs[d].state = "none" => disks[d].phase = "gone"

\* Wherever the disk of a session stands, the database tells who may use it.
DiskAccounted == DetachedIsUnused /\ RecordOutlivesDisk

(***************************************************************************)
(* A session does not stay between two states: whatever failed, it ends up *)
(* ready, or stopped with its workspace.  A late create of the old sandbox *)
(* that holds the disk recovery waits for is left to the orphan scan.      *)
(***************************************************************************)
SessionSettles ==
    (row.status \notin {"none", "ready", "stopped"}) ~> (row.status \in {"ready", "stopped"})
=============================================================================
