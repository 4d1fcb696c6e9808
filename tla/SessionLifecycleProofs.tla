----------------------- MODULE SessionLifecycleProofs -----------------------
(***************************************************************************)
(* Machine-checked safety of one session's sandbox, for any number of      *)
(* failures, failed recoveries and resumes.                                *)
(***************************************************************************)
EXTENDS SessionLifecycle, TLAPS

Statuses == {"none", "creating", "ready", "failed", "shutting_down", "stopped", "recovering", "service"}
PvcStates == {"none", "attaching", "attached", "detaching", "detached", "destroying", "failed"}
Parts == {"ipc", "guest", "disk"}
Kinds == {"idle", "reap", "service", "orphan", "recovery"}
MaybeDisk == Disks \cup {NoDisk}
Targets ==
    [part : Parts, gen : Gens, disk : MaybeDisk, uid : Nat, retain : BOOLEAN,
     cleaned : BOOLEAN, captured : BOOLEAN]
Rows == [status : Statuses, gen : Gens, at : Nat, disk : MaybeDisk, bound : BOOLEAN,
         uid : [Compute -> Nat]]
Records == [state : PvcStates, at : Nat, bound : BOOLEAN, evidence : BOOLEAN]
Works == [kind : Kinds, born : Kinds, gen : Gens, disk : MaybeDisk, at : Nat, pvcAt : Nat,
          ack : BOOLEAN, targets : SUBSET Targets]
Objects == [phase : {"none", "up", "ending"}, uid : Nat, mounts : MaybeDisk]
Volumes == [phase : {"absent", "up", "deleting", "gone"}, gen : Nat]
Calls == [part : Parts, gen : Gens, disk : Disks]
Builders == [gen : Gens, at : Nat, disk : Disks, bound : BOOLEAN, stage : Parts, issued : BOOLEAN]
Executors == [work : Works, left : SUBSET Targets, strike : BOOLEAN, pending : BOOLEAN,
              locked : BOOLEAN]

TypeOK ==
    /\ row \in Rows
    /\ pvcs \in [Disks -> Records]
    /\ works \subseteq Works
    /\ objs \in [Compute \X Gens -> Objects]
    /\ disks \in [Disks -> Volumes]
    /\ landing \subseteq Calls
    /\ builders \subseteq Builders
    /\ execs \subseteq Executors
    /\ rescue \in [at : Nat, strike : SUBSET Targets, pending : SUBSET Targets]
    /\ verdicts \subseteq Nat
    /\ sighting \in [gen : Nat, seen : SUBSET Targets]
    /\ sighting # NoSighting => sighting.gen \in Gens
    /\ recorded \subseteq Disks
    /\ drawn \in Nat /\ faults \in Nat /\ resumes \in Nat

-----------------------------------------------------------------------------
\* The row and the disk record move together.
DiskStates ==
    [none |-> {}, creating |-> {"attaching"}, ready |-> {"attached"},
     failed |-> {"failed"}, shutting_down |-> {"detaching"},
     stopped |-> {"detached", "destroying"}, recovering |-> {}, service |-> {"detached"}]
RowAgrees ==
    /\ row.disk # NoDisk => /\ row.disk <= drawn
                            /\ PvcState \in DiskStates[row.status]
    /\ row.status \in {"creating", "ready", "shutting_down"} => row.disk # NoDisk
    /\ row.status \in {"ready", "shutting_down", "stopped", "service"} /\ row.disk # NoDisk => row.bound

\* What a gen and a disk cost: a failure each, or a resume.
Lost == row.status = "creating" /\ (\A b \in builders : ~Holds(b)) /\ \E c \in Compute : row.uid[c] = NoUid
Spent == row.gen \in verdicts \/ row.status = "failed" \/ Lost
Ordinary == IF faults < MaxFaults THEN faults ELSE MaxFaults
WithinBounds ==
    /\ faults <= MaxFaults + MaxRescueFaults /\ resumes <= MaxResumes
    /\ \A g \in verdicts : g <= row.gen
    /\ row.gen <= faults + 1 /\ (Spent => row.gen <= faults)
    /\ row.status = "none" => drawn = 0 /\ row.gen \notin verdicts
    /\ drawn <= 1 + resumes + Ordinary
    /\ Spent \/ row.status = "recovering" => drawn <= resumes + Ordinary
    /\ row.gen \in verdicts /\ row.status = "recovering" => drawn + 1 <= resumes + Ordinary

\* The builder of the claim that stands.
Building(b) ==
    /\ b.disk = row.disk
    /\ b.stage = "disk" =>
        /\ \A c \in Compute : row.uid[c] = NoUid
        /\ b.bound => row.bound /\ ~b.issued
        /\ ~b.bound => ~row.bound
        /\ ~b.bound /\ ~b.issued =>
            disks[row.disk].phase = "absent" /\ \A call \in landing : call.part = "disk" => call.disk # row.disk
    /\ b.stage # "disk" => row.bound /\ row.uid["ipc"] = NoUid
    /\ b.stage = "guest" => row.uid["guest"] = NoUid
    /\ b.stage = "ipc" => row.uid["guest"] # NoUid
BuildersSound ==
    /\ \A b \in builders : b.at <= row.at /\ (Holds(b) => Building(b))
    /\ \A a, b \in builders : a.at = b.at => a = b

\* A create that may still land.
CallSound(call) ==
    /\ call.gen <= row.gen /\ call.disk <= drawn
    /\ call.part = "disk" =>
        /\ disks[call.disk].phase = "absent"
        /\ \A other \in landing : other.part = "disk" /\ other.disk = call.disk => other = call
    /\ call.gen = row.gen =>
        /\ row.status \in {"creating", "failed"}
        /\ row.status = "creating" =>
            /\ call.disk = row.disk
            /\ call.part = "disk" => ~row.bound
            /\ call.part # "disk" => row.uid[call.part] = NoUid
    /\ call.part = "guest" /\ call.disk = row.disk => call.gen = row.gen
LandingSound == \A call \in landing : CallSound(call)

\* The Deployments: of sandbox ids drawn, under UIDs of their own.
Placed ==
    /\ \A c \in Compute, g \in Gens :
        objs[<<c, g>>].phase # "none" =>
            /\ g <= row.gen /\ objs[<<c, g>>].uid # NoUid
            /\ objs[<<c, g>>].mounts # NoDisk => objs[<<c, g>>].mounts <= drawn
    /\ \A c \in Compute : row.uid[c] <= objs[<<c, row.gen>>].uid
\* The session's disk is under no sandbox but its own.
OneTenant ==
    \A g \in Gens :
        objs[<<"guest", g>>].phase # "none" /\ objs[<<"guest", g>>].mounts = row.disk /\ row.disk # NoDisk => g = row.gen
NoneAtRest ==
    row.status \in {"none", "stopped", "service", "recovering"} =>
        \A c \in Compute : objs[<<c, row.gen>>].phase = "none"
BuiltSoFar ==
    row.status = "creating" =>
        /\ \A c \in Compute :
            row.uid[c] # NoUid => objs[<<c, row.gen>>].phase = "up" /\ objs[<<c, row.gen>>].uid = row.uid[c]
        /\ objs[<<"guest", row.gen>>].phase # "none" => objs[<<"guest", row.gen>>].mounts = row.disk
Whole ==
    row.status = "ready" =>
        /\ \A c \in Compute : objs[<<c, row.gen>>].phase = "up"
        /\ objs[<<"guest", row.gen>>].mounts = row.disk
UidsAgree ==
    row.status \in {"ready", "shutting_down"} =>
        \A c \in Compute : objs[<<c, row.gen>>].uid = row.uid[c]
DeploymentsSound == Placed /\ OneTenant /\ NoneAtRest /\ BuiltSoFar /\ Whole /\ UidsAgree

\* The disks.
DrawnDisks == \A d \in Disks : disks[d].phase # "absent" => d <= drawn
OwnDisk == row.disk # NoDisk /\ row.bound /\ PvcState # "destroying" => disks[row.disk].phase = "up"
RecordedDisks ==
    \A d \in recorded :
        /\ d <= drawn /\ disks[d].phase # "absent"
        /\ pvcs[d].state # "none" => pvcs[d].bound
        /\ pvcs[d].state = "none" => disks[d].phase = "gone"
DisksSound == DrawnDisks /\ OwnDisk /\ RecordedDisks

-----------------------------------------------------------------------------
\* A target that is known to be of the past, and one that may be current.
Past(t) == IF t.part = "disk" THEN t.disk # NoDisk /\ t.disk <= drawn /\ t.disk # row.disk ELSE t.gen < row.gen
Seen(t) ==
    IF t.part = "disk" THEN t.disk # NoDisk /\ t.disk <= drawn
    ELSE t.gen <= row.gen /\ t.uid <= objs[<<t.part, t.gen>>].uid

CleanedIsGone(t) ==
    t.part = "disk" /\ t.cleaned /\ t.uid # NoUid => disks[t.disk].phase = "gone"

\* The targets of an idle work: the Deployments as recorded.
Recorded(t) == t.part # "disk" => t.gen = row.gen /\ t.uid = row.uid[t.part]
WorkSound(w) ==
    /\ w.kind # "recovery" => w.born = w.kind
    /\ w.born = "orphan" => w.kind = "orphan"
    /\ \A t \in w.targets :
        /\ Seen(t) /\ CleanedIsGone(t)
        /\ t.retain => w.kind = "idle" /\ t.part = "disk" /\ t.disk = row.disk
        /\ t.part = "disk" => (w.kind = "idle" => t.retain)
    /\ w.kind = "idle" =>
        /\ row.status = "shutting_down" /\ w.at = row.at /\ w.gen = row.gen
        /\ \A t \in w.targets : Recorded(t)
        /\ \A c \in Compute : \E t \in w.targets : t.part = c
    /\ w.kind = "reap" =>
        w.targets # {} /\ \A t \in w.targets : t.part = "disk" /\ t.disk = w.disk /\ ~t.retain
    /\ w.kind = "service" => \A t \in w.targets : t.part = "disk" => t.disk # row.disk
    /\ w.kind \in {"orphan", "recovery"} => \A t \in w.targets : Past(t)
WorksSound == \A w \in works : WorkSound(w)

\* What an executor may still delete.
Harmless(t) ==
    /\ Seen(t)
    /\ t.part = "disk" /\ ~t.retain => (t.disk = row.disk => PvcState = "destroying")
    /\ t.part # "disk" /\ t.gen = row.gen /\ row.status \in {"creating", "ready"} =>
        (t.uid = objs[<<t.part, t.gen>>].uid => objs[<<t.part, t.gen>>].phase = "none")
ExecSound(e) ==
    /\ e.work.kind # "recovery" /\ e.work.born = e.work.kind
    /\ e.strike => e.left # {}
    /\ \A t \in e.left : Harmless(t)
    /\ e.work.kind = "idle" =>
        /\ e.work.at <= row.at
        /\ e.work.at = row.at =>
            /\ row.status = "shutting_down"
            /\ \A t \in e.left : Recorded(t)
            /\ \A c \in Compute : (\A t \in e.left : t.part # c) => e.pending \/ objs[<<c, row.gen>>].phase = "none"
    /\ e.work.kind = "reap" =>
        /\ e.work.disk # NoDisk /\ e.work.disk <= drawn
        /\ \A t \in e.left : t.part = "disk" /\ t.disk = e.work.disk /\ ~t.retain
        /\ e.left = {} => disks[e.work.disk].phase = "gone"
ExecsSound == \A e \in execs : ExecSound(e)

RescueSound == \A t \in rescue.strike \cup rescue.pending : Past(t) /\ ~t.retain
SightingSound == \A t \in sighting.seen : Seen(t) /\ ~t.retain /\ ~t.cleaned

IInv ==
    /\ TypeOK /\ RowAgrees /\ WithinBounds /\ BuildersSound /\ LandingSound
    /\ DeploymentsSound /\ DisksSound /\ WorksSound /\ ExecsSound /\ RescueSound
    /\ SightingSound

-----------------------------------------------------------------------------
(* Types. *)

LEMMA Numbers ==
    /\ MaxFaults \in Nat /\ MaxRescueFaults \in Nat /\ MaxResumes \in Nat
    /\ Gens \subseteq Nat /\ Disks \subseteq Nat /\ 1 \in Gens /\ NoDisk \notin Disks
    /\ \A n \in Nat : n \in Gens <=> 1 <= n /\ n <= MaxFaults + MaxRescueFaults + 1
    /\ \A n \in Nat : n \in Disks <=> 1 <= n /\ n <= MaxFaults + MaxResumes + 1
  BY LifecycleAssumption DEF LifecycleAssumption, Gens, Disks, NoDisk

LEMMA MovedTyped ==
    ASSUME NEW r \in Rows, NEW status \in Statuses
    PROVE  /\ Moved(r, status) \in Rows
           /\ Moved(r, status).status = status /\ Moved(r, status).at = r.at + 1
           /\ Moved(r, status).gen = r.gen /\ Moved(r, status).disk = r.disk
           /\ Moved(r, status).bound = r.bound /\ Moved(r, status).uid = r.uid
  <1>1. Moved(r, status) = [status |-> status, gen |-> r.gen, at |-> r.at + 1, disk |-> r.disk,
                            bound |-> r.bound, uid |-> r.uid]
    <2>1. PICK m : m = [r EXCEPT !.status = status]
      OBVIOUS
    <2>2. m = [status |-> status, gen |-> r.gen, at |-> r.at, disk |-> r.disk, bound |-> r.bound,
               uid |-> r.uid]
      BY <2>1 DEF Rows
    <2>3. Moved(r, status) = [m EXCEPT !.at = @ + 1]
      BY <2>1 DEF Moved
    <2>4. QED
      BY <2>2, <2>3
  <1>2. r.gen \in Gens /\ r.at + 1 \in Nat /\ r.disk \in MaybeDisk /\ r.bound \in BOOLEAN
        /\ r.uid \in [Compute -> Nat]
    BY DEF Rows
  <1>3. QED
    BY <1>1, <1>2 DEF Rows

LEMMA TurnedTyped ==
    ASSUME NEW p \in Records, NEW state \in PvcStates
    PROVE  /\ Turned(p, state) \in Records
           /\ Turned(p, state).state = state /\ Turned(p, state).bound = p.bound
           /\ Turned(p, state).evidence = p.evidence
  <1>1. Turned(p, state) = [state |-> state, at |-> p.at + 1, bound |-> p.bound, evidence |-> p.evidence]
    <2>1. PICK m : m = [p EXCEPT !.state = state]
      OBVIOUS
    <2>2. m = [state |-> state, at |-> p.at, bound |-> p.bound, evidence |-> p.evidence]
      BY <2>1 DEF Records
    <2>3. Turned(p, state) = [m EXCEPT !.at = @ + 1]
      BY <2>1 DEF Turned
    <2>4. QED
      BY <2>2, <2>3
  <1>2. p.at + 1 \in Nat /\ p.bound \in BOOLEAN /\ p.evidence \in BOOLEAN
    BY DEF Records
  <1>3. QED
    BY <1>1, <1>2 DEF Records

LEMMA ObjectTyped ==
    ASSUME TypeOK, NEW c \in Compute, NEW g \in Gens
    PROVE  /\ objs[<<c, g>>] \in Objects /\ objs[<<c, g>>].uid \in Nat
           /\ objs[<<c, g>>].phase \in {"none", "up", "ending"} /\ objs[<<c, g>>].mounts \in MaybeDisk
  <1>1. <<c, g>> \in Compute \X Gens
    OBVIOUS
  <1>2. objs[<<c, g>>] \in Objects
    BY <1>1 DEF TypeOK
  <1>3. QED
    BY <1>2 DEF Objects

LEMMA FreshTyped ==
    /\ NoRecord \in Records /\ FreshRecord \in Records
    /\ NoRecord.state = "none" /\ FreshRecord.state = "attaching" /\ FreshRecord.bound = FALSE
  BY DEF NoRecord, FreshRecord, Records, PvcStates

LEMMA ClaimedTyped ==
    ASSUME NEW r \in Rows, NEW d \in Disks
    PROVE  /\ Claimed(r, d) \in Rows
           /\ Claimed(r, d).status = "creating" /\ Claimed(r, d).at = r.at + 1
           /\ Claimed(r, d).gen = r.gen /\ Claimed(r, d).disk = d
           /\ Claimed(r, d).bound = (r.disk # NoDisk /\ r.bound) /\ Claimed(r, d).uid = NoUids
  <1>1. NoUids \in [Compute -> Nat]
    BY DEF NoUids, NoUid
  <1>2. PICK m \in Rows : /\ m = Moved(r, "creating")
                          /\ m.status = "creating" /\ m.at = r.at + 1 /\ m.gen = r.gen /\ m.bound = r.bound
    BY MovedTyped DEF Statuses
  <1>3. Claimed(r, d) = [m EXCEPT !.disk = d, !.bound = r.disk # NoDisk /\ @, !.uid = NoUids]
    BY <1>2 DEF Claimed
  <1>4. PICK bound \in BOOLEAN : bound = (r.disk # NoDisk /\ m.bound)
    BY DEF Rows
  <1>5. Claimed(r, d) = [m EXCEPT !.disk = d, !.bound = bound, !.uid = NoUids]
    BY <1>3, <1>4
  <1>6. d \in MaybeDisk
    BY DEF MaybeDisk
  <1>7. QED
    BY <1>1, <1>2, <1>4, <1>5, <1>6 DEF Rows

LEMMA BuilderTyped ==
    ASSUME NEW r \in Rows, NEW d \in Disks
    PROVE  /\ Builder(r, d) \in Builders
           /\ Builder(r, d).gen = r.gen /\ Builder(r, d).at = r.at + 1 /\ Builder(r, d).disk = d
           /\ Builder(r, d).bound = (r.disk # NoDisk /\ r.bound)
           /\ Builder(r, d).stage = "disk" /\ ~Builder(r, d).issued
  BY DEF Builder, Builders, Rows, Parts

LEMMA TargetTyped ==
    ASSUME NEW part \in Parts, NEW g \in Gens, NEW d \in MaybeDisk, NEW uid \in Nat,
           NEW retain \in BOOLEAN
    PROVE  /\ Target(part, g, d, uid, retain) \in Targets
           /\ LET t == Target(part, g, d, uid, retain)
              IN  /\ t.part = part /\ t.gen = g /\ t.disk = d /\ t.uid = uid /\ t.retain = retain
                  /\ ~t.cleaned /\ ~t.captured
  BY DEF Target, Targets

LEMMA DiskTargetTyped ==
    ASSUME TypeOK, NEW retain \in BOOLEAN
    PROVE  /\ DiskTarget(retain) \in Targets
           /\ DiskTarget(retain).part = "disk" /\ DiskTarget(retain).disk = row.disk
           /\ DiskTarget(retain).retain = retain /\ ~DiskTarget(retain).cleaned
  <1>1. PICK uid \in Nat : uid = IF row.bound THEN 1 ELSE NoUid
    BY DEF NoUid
  <1>2. row.gen \in Gens /\ row.disk \in MaybeDisk /\ "disk" \in Parts
    BY DEF TypeOK, Rows, Parts
  <1>3. DiskTarget(retain) = Target("disk", row.gen, row.disk, uid, retain)
    BY <1>1 DEF DiskTarget
  <1>4. QED
    BY <1>1, <1>2, <1>3, TargetTyped

\* The targets of a whole sandbox.
LEMMA SandboxTargetsFacts ==
    ASSUME TypeOK, NEW retain \in BOOLEAN
    PROVE  /\ SandboxTargets(retain) \subseteq Targets
           /\ \A t \in SandboxTargets(retain) :
                /\ ~t.cleaned
                /\ t.part = "disk" => t.disk = row.disk /\ row.disk # NoDisk /\ t.retain = retain
                /\ t.part # "disk" => t.gen = row.gen /\ t.uid = row.uid[t.part] /\ ~t.retain
           /\ \A c \in Compute : \E t \in SandboxTargets(retain) : t.part = c
  <1> DEFINE T(c) == Target(c, row.gen, NoDisk, row.uid[c], FALSE)
  <1>1. ASSUME NEW c \in Compute
        PROVE  T(c) \in Targets /\ T(c).part = c /\ T(c).gen = row.gen /\ T(c).uid = row.uid[c]
               /\ ~T(c).retain /\ ~T(c).cleaned /\ c # "disk"
    <2>1. row.gen \in Gens /\ NoDisk \in MaybeDisk /\ row.uid[c] \in Nat /\ c \in Parts /\ c # "disk"
      BY DEF TypeOK, Rows, MaybeDisk, Compute, Parts
    <2>2. PICK uid \in Nat : uid = row.uid[c]
      BY <2>1
    <2>3. PICK g \in Gens : g = row.gen
      BY <2>1
    <2>4. T(c) = Target(c, g, NoDisk, uid, FALSE)
      BY <2>2, <2>3
    <2>5. PICK no \in BOOLEAN : no = FALSE
      OBVIOUS
    <2>6. T(c) = Target(c, g, NoDisk, uid, no)
      BY <2>4, <2>5
    <2>7. /\ Target(c, g, NoDisk, uid, no) \in Targets
          /\ LET t == Target(c, g, NoDisk, uid, no)
             IN  /\ t.part = c /\ t.gen = g /\ t.uid = uid /\ t.retain = no /\ ~t.cleaned
      BY <2>1, TargetTyped
    <2> HIDE DEF T
    <2>8. QED
      BY <2>1, <2>2, <2>3, <2>5, <2>6, <2>7
  <1>2. SandboxTargets(retain) = {T(c) : c \in Compute} \cup (IF row.disk = NoDisk THEN {} ELSE {DiskTarget(retain)})
    BY DEF SandboxTargets
  <1> HIDE DEF T
  <1>3. QED
    BY <1>1, <1>2, DiskTargetTyped

LEMMA WorkTyped ==
    ASSUME TypeOK, NEW kind \in Kinds, NEW at \in Nat, NEW pvcAt \in Nat, NEW targets \in SUBSET Targets
    PROVE  /\ Work(kind, at, pvcAt, targets) \in Works
           /\ LET w == Work(kind, at, pvcAt, targets)
              IN  /\ w.kind = kind /\ w.born = kind /\ w.gen = row.gen /\ w.disk = row.disk
                  /\ w.at = at /\ w.targets = targets
  BY DEF Work, Works, TypeOK, Rows

LEMMA CaptureTyped ==
    ASSUME NEW t \in Targets
    PROVE  /\ Capture(t) \in Targets
           /\ Capture(t).part = t.part /\ Capture(t).gen = t.gen /\ Capture(t).disk = t.disk
           /\ Capture(t).uid = t.uid /\ Capture(t).retain = t.retain /\ Capture(t).cleaned = t.cleaned
  BY DEF Capture, Targets

LEMMA NextTargetIn ==
    ASSUME NEW targets \in SUBSET Targets, targets # {}
    PROVE  NextTarget(targets) \in targets
  <1>1. \E t \in targets : \A u \in targets : Order[t.part] <= Order[u.part]
    <2>1. \A t \in targets : t.part \in {"ipc", "guest", "disk"}
      BY DEF Targets, Parts
    <2>2. Order["ipc"] = 1 /\ Order["guest"] = 2 /\ Order["disk"] = 3
      BY DEF Order
    <2>3. CASE \E t \in targets : t.part = "ipc"
      BY <2>1, <2>2, <2>3
    <2>4. CASE (\A t \in targets : t.part # "ipc") /\ \E t \in targets : t.part = "guest"
      BY <2>1, <2>2, <2>4
    <2>5. CASE \A t \in targets : t.part = "disk"
      BY <2>2, <2>5
    <2>6. QED
      BY <2>1, <2>3, <2>4, <2>5
  <1>2. QED
    BY <1>1 DEF NextTarget

LEMMA PvcAtTyped == ASSUME TypeOK PROVE PvcAt \in Nat
  BY DEF TypeOK, PvcAt, Rows, MaybeDisk, Records

\* What recovery finds of a target.
LEMMA ExaminedTyped ==
    ASSUME TypeOK, NEW t \in Targets
    PROVE  /\ Examined(t) \in Targets
           /\ Examined(t).part = t.part /\ Examined(t).gen = t.gen /\ Examined(t).disk = t.disk
           /\ Examined(t).retain = t.retain
           /\ Examined(t).uid = t.uid \/ (IsCompute(t) => Examined(t).uid = objs[<<t.part, t.gen>>].uid)
           /\ Examined(t).cleaned /\ Examined(t).uid # NoUid /\ (\E w \in Recoveries : t \in w.targets) =>
                \E w \in Recoveries : \E u \in w.targets : SameTarget(t, u) /\ u.cleaned /\ u.uid # NoUid
  <1> DEFINE twins == {u \in UNION {w.targets : w \in Recoveries} : SameTarget(t, u)}
  <1>1. PICK captured \in BOOLEAN : captured = \E u \in twins : u.captured
    OBVIOUS
  <1>2. PICK cleaned \in BOOLEAN : cleaned = \E u \in twins : u.cleaned
    OBVIOUS
  <1>3. PICK known \in Targets :
          /\ known = [t EXCEPT !.captured = captured, !.cleaned = cleaned]
          /\ known.part = t.part /\ known.gen = t.gen /\ known.disk = t.disk /\ known.uid = t.uid
          /\ known.retain = t.retain /\ known.cleaned = cleaned /\ known.captured = captured
    <2>1. PICK m : m = [t EXCEPT !.captured = captured]
      OBVIOUS
    <2>2. m = [part |-> t.part, gen |-> t.gen, disk |-> t.disk, uid |-> t.uid, retain |-> t.retain,
               cleaned |-> t.cleaned, captured |-> captured]
      BY <2>1 DEF Targets
    <2>3. PICK known : known = [m EXCEPT !.cleaned = cleaned]
      OBVIOUS
    <2>4. known = [part |-> t.part, gen |-> t.gen, disk |-> t.disk, uid |-> t.uid, retain |-> t.retain,
                   cleaned |-> cleaned, captured |-> captured]
      BY <2>2, <2>3
    <2>5. known \in Targets
      BY <2>4 DEF Targets
    <2>6. known = [t EXCEPT !.captured = captured, !.cleaned = cleaned]
      BY <2>1, <2>3
    <2>7. QED
      BY <2>4, <2>5, <2>6
  <1>4. PICK absent \in Targets :
          /\ absent = [t EXCEPT !.cleaned = TRUE]
          /\ absent.part = t.part /\ absent.gen = t.gen /\ absent.disk = t.disk /\ absent.uid = t.uid
          /\ absent.retain = t.retain
    <2>1. PICK yes \in BOOLEAN : yes = TRUE
      OBVIOUS
    <2>2. PICK m : m = [t EXCEPT !.cleaned = yes]
      OBVIOUS
    <2>3. m = [part |-> t.part, gen |-> t.gen, disk |-> t.disk, uid |-> t.uid, retain |-> t.retain,
               cleaned |-> yes, captured |-> t.captured]
      BY <2>2 DEF Targets
    <2>4. m = [t EXCEPT !.cleaned = TRUE]
      BY <2>1, <2>2
    <2> HIDE <2>1
    <2>5. m \in Targets
      BY <2>3 DEF Targets
    <2>6. QED
      BY <2>3, <2>4, <2>5
  <1>5. (IF IsCompute(t) THEN objs[<<t.part, t.gen>>].uid ELSE 1) \in Nat
    <2>1. IsCompute(t) => <<t.part, t.gen>> \in Compute \X Gens
      BY DEF IsCompute, Targets
    <2>2. IsCompute(t) => objs[<<t.part, t.gen>>] \in Objects
      BY <2>1 DEF TypeOK
    <2>3. QED
      BY <2>2 DEF Objects
  <1>6. PICK uid \in Nat : uid = IF IsCompute(t) THEN objs[<<t.part, t.gen>>].uid ELSE 1
    BY <1>5
  <1>7. PICK found \in Targets :
          /\ found = [t EXCEPT !.uid = uid]
          /\ found.part = t.part /\ found.gen = t.gen /\ found.disk = t.disk
          /\ found.uid = uid /\ found.retain = t.retain /\ found.cleaned = t.cleaned
    <2>1. PICK m : m = [t EXCEPT !.uid = uid]
      OBVIOUS
    <2>2. m = [part |-> t.part, gen |-> t.gen, disk |-> t.disk, uid |-> uid, retain |-> t.retain,
               cleaned |-> t.cleaned, captured |-> t.captured]
      BY <2>1 DEF Targets
    <2>3. QED
      BY <2>1, <2>2 DEF Targets
  <1>8. Examined(t) = IF known.captured \/ known.cleaned \/ t.uid # NoUid THEN Capture(known)
                      ELSE IF ~Exists(t.part, t.gen, t.disk) THEN absent ELSE Capture(found)
    BY <1>1, <1>2, <1>3, <1>4, <1>6, <1>7 DEF Examined
  <1>9. cleaned => \E w \in Recoveries : \E u \in w.targets : SameTarget(t, u) /\ u.cleaned /\ u.uid = t.uid
    BY <1>2 DEF SameTarget
  <1>10. (\E w \in Recoveries : t \in w.targets) /\ t.cleaned => cleaned
    BY <1>2 DEF SameTarget
  <1> HIDE DEF twins
  <1>11. known.captured \/ known.cleaned \/ t.uid # NoUid => Examined(t) = Capture(known)
    BY <1>8
  <1>12. ~(known.captured \/ known.cleaned \/ t.uid # NoUid) /\ ~Exists(t.part, t.gen, t.disk) =>
            Examined(t) = absent /\ absent.uid = NoUid
    BY <1>4, <1>8
  <1>13. ~(known.captured \/ known.cleaned \/ t.uid # NoUid) /\ Exists(t.part, t.gen, t.disk) =>
            Examined(t) = Capture(found) /\ ~known.cleaned
    BY <1>8
  <1>14. CASE Examined(t) = Capture(known)
    <2>1. PICK c \in Targets :
            /\ c = Capture(known)
            /\ c.part = known.part /\ c.gen = known.gen /\ c.disk = known.disk /\ c.uid = known.uid
            /\ c.retain = known.retain /\ c.cleaned = known.cleaned
      BY ONLY known \in Targets, CaptureTyped
    <2>2. Examined(t) = c
      BY <1>14, <2>1
    <2>3. /\ c.part = t.part /\ c.gen = t.gen /\ c.disk = t.disk /\ c.retain = t.retain
          /\ c.uid = t.uid /\ c.cleaned = cleaned
      BY ONLY <1>3, <2>1
    <2>4. QED
      BY ONLY <1>9, <2>1, <2>2, <2>3
  <1>15. CASE Examined(t) = absent /\ absent.uid = NoUid
    BY ONLY <1>15, <1>4
  <1>16. CASE Examined(t) = Capture(found) /\ ~known.cleaned
    <2>1. PICK c \in Targets :
            /\ c = Capture(found)
            /\ c.part = found.part /\ c.gen = found.gen /\ c.disk = found.disk /\ c.uid = found.uid
            /\ c.retain = found.retain /\ c.cleaned = found.cleaned
      BY ONLY found \in Targets, CaptureTyped
    <2>2. IsCompute(t) => uid = objs[<<t.part, t.gen>>].uid
      BY <1>6
    <2>3. QED
      BY ONLY <1>16, <1>3, <1>7, <1>10, <2>1, <2>2
  <1>17. QED
    BY ONLY <1>11, <1>12, <1>13, <1>14, <1>15, <1>16

-----------------------------------------------------------------------------
(* What the transactions do to the row and to the disk record. *)

RowIs(status, gen, at, disk, bound, uid) ==
    /\ row'.status = status /\ row'.gen = gen /\ row'.at = at
    /\ row'.disk = disk /\ row'.bound = bound /\ row'.uid = uid
OnlyRecord(d) == \A x \in Disks \ {d} : pvcs'[x] = pvcs[x]
RecordIs(d, state, bound) ==
    /\ pvcs' \in [Disks -> Records]
    /\ pvcs'[d].state = state /\ pvcs'[d].bound = bound /\ OnlyRecord(d)

LEMMA TurnedRecord ==
    ASSUME TypeOK, NEW d \in Disks, NEW state \in PvcStates, pvcs' = [pvcs EXCEPT ![d] = Turned(@, state)]
    PROVE  RecordIs(d, state, pvcs[d].bound)
  <1>1. pvcs[d] \in Records
    BY DEF TypeOK
  <1>2. pvcs' = [pvcs EXCEPT ![d] = Turned(pvcs[d], state)]
    OBVIOUS
  <1>3. PICK p \in Records : p = Turned(pvcs[d], state) /\ p.state = state /\ p.bound = pvcs[d].bound
    BY <1>1, TurnedTyped
  <1>4. QED
    BY <1>2, <1>3 DEF RecordIs, OnlyRecord, TypeOK

LEMMA PlacedRecord ==
    ASSUME TypeOK, NEW d \in Disks, NEW p \in Records, pvcs' = [pvcs EXCEPT ![d] = p]
    PROVE  RecordIs(d, p.state, p.bound)
  BY DEF RecordIs, OnlyRecord, TypeOK

\* The disk of a claim.
Assigned == IF row.disk = NoDisk THEN drawn + 1 ELSE row.disk
Provisioned ==
    /\ Assigned \in Disks
    /\ row' \in Rows
    /\ RowIs("creating", row.gen, row.at + 1, Assigned, (row.disk # NoDisk /\ row.bound), NoUids)
    /\ RecordIs(Assigned, "attaching", (row.disk # NoDisk /\ pvcs[Assigned].bound))
LEMMA ProvisionFacts ==
    ASSUME TypeOK, WithinBounds, Provision PROVE Provisioned
  <1>1. row.disk = NoDisk => drawn + 1 \in Disks
    <2>1. CASE row.status = "none"
      BY <2>1, Numbers DEF WithinBounds
    <2>2. CASE row.status = "stopped"
      BY <2>2, Numbers DEF WithinBounds, Provision, Ordinary, TypeOK
    <2>3. QED
      BY <2>1, <2>2 DEF Provision
  <1>2. Assigned \in Disks
    BY <1>1 DEF Assigned, TypeOK, Rows, MaybeDisk
  <1>3. row' = Claimed(row, Assigned)
    BY DEF Provision, Assigned
  <1>4. row \in Rows
    BY DEF TypeOK
  <1>5. row' \in Rows /\ RowIs("creating", row.gen, row.at + 1, Assigned, (row.disk # NoDisk /\ row.bound), NoUids)
    BY <1>2, <1>3, <1>4, ClaimedTyped DEF RowIs
  <1>6. RecordIs(Assigned, "attaching", (row.disk # NoDisk /\ pvcs[Assigned].bound))
    <2>1. CASE row.disk = NoDisk
      <3>1. pvcs' = [pvcs EXCEPT ![Assigned] = FreshRecord]
        BY <2>1 DEF Provision, Assigned
      <3>2. RecordIs(Assigned, FreshRecord.state, FreshRecord.bound)
        BY <1>2, <3>1, FreshTyped, PlacedRecord
      <3>3. QED
        BY <2>1, <3>2, FreshTyped DEF RecordIs
    <2>2. CASE row.disk # NoDisk
      <3>1. pvcs' = [pvcs EXCEPT ![Assigned] = Turned(@, "attaching")]
        BY <2>2 DEF Provision, Assigned
      <3>2. RecordIs(Assigned, "attaching", pvcs[Assigned].bound)
        BY <1>2, <3>1, TurnedRecord DEF PvcStates
      <3>3. QED
        BY <1>2, <2>2, <3>2 DEF RecordIs, TypeOK, Records
    <2>3. QED
      BY <2>1, <2>2
  <1>7. QED
    BY <1>2, <1>5, <1>6 DEF Provisioned

\* A claim that stands fails, is fulfilled, or its session shuts down.
MovedTo(status, state) ==
    /\ row' \in Rows
    /\ RowIs(status, row.gen, row.at + 1, row.disk, row.bound, row.uid)
    /\ row.disk \in Disks /\ RecordIs(row.disk, state, pvcs[row.disk].bound)
LEMMA MovedToFacts ==
    ASSUME TypeOK, NEW status \in Statuses, NEW state \in PvcStates, row.disk # NoDisk,
           row' = Moved(row, status), pvcs' = [pvcs EXCEPT ![row.disk] = Turned(@, state)]
    PROVE  MovedTo(status, state)
  <1>1. row.disk \in Disks /\ row \in Rows
    BY DEF TypeOK, Rows, MaybeDisk
  <1>2. RecordIs(row.disk, state, pvcs[row.disk].bound)
    BY <1>1, TurnedRecord
  <1>3. QED
    BY <1>1, <1>2, MovedTyped DEF MovedTo, RowIs

\* The claim of a builder learns a UID.
Learned(b) ==
    /\ row' \in Rows /\ pvcs' \in [Disks -> Records]
    /\ row'.status = row.status /\ row'.gen = row.gen /\ row'.at = row.at /\ row'.disk = row.disk
    /\ b.stage = "disk" => row'.bound /\ row'.uid = row.uid /\ RecordIs(b.disk, pvcs[b.disk].state, TRUE)
    /\ b.stage # "disk" =>
        /\ row'.bound = row.bound /\ pvcs' = pvcs
        /\ row'.uid[b.stage] = objs[<<b.stage, b.gen>>].uid
        /\ \A c \in Compute \ {b.stage} : row'.uid[c] = row.uid[c]
LEMMA LearnedFacts ==
    ASSUME TypeOK, NEW b \in builders, BuildRecord(b), Holds(b)
    PROVE  Learned(b)
  <1>1. b \in Builders /\ b.disk \in Disks /\ b.gen \in Gens /\ b.stage \in Parts /\ row \in Rows
    BY DEF TypeOK, Builders
  <1>2. CASE b.stage = "disk"
    <2>1. PICK yes \in BOOLEAN : yes = TRUE
      OBVIOUS
    <2>2. row' = [row EXCEPT !.bound = yes] /\ pvcs' = [pvcs EXCEPT ![b.disk].bound = yes]
      BY <1>2, <2>1 DEF BuildRecord
    <2>3. row' = [status |-> row.status, gen |-> row.gen, at |-> row.at, disk |-> row.disk,
                  bound |-> yes, uid |-> row.uid]
      BY <1>1, <2>2 DEF Rows
    <2>4. PICK p : p = [pvcs[b.disk] EXCEPT !.bound = yes]
      OBVIOUS
    <2>5. p = [state |-> pvcs[b.disk].state, at |-> pvcs[b.disk].at, bound |-> yes,
               evidence |-> pvcs[b.disk].evidence]
      BY <1>1, <2>4 DEF TypeOK, Records
    <2>6. pvcs' = [pvcs EXCEPT ![b.disk] = p]
      BY <2>2, <2>4
    <2> HIDE <2>1
    <2>7. row' \in Rows
      BY <1>1, <2>3 DEF Rows
    <2>8. p \in Records
      BY <1>1, <2>5 DEF TypeOK, Records
    <2>9. RecordIs(b.disk, p.state, p.bound)
      BY <1>1, <2>6, <2>8, PlacedRecord
    <2> USE <2>1
    <2>10. QED
      BY <1>2, <2>1, <2>3, <2>5, <2>7, <2>9 DEF Learned, RecordIs
  <1>3. CASE b.stage # "disk"
    <2>1. b.stage \in Compute
      BY <1>1, <1>3 DEF Parts, Compute
    <2>2. PICK uid \in Nat : uid = objs[<<b.stage, b.gen>>].uid
      BY <1>1, <2>1, ObjectTyped
    <2>3. row' = [row EXCEPT !.uid[b.stage] = uid] /\ pvcs' = pvcs
      BY <1>3, <2>2 DEF BuildRecord
    <2>4. PICK uids \in [Compute -> Nat] : uids = [row.uid EXCEPT ![b.stage] = uid]
      BY <1>1, <2>1 DEF Rows
    <2>5. row' = [row EXCEPT !.uid = uids]
      BY <2>3, <2>4
    <2>6. row' = [status |-> row.status, gen |-> row.gen, at |-> row.at, disk |-> row.disk,
                  bound |-> row.bound, uid |-> uids]
      BY <1>1, <2>5 DEF Rows
    <2>7. row' \in Rows
      BY <1>1, <2>6 DEF Rows
    <2>8. uids[b.stage] = uid /\ \A c \in Compute \ {b.stage} : uids[c] = row.uid[c]
      BY <1>1, <2>1, <2>4 DEF Rows
    <2>9. /\ row'.status = row.status /\ row'.gen = row.gen /\ row'.at = row.at /\ row'.disk = row.disk
          /\ row'.bound = row.bound /\ row'.uid = uids
      BY <2>6
    <2>10. pvcs' = pvcs /\ pvcs' \in [Disks -> Records]
      BY <2>3 DEF TypeOK
    <2>11. row'.uid[b.stage] = objs[<<b.stage, b.gen>>].uid /\ \A c \in Compute \ {b.stage} : row'.uid[c] = row.uid[c]
      BY <2>2, <2>8, <2>9
    <2>12. QED
      BY <1>3, <2>7, <2>9, <2>10, <2>11 DEF Learned
  <1>4. QED
    BY <1>2, <1>3

\* The sandbox is condemned: the row gets the next sandbox id.
Condemned ==
    /\ row' \in Rows
    /\ RowIs("recovering", row.gen + 1, row.at + 1, NoDisk, FALSE, NoUids)
    /\ pvcs' \in [Disks -> Records]
    /\ row.disk = NoDisk => pvcs' = pvcs
    /\ row.disk # NoDisk => row.disk \in Disks /\ RecordIs(row.disk, "failed", pvcs[row.disk].bound)
LEMMA RecoverFacts ==
    ASSUME TypeOK, WithinBounds, Recover PROVE Condemned
  <1>1. row.gen + 1 \in Gens /\ row.gen \in Nat
    BY Numbers DEF TypeOK, Rows, WithinBounds, Spent, Recover
  <1>2. row.disk # NoDisk => row.disk \in Disks
    BY DEF TypeOK, Rows, MaybeDisk
  <1>3. PICK m \in Rows : /\ m = Moved(row, "recovering")
                          /\ m.status = "recovering" /\ m.gen = row.gen /\ m.at = row.at + 1
    BY MovedTyped DEF TypeOK, Statuses
  <1>4. PICK g \in Gens : g = row.gen + 1
    BY <1>1
  <1>5. PICK no \in BOOLEAN : no = FALSE
    OBVIOUS
  <1>6. row' = [m EXCEPT !.gen = g, !.disk = NoDisk, !.bound = no, !.uid = NoUids]
    BY <1>3, <1>4, <1>5 DEF Recover
  <1>7. PICK a : a = [m EXCEPT !.gen = g]
    OBVIOUS
  <1>8. a = [status |-> m.status, gen |-> g, at |-> m.at, disk |-> m.disk, bound |-> m.bound, uid |-> m.uid]
    BY <1>7 DEF Rows
  <1>9. PICK b : b = [a EXCEPT !.disk = NoDisk]
    OBVIOUS
  <1>10. b = [status |-> m.status, gen |-> g, at |-> m.at, disk |-> NoDisk, bound |-> m.bound, uid |-> m.uid]
    BY <1>8, <1>9
  <1>11. PICK c : c = [b EXCEPT !.bound = no]
    OBVIOUS
  <1>12. c = [status |-> m.status, gen |-> g, at |-> m.at, disk |-> NoDisk, bound |-> no, uid |-> m.uid]
    BY <1>10, <1>11
  <1>13. row' = [c EXCEPT !.uid = NoUids]
    BY <1>6, <1>7, <1>9, <1>11
  <1>14. row' = [status |-> m.status, gen |-> g, at |-> m.at, disk |-> NoDisk, bound |-> no, uid |-> NoUids]
    BY <1>12, <1>13
  <1>15. NoUids \in [Compute -> Nat] /\ NoDisk \in MaybeDisk
    BY DEF NoUids, NoUid, MaybeDisk
  <1> HIDE <1>5
  <1>16. row' \in Rows
    BY <1>14, <1>15 DEF Rows
  <1>17. RowIs("recovering", row.gen + 1, row.at + 1, NoDisk, no, NoUids)
    BY <1>3, <1>4, <1>14 DEF RowIs
  <1>18. row.disk # NoDisk => RecordIs(row.disk, "failed", pvcs[row.disk].bound)
    <2>1. "failed" \in PvcStates
      BY DEF PvcStates
    <2>2. QED
      BY <1>2, <2>1, TurnedRecord DEF Recover
  <1>19. row.disk = NoDisk => pvcs' = pvcs
    BY DEF Recover
  <1>20. pvcs' \in [Disks -> Records]
    BY <1>18, <1>19 DEF RecordIs, TypeOK
  <1> USE <1>5
  <1>21. QED
    BY <1>2, <1>5, <1>16, <1>17, <1>18, <1>19, <1>20 DEF Condemned

\* Recovery is over: a claim of a fresh disk.
Rescued ==
    /\ drawn + 1 \in Disks
    /\ row' \in Rows
    /\ RowIs("creating", row.gen, row.at + 2, drawn + 1, FALSE, NoUids)
    /\ pvcs' \in [Disks -> Records] /\ pvcs'[drawn + 1].state = "attaching"
    /\ \A d \in Disks \ {drawn + 1} : pvcs'[d].state = "none"
    /\ \E b \in Builders :
        /\ b.gen = row.gen /\ b.at = row.at + 2 /\ b.disk = drawn + 1 /\ ~b.bound
        /\ b.stage = "disk" /\ ~b.issued
        /\ builders' = builders \cup {b}
LEMMA RescueFacts ==
    ASSUME TypeOK, RowAgrees, WithinBounds, RescueFinish PROVE Rescued
  <1>1. row.status = "recovering" /\ row.disk = NoDisk
    BY DEF RescueFinish, Standing, RowAgrees, DiskStates
  <1>2. drawn + 1 \in Disks
    BY <1>1, Numbers DEF WithinBounds, TypeOK, Ordinary
  <1>3. PICK m \in Rows : /\ m = Moved(row, "stopped")
                          /\ m.gen = row.gen /\ m.at = row.at + 1 /\ m.disk = NoDisk
    BY <1>1, MovedTyped DEF TypeOK, Statuses
  <1>4. PICK d \in Disks : d = drawn + 1
    BY <1>2
  <1>5. row' = Claimed(m, d) /\ builders' = builders \cup {Builder(m, d)}
        /\ pvcs' = [[x \in Disks |-> NoRecord] EXCEPT ![d] = FreshRecord]
    BY <1>3, <1>4 DEF RescueFinish
  <1>6. row.at \in Nat
    BY DEF TypeOK, Rows
  <1>7. row' \in Rows /\ RowIs("creating", row.gen, row.at + 2, d, FALSE, NoUids)
    <2>1. /\ Claimed(m, d) \in Rows
          /\ Claimed(m, d).status = "creating" /\ Claimed(m, d).at = m.at + 1
          /\ Claimed(m, d).gen = m.gen /\ Claimed(m, d).disk = d
          /\ Claimed(m, d).bound = (m.disk # NoDisk /\ m.bound) /\ Claimed(m, d).uid = NoUids
      BY ClaimedTyped
    <2>2. (m.disk # NoDisk /\ m.bound) = FALSE
      BY <1>3
    <2>3. m.at + 1 = row.at + 2
      BY <1>3, <1>6
    <2>4. QED
      BY <1>3, <1>5, <2>1, <2>2, <2>3 DEF RowIs
  <1>8. /\ pvcs' \in [Disks -> Records] /\ pvcs'[d].state = "attaching"
        /\ \A x \in Disks \ {d} : pvcs'[x].state = "none"
    BY <1>5, FreshTyped
  <1>9. \E b \in Builders :
        /\ b.gen = row.gen /\ b.at = row.at + 2 /\ b.disk = d /\ ~b.bound
        /\ b.stage = "disk" /\ ~b.issued
        /\ builders' = builders \cup {b}
    <2>1. /\ Builder(m, d) \in Builders
          /\ Builder(m, d).gen = m.gen /\ Builder(m, d).at = m.at + 1 /\ Builder(m, d).disk = d
          /\ Builder(m, d).bound = (m.disk # NoDisk /\ m.bound)
          /\ Builder(m, d).stage = "disk" /\ ~Builder(m, d).issued
      BY BuilderTyped
    <2>2. m.at + 1 = row.at + 2
      BY <1>3, <1>6
    <2>3. QED
      BY <1>3, <1>5, <2>1, <2>2
  <1>10. QED
    BY <1>2, <1>4, <1>7, <1>8, <1>9 DEF Rescued

\* A session at rest: stopped, its UIDs forgotten.
Stopped ==
    row' \in Rows /\ RowIs("stopped", row.gen, row.at + 1, row.disk, row.bound, NoUids)
LEMMA StoppedFacts ==
    ASSUME TypeOK, row' = [Moved(row, "stopped") EXCEPT !.uid = NoUids] PROVE Stopped
  <1>1. PICK m \in Rows : /\ m = Moved(row, "stopped")
                          /\ m.status = "stopped" /\ m.gen = row.gen /\ m.at = row.at + 1
                          /\ m.disk = row.disk /\ m.bound = row.bound
    BY MovedTyped DEF TypeOK, Statuses
  <1>2. row' = [m EXCEPT !.uid = NoUids]
    BY <1>1
  <1>3. row' = [status |-> m.status, gen |-> m.gen, at |-> m.at, disk |-> m.disk, bound |-> m.bound,
                uid |-> NoUids]
    BY <1>2 DEF Rows
  <1>4. NoUids \in [Compute -> Nat]
    BY DEF NoUids, NoUid
  <1>5. QED
    BY <1>1, <1>3, <1>4 DEF Stopped, RowIs, Rows

\* The end of a pass: nothing, or the completion of its work.
Kept(e) == {v \in works : ~SameWork(v, e.work)}
EndedIdle(e) ==
    /\ e.work.kind = "idle" /\ row.status = "shutting_down" /\ row.at = e.work.at
    /\ row.disk \in Disks /\ Stopped /\ RecordIs(row.disk, "detached", pvcs[row.disk].bound)
EndedReap(e) ==
    /\ e.work.kind = "reap" /\ row.status = "stopped" /\ row.disk = e.work.disk /\ row.disk \in Disks
    /\ row' \in Rows /\ RowIs(row.status, row.gen, row.at, NoDisk, FALSE, row.uid)
    /\ RecordIs(row.disk, "none", FALSE)
EndedService(e) == e.work.kind = "service" /\ row.status = "service" /\ Stopped /\ pvcs' = pvcs
EndedOrphan(e) == e.work.kind = "orphan" /\ row' = row /\ pvcs' = pvcs
Ended(e) ==
    /\ e.left = {} /\ ~e.pending /\ Owns(e.work)
    /\ works' = Kept(e)
    /\ EndedIdle(e) \/ EndedReap(e) \/ EndedService(e) \/ EndedOrphan(e)
LEMMA ExecEndFacts ==
    ASSUME TypeOK, RowAgrees, ExecsSound, NEW e \in execs, ExecEnd(e)
    PROVE  UNCHANGED database \/ Ended(e)
  <1> DEFINE w == e.work
  <1>1. w \in Works /\ w.kind \in {"idle", "reap", "service", "orphan"}
    BY DEF TypeOK, Executors, Works, Kinds, ExecsSound, ExecSound
  <1>2. SUFFICES ASSUME Finished(e), Owns(w), \E v \in works : SameWork(v, w)
                 PROVE  Ended(e)
    BY DEF ExecEnd
  <1>3. works' = Kept(e)
    BY <1>2 DEF ExecEnd, Kept
  <1>4. e.left = {} /\ ~e.pending
    BY <1>2 DEF Finished
  <1>5. /\ w.kind = "idle" => RowState[w.kind] = "shutting_down"
        /\ w.kind = "reap" => RowState[w.kind] = "stopped"
        /\ w.kind = "service" => RowState[w.kind] = "service"
    BY DEF RowState
  <1>6. w.kind # "orphan" => row.gen = w.gen /\ row.disk = w.disk /\ row.status = RowState[w.kind] /\ row.at = w.at
    BY <1>2 DEF Owns
  <1>7. CASE w.kind = "idle"
    <2>1. row' = [Moved(row, "stopped") EXCEPT !.uid = NoUids]
      BY <1>2, <1>7 DEF ExecEnd
    <2>2. row.status = "shutting_down" /\ row.at = w.at /\ row.disk = w.disk
      BY <1>5, <1>6, <1>7
    <2>3. row.disk \in Disks
      BY <2>2 DEF RowAgrees, TypeOK, Rows, MaybeDisk
    <2>4. PICK p \in Records : /\ p = Turned(pvcs[row.disk], "detached")
                               /\ p.state = "detached" /\ p.bound = pvcs[row.disk].bound
      BY <2>3, TurnedTyped DEF TypeOK, PvcStates
    <2>5. PICK yes \in BOOLEAN : yes = TRUE
      OBVIOUS
    <2>6. PICK q : q = [p EXCEPT !.evidence = yes]
      OBVIOUS
    <2>7. q = [state |-> p.state, at |-> p.at, bound |-> p.bound, evidence |-> yes]
      BY <2>6 DEF Records
    <2>8. pvcs' = [pvcs EXCEPT ![w.disk] = [Turned(@, "detached") EXCEPT !.evidence = TRUE]]
      BY <1>2, <1>7 DEF ExecEnd
    <2>9. pvcs' = [pvcs EXCEPT ![row.disk] = q]
      BY <2>2, <2>4, <2>5, <2>6, <2>8
    <2> HIDE <2>5
    <2>10. q \in Records
      BY <2>7 DEF Records
    <2>11. RecordIs(row.disk, q.state, q.bound)
      BY <2>3, <2>9, <2>10, PlacedRecord
    <2>12. QED
      BY <1>2, <1>3, <1>4, <1>7, <2>1, <2>2, <2>3, <2>4, <2>7, <2>11, StoppedFacts DEF Ended, EndedIdle, RecordIs
  <1>8. CASE w.kind = "reap"
    <2>1. row' = [row EXCEPT !.disk = NoDisk, !.bound = FALSE] /\ pvcs' = [pvcs EXCEPT ![w.disk] = NoRecord]
      BY <1>2, <1>8 DEF ExecEnd
    <2>2. row.status = "stopped" /\ row.disk = w.disk
      BY <1>5, <1>6, <1>8
    <2>3. row.disk \in Disks
      BY <1>8, <2>2 DEF ExecsSound, ExecSound, TypeOK, Rows, MaybeDisk
    <2>4. PICK no \in BOOLEAN : no = FALSE
      OBVIOUS
    <2>5. PICK m : m = [row EXCEPT !.disk = NoDisk]
      OBVIOUS
    <2>6. m = [status |-> row.status, gen |-> row.gen, at |-> row.at, disk |-> NoDisk, bound |-> row.bound,
               uid |-> row.uid]
      BY <2>5 DEF TypeOK, Rows
    <2>7. row' = [m EXCEPT !.bound = no]
      BY <2>1, <2>4, <2>5
    <2>8. row' = [status |-> row.status, gen |-> row.gen, at |-> row.at, disk |-> NoDisk, bound |-> no,
                  uid |-> row.uid]
      BY <2>6, <2>7
    <2>9. NoRecord.bound = FALSE
      BY DEF NoRecord
    <2>10. RecordIs(row.disk, "none", FALSE)
      BY <2>1, <2>2, <2>3, <2>9, FreshTyped, PlacedRecord
    <2> HIDE <2>4
    <2>11. row' \in Rows
      BY <2>8 DEF TypeOK, Rows, MaybeDisk
    <2> USE <2>4
    <2>12. RowIs(row.status, row.gen, row.at, NoDisk, FALSE, row.uid)
      BY <2>4, <2>8 DEF RowIs
    <2>13. QED
      BY <1>2, <1>3, <1>4, <1>8, <2>2, <2>3, <2>10, <2>11, <2>12 DEF Ended, EndedReap
  <1>9. CASE w.kind = "service"
    <2>1. row' = [Moved(row, "stopped") EXCEPT !.uid = NoUids] /\ pvcs' = pvcs
      BY <1>2, <1>9 DEF ExecEnd
    <2>2. row.status = "service"
      BY <1>5, <1>6, <1>9
    <2>3. QED
      BY <1>2, <1>3, <1>4, <1>9, <2>1, <2>2, StoppedFacts DEF Ended, EndedService
  <1>10. CASE w.kind = "orphan"
    <2>1. row' = row /\ pvcs' = pvcs
      BY <1>2, <1>10 DEF ExecEnd
    <2>2. QED
      BY <1>2, <1>3, <1>4, <1>10, <2>1 DEF Ended, EndedOrphan
  <1>11. QED
    BY <1>1, <1>7, <1>8, <1>9, <1>10

-----------------------------------------------------------------------------
\* The actions, one by one.
LEMMA NextCases ==
    ASSUME [Next]_vars
    PROVE  \/ Provision \/ MarkReady \/ Idle \/ Reap \/ Recover \/ AdmitSighting
           \/ \E b \in builders : BuildCreate(b) \/ BuildRecord(b) \/ BuildFails(b) \/ BuilderDies(b)
           \/ \E call \in landing : Land(call)
           \/ \E c \in Compute, g \in Gens : ComputeGone(c, g)
           \/ \E d \in Disks : DiskGone(d)
           \/ Condemn \/ Suspect \/ \E g \in Gens : Sight(g)
           \/ \E w \in works : PublishShutdown(w) \/ ExecStart(w)
           \/ \E t \in shutdowns : ShutdownAck(t)
           \/ \E e \in execs : ExecCheck(e) \/ ExecAct(e) \/ ExecEnd(e) \/ ExecDies(e) \/ LockLost(e)
           \/ RescueStart \/ RescueCheck \/ RescueAct \/ RescueFinish \/ RescueFails \/ RescueDies
           \/ UNCHANGED vars
  BY DEF Next, Build, Cluster, Breaks, Execute, Step, Rescue

LEMMA TargetedTyped ==
    ASSUME NEW w \in Works, NEW targets \in SUBSET Targets
    PROVE  LET v == [w EXCEPT !.targets = targets]
           IN  /\ v \in Works /\ v.kind = w.kind /\ v.born = w.born /\ v.gen = w.gen /\ v.disk = w.disk
               /\ v.at = w.at /\ v.targets = targets
  <1> DEFINE v == [w EXCEPT !.targets = targets]
  <1>1. v = [kind |-> w.kind, born |-> w.born, gen |-> w.gen, disk |-> w.disk, at |-> w.at,
             pvcAt |-> w.pvcAt, ack |-> w.ack, targets |-> targets]
    BY DEF Works
  <1>2. QED
    BY <1>1 DEF Works

LEMMA TurnedWork ==
    ASSUME NEW w \in Works
    PROVE  LET v == [w EXCEPT !.kind = "recovery"]
           IN  /\ v \in Works /\ v.kind = "recovery" /\ v.born = w.born /\ v.gen = w.gen /\ v.disk = w.disk
               /\ v.at = w.at /\ v.targets = w.targets
  <1> DEFINE v == [w EXCEPT !.kind = "recovery"]
  <1>1. v = [kind |-> "recovery", born |-> w.born, gen |-> w.gen, disk |-> w.disk, at |-> w.at,
             pvcAt |-> w.pvcAt, ack |-> w.ack, targets |-> w.targets]
    BY DEF Works
  <1>2. "recovery" \in Kinds
    BY DEF Kinds
  <1>3. QED
    BY <1>1, <1>2 DEF Works

LEMMA AckedWork ==
    ASSUME NEW w \in Works
    PROVE  LET v == [w EXCEPT !.ack = TRUE]
           IN  /\ v \in Works /\ v.kind = w.kind /\ v.born = w.born /\ v.gen = w.gen /\ v.disk = w.disk
               /\ v.at = w.at /\ v.targets = w.targets
  <1>1. PICK yes \in BOOLEAN : yes = TRUE
    OBVIOUS
  <1>2. PICK v : v = [w EXCEPT !.ack = yes]
    OBVIOUS
  <1>3. v = [kind |-> w.kind, born |-> w.born, gen |-> w.gen, disk |-> w.disk, at |-> w.at,
             pvcAt |-> w.pvcAt, ack |-> yes, targets |-> w.targets]
    BY <1>2 DEF Works
  <1>4. v = [w EXCEPT !.ack = TRUE]
    BY <1>1, <1>2
  <1> HIDE <1>1
  <1>5. v \in Works
    BY <1>3 DEF Works
  <1>6. QED
    BY <1>3, <1>4, <1>5

\* The work of an orphan.
LEMMA OrphanWork ==
    ASSUME TypeOK, NEW targets \in SUBSET Targets, NEW g \in Gens
    PROVE  LET v == [Work("orphan", 0, 0, targets) EXCEPT !.gen = g, !.disk = NoDisk]
           IN  /\ v \in Works /\ v.kind = "orphan" /\ v.born = "orphan" /\ v.gen = g /\ v.targets = targets
  <1>1. PICK w \in Works : w = Work("orphan", 0, 0, targets) /\ w.kind = "orphan" /\ w.born = "orphan" /\ w.targets = targets
    BY WorkTyped DEF Kinds
  <1>2. PICK a : a = [w EXCEPT !.gen = g]
    OBVIOUS
  <1>3. a = [kind |-> w.kind, born |-> w.born, gen |-> g, disk |-> w.disk, at |-> w.at,
             pvcAt |-> w.pvcAt, ack |-> w.ack, targets |-> w.targets]
    BY <1>2 DEF Works
  <1>4. PICK v : v = [a EXCEPT !.disk = NoDisk]
    OBVIOUS
  <1>5. v = [kind |-> w.kind, born |-> w.born, gen |-> g, disk |-> NoDisk, at |-> w.at,
             pvcAt |-> w.pvcAt, ack |-> w.ack, targets |-> w.targets]
    BY <1>3, <1>4
  <1>6. v = [Work("orphan", 0, 0, targets) EXCEPT !.gen = g, !.disk = NoDisk]
    BY <1>1, <1>2, <1>4
  <1>7. v \in Works
    BY <1>5 DEF Works, MaybeDisk
  <1>8. QED
    BY <1>1, <1>5, <1>6, <1>7

\* A builder that has issued its call, or goes on to the next stage.
LEMMA IssuedBuilder ==
    ASSUME NEW b \in Builders
    PROVE  LET c == [b EXCEPT !.issued = TRUE]
           IN  /\ c \in Builders /\ c.gen = b.gen /\ c.at = b.at /\ c.disk = b.disk /\ c.bound = b.bound
               /\ c.stage = b.stage /\ c.issued = TRUE
  <1>1. PICK yes \in BOOLEAN : yes = TRUE
    OBVIOUS
  <1>2. PICK c : c = [b EXCEPT !.issued = yes]
    OBVIOUS
  <1>3. c = [gen |-> b.gen, at |-> b.at, disk |-> b.disk, bound |-> b.bound, stage |-> b.stage, issued |-> yes]
    BY <1>2 DEF Builders
  <1>4. c = [b EXCEPT !.issued = TRUE]
    BY <1>1, <1>2
  <1> HIDE <1>1
  <1>5. c \in Builders
    BY <1>3 DEF Builders
  <1>6. c.issued = TRUE
    BY <1>1, <1>3
  <1>7. QED
    BY <1>3, <1>4, <1>5, <1>6
LEMMA AdvancedBuilder ==
    ASSUME NEW b \in Builders
    PROVE  /\ b.stage = "ipc" => Advanced(b) = {}
           /\ b.stage # "ipc" =>
                \E c \in Builders :
                    /\ Advanced(b) = {c} /\ c.gen = b.gen /\ c.at = b.at /\ c.disk = b.disk
                    /\ c.bound = TRUE /\ c.issued = FALSE
                    /\ b.stage = "disk" => c.stage = "guest"
                    /\ b.stage = "guest" => c.stage = "ipc"
  <1>1. b.stage = "ipc" => Advanced(b) = {}
    BY DEF Advanced
  <1>2. SUFFICES ASSUME b.stage # "ipc"
                 PROVE  \E c \in Builders :
                    /\ Advanced(b) = {c} /\ c.gen = b.gen /\ c.at = b.at /\ c.disk = b.disk
                    /\ c.bound = TRUE /\ c.issued = FALSE
                    /\ b.stage = "disk" => c.stage = "guest"
                    /\ b.stage = "guest" => c.stage = "ipc"
    BY <1>1
  <1>3. PICK yes \in BOOLEAN : yes = TRUE
    OBVIOUS
  <1>4. PICK no \in BOOLEAN : no = FALSE
    OBVIOUS
  <1>5. PICK stage \in Parts : stage = NextStage(b.stage)
    BY DEF NextStage, Parts
  <1>6. PICK x : x = [b EXCEPT !.stage = stage]
    OBVIOUS
  <1>7. x = [gen |-> b.gen, at |-> b.at, disk |-> b.disk, bound |-> b.bound, stage |-> stage, issued |-> b.issued]
    BY <1>6 DEF Builders
  <1>8. PICK y : y = [x EXCEPT !.issued = no]
    OBVIOUS
  <1>9. y = [gen |-> b.gen, at |-> b.at, disk |-> b.disk, bound |-> b.bound, stage |-> stage, issued |-> no]
    BY <1>7, <1>8
  <1>10. PICK c : c = [y EXCEPT !.bound = yes]
    OBVIOUS
  <1>11. c = [gen |-> b.gen, at |-> b.at, disk |-> b.disk, bound |-> yes, stage |-> stage, issued |-> no]
    BY <1>9, <1>10
  <1>12. Advanced(b) = {c}
    BY <1>2, <1>3, <1>4, <1>5, <1>6, <1>8, <1>10 DEF Advanced
  <1> HIDE <1>3, <1>4
  <1>13. c \in Builders
    BY <1>11 DEF Builders
  <1>14. c.bound = TRUE /\ c.issued = FALSE
    BY <1>3, <1>4, <1>11
  <1>15. (b.stage = "disk" => c.stage = "guest") /\ (b.stage = "guest" => c.stage = "ipc")
    BY <1>5, <1>11 DEF NextStage
  <1>16. QED
    BY <1>11, <1>12, <1>13, <1>14, <1>15

LEMMA CallTyped ==
    ASSUME NEW b \in Builders
    PROVE  /\ Call(b) \in Calls
           /\ Call(b).part = b.stage /\ Call(b).gen = b.gen /\ Call(b).disk = b.disk
  BY DEF Call, Calls, Builders

\* What a create leaves.
LEMMA LandFacts ==
    ASSUME TypeOK, NEW call \in landing, Land(call)
    PROVE  /\ call.part = "disk" =>
                /\ objs' = objs /\ disks' \in [Disks -> Volumes] /\ disks'[call.disk].phase = "up"
                /\ \A d \in Disks \ {call.disk} : disks'[d] = disks[d]
           /\ call.part # "disk" =>
                /\ disks' = disks /\ call.part \in Compute /\ objs' \in [Compute \X Gens -> Objects]
                /\ objs[<<call.part, call.gen>>].phase # "none" => objs' = objs
                /\ objs[<<call.part, call.gen>>].phase = "none" =>
                    /\ objs'[<<call.part, call.gen>>].phase = "up"
                    /\ objs'[<<call.part, call.gen>>].uid = objs[<<call.part, call.gen>>].uid + 1
                    /\ objs'[<<call.part, call.gen>>].mounts = IF call.part = "guest" THEN call.disk ELSE NoDisk
                /\ \A c \in Compute, g \in Gens : <<c, g>> # <<call.part, call.gen>> => objs'[<<c, g>>] = objs[<<c, g>>]
  <1>1. call.part \in Parts /\ call.gen \in Gens /\ call.disk \in Disks
    BY DEF TypeOK, Calls
  <1>2. CASE call.part = "disk"
    <2>1. disks' = [disks EXCEPT ![call.disk].phase = "up", ![call.disk].gen = call.gen] /\ objs' = objs
      BY <1>2 DEF Land
    <2>2. call.gen \in Nat
      BY <1>1, Numbers
    <2>3. PICK v : v = [disks[call.disk] EXCEPT !.phase = "up"]
      OBVIOUS
    <2>4. v = [phase |-> "up", gen |-> disks[call.disk].gen]
      BY <1>1, <2>3 DEF TypeOK, Volumes
    <2>5. PICK u : u = [v EXCEPT !.gen = call.gen]
      OBVIOUS
    <2>6. u = [phase |-> "up", gen |-> call.gen]
      BY <2>4, <2>5
    <2>7. u \in Volumes
      BY <2>2, <2>6 DEF Volumes
    <2>8. PICK mid : mid = [disks EXCEPT ![call.disk] = v]
      OBVIOUS
    <2>9. mid = [disks EXCEPT ![call.disk].phase = "up"]
      BY <2>3, <2>8
    <2>10. disks' = [mid EXCEPT ![call.disk].gen = call.gen]
      BY <2>1, <2>9
    <2>11. mid[call.disk] = v
      BY <1>1, <2>8 DEF TypeOK
    <2>12. disks' = [mid EXCEPT ![call.disk] = u]
      BY <2>5, <2>10, <2>11
    <2>13. disks' = [disks EXCEPT ![call.disk] = u]
      BY <1>1, <2>8, <2>12 DEF TypeOK
    <2>14. QED
      BY <1>1, <1>2, <2>1, <2>6, <2>7, <2>13 DEF TypeOK
  <1>3. CASE call.part # "disk"
    <2>1. call.part \in Compute
      BY <1>1, <1>3 DEF Parts, Compute
    <2> DEFINE x == <<call.part, call.gen>>
    <2>2. x \in Compute \X Gens /\ objs[x] \in Objects
      BY <1>1, <2>1, ObjectTyped
    <2>3. PICK n \in Nat : n = objs[x].uid + 1
      BY <2>2 DEF Objects
    <2>4. PICK m \in MaybeDisk : m = IF call.part = "guest" THEN call.disk ELSE NoDisk
      BY <1>1 DEF MaybeDisk
    <2>5. PICK o \in Objects : o = IF objs[x].phase # "none" THEN objs[x]
                                   ELSE [phase |-> "up", uid |-> n, mounts |-> m]
      BY <2>2, <2>3, <2>4 DEF Objects
    <2>6. objs' = [objs EXCEPT ![x] = o] /\ disks' = disks
      BY <1>3, <2>3, <2>4, <2>5 DEF Land
    <2>7. objs[x].phase # "none" => objs' = objs
      BY <2>2, <2>5, <2>6 DEF TypeOK
    <2>8. objs' \in [Compute \X Gens -> Objects] /\ objs'[x] = o
      BY <2>2, <2>6 DEF TypeOK
    <2>9. \A c \in Compute, g \in Gens : <<c, g>> # x => objs'[<<c, g>>] = objs[<<c, g>>]
      BY <2>2, <2>6 DEF TypeOK
    <2> HIDE DEF x
    <2>10. objs[x].phase = "none" => o.phase = "up" /\ o.uid = n /\ o.mounts = m
      BY <2>5
    <2> USE DEF x
    <2>11. QED
      BY <1>3, <2>1, <2>3, <2>4, <2>6, <2>7, <2>8, <2>9, <2>10
  <1>4. QED
    BY <1>2, <1>3

\* What a delete leaves.
LEMMA DeletedFacts ==
    ASSUME TypeOK, NEW t \in Targets, IsCompute(t), objs' = Deleted(t)
    PROVE  /\ t.part \in Compute /\ t.gen \in Gens /\ objs' \in [Compute \X Gens -> Objects]
           /\ \A c \in Compute, g \in Gens :
                /\ objs'[<<c, g>>].uid = objs[<<c, g>>].uid /\ objs'[<<c, g>>].mounts = objs[<<c, g>>].mounts
                /\ \/ objs'[<<c, g>>].phase = objs[<<c, g>>].phase
                   \/ /\ c = t.part /\ g = t.gen /\ t.uid = objs[<<c, g>>].uid
                      /\ objs[<<c, g>>].phase = "up" /\ objs'[<<c, g>>].phase = "ending"
  <1>1. t.part \in Compute /\ t.gen \in Gens
    BY DEF IsCompute, Targets
  <1> DEFINE x == <<t.part, t.gen>>
  <1>2. x \in Compute \X Gens /\ objs[x] \in Objects
    BY <1>1, ObjectTyped
  <1>3. PICK phase \in {"none", "up", "ending"} :
          phase = IF objs[x].phase = "up" /\ SameObject(t) THEN "ending" ELSE objs[x].phase
    BY <1>2 DEF Objects
  <1>4. PICK o : o = [objs[x] EXCEPT !.phase = phase]
    OBVIOUS
  <1>5. o = [phase |-> phase, uid |-> objs[x].uid, mounts |-> objs[x].mounts]
    BY <1>2, <1>4 DEF Objects
  <1>6. objs' = [objs EXCEPT ![x] = o]
    BY <1>3, <1>4 DEF Deleted
  <1>7. o \in Objects
    BY <1>2, <1>5 DEF Objects
  <1>8. objs' \in [Compute \X Gens -> Objects] /\ objs'[x] = o
    BY <1>2, <1>6, <1>7 DEF TypeOK
  <1>9. \A c \in Compute, g \in Gens : <<c, g>> # x => objs'[<<c, g>>] = objs[<<c, g>>]
    BY <1>2, <1>6 DEF TypeOK
  <1>10. o.uid = objs[x].uid /\ o.mounts = objs[x].mounts /\ o.phase = phase
    BY <1>5
  <1>11. phase = objs[x].phase \/ (objs[x].phase = "up" /\ phase = "ending" /\ t.uid = objs[x].uid)
    BY <1>3 DEF SameObject
  <1>12. ASSUME NEW c \in Compute, NEW g \in Gens
         PROVE  /\ objs'[<<c, g>>].uid = objs[<<c, g>>].uid /\ objs'[<<c, g>>].mounts = objs[<<c, g>>].mounts
                /\ \/ objs'[<<c, g>>].phase = objs[<<c, g>>].phase
                   \/ /\ c = t.part /\ g = t.gen /\ t.uid = objs[<<c, g>>].uid
                      /\ objs[<<c, g>>].phase = "up" /\ objs'[<<c, g>>].phase = "ending"
    <2>1. CASE <<c, g>> # x
      BY <1>9, <2>1
    <2>2. CASE <<c, g>> = x
      BY <1>8, <1>10, <1>11, <2>2
    <2>3. QED
      BY <2>1, <2>2
  <1> HIDE DEF x
  <1>13. QED
    BY <1>1, <1>8, <1>12

\* A deletion that is over.
LEMMA ComputeGoneFacts ==
    ASSUME TypeOK, NEW c \in Compute, NEW g \in Gens, ComputeGone(c, g)
    PROVE  /\ objs' \in [Compute \X Gens -> Objects]
           /\ objs[<<c, g>>].phase = "ending" /\ objs'[<<c, g>>].phase = "none" /\ objs'[<<c, g>>].uid = objs[<<c, g>>].uid
           /\ \A x \in Compute, y \in Gens : <<x, y>> # <<c, g>> => objs'[<<x, y>>] = objs[<<x, y>>]
  <1>1. <<c, g>> \in Compute \X Gens /\ objs[<<c, g>>] \in Objects
    BY ObjectTyped
  <1>2. PICK m : m = [objs[<<c, g>>] EXCEPT !.phase = "none"]
    OBVIOUS
  <1>3. m = [phase |-> "none", uid |-> objs[<<c, g>>].uid, mounts |-> objs[<<c, g>>].mounts]
    BY <1>1, <1>2 DEF Objects
  <1>4. PICK o : o = [m EXCEPT !.mounts = NoDisk]
    OBVIOUS
  <1>5. o = [phase |-> "none", uid |-> objs[<<c, g>>].uid, mounts |-> NoDisk]
    BY <1>3, <1>4
  <1>6. o \in Objects
    BY <1>1, <1>5 DEF Objects, MaybeDisk
  <1>7. PICK mid : mid = [objs EXCEPT ![<<c, g>>] = m]
    OBVIOUS
  <1>8. mid = [objs EXCEPT ![<<c, g>>].phase = "none"]
    BY <1>2, <1>7
  <1>9. objs' = [mid EXCEPT ![<<c, g>>].mounts = NoDisk]
    BY <1>8 DEF ComputeGone
  <1>10. mid[<<c, g>>] = m
    BY <1>1, <1>7 DEF TypeOK
  <1>11. objs' = [mid EXCEPT ![<<c, g>>] = o]
    BY <1>4, <1>9, <1>10
  <1>12. objs' = [objs EXCEPT ![<<c, g>>] = o]
    BY <1>1, <1>7, <1>11 DEF TypeOK
  <1>13. objs' \in [Compute \X Gens -> Objects] /\ objs'[<<c, g>>] = o
    BY <1>1, <1>6, <1>12 DEF TypeOK
  <1>14. \A x \in Compute, y \in Gens : <<x, y>> # <<c, g>> => objs'[<<x, y>>] = objs[<<x, y>>]
    BY <1>1, <1>12 DEF TypeOK
  <1>15. objs[<<c, g>>].phase = "ending"
    BY DEF ComputeGone
  <1>16. objs'[<<c, g>>].phase = "none" /\ objs'[<<c, g>>].uid = objs[<<c, g>>].uid
    BY <1>5, <1>13
  <1>17. QED
    BY ONLY <1>13, <1>14, <1>15, <1>16

Phases == {"absent", "up", "deleting", "gone"}
LEMMA PhaseFacts ==
    ASSUME TypeOK, NEW d \in Disks, NEW phase \in Phases, disks' = [disks EXCEPT ![d].phase = phase]
    PROVE  /\ disks' \in [Disks -> Volumes] /\ disks'[d].phase = phase
           /\ \A x \in Disks \ {d} : disks'[x] = disks[x]
  <1>1. PICK v : v = [disks[d] EXCEPT !.phase = phase]
    OBVIOUS
  <1>2. v = [phase |-> phase, gen |-> disks[d].gen]
    BY <1>1 DEF TypeOK, Volumes
  <1>3. v \in Volumes
    BY <1>2 DEF Volumes, Phases, TypeOK
  <1>4. disks' = [disks EXCEPT ![d] = v]
    BY <1>1
  <1>5. QED
    BY <1>2, <1>3, <1>4 DEF TypeOK

\* The deletion of a disk is called for.
Dropped(t) == [disks EXCEPT ![t.disk].phase = IF @ = "up" /\ Released(t) THEN "deleting" ELSE @]
LEMMA DroppedFacts ==
    ASSUME TypeOK, NEW t \in Targets, t.disk # NoDisk, disks' = Dropped(t)
    PROVE  /\ t.disk \in Disks /\ disks' \in [Disks -> Volumes]
           /\ \A x \in Disks \ {t.disk} : disks'[x] = disks[x]
           /\ \/ disks'[t.disk].phase = disks[t.disk].phase
              \/ disks[t.disk].phase = "up" /\ disks'[t.disk].phase = "deleting"
  <1>1. t.disk \in Disks
    BY DEF Targets, MaybeDisk
  <1>2. PICK phase \in Phases : phase = IF disks[t.disk].phase = "up" /\ Released(t) THEN "deleting" ELSE disks[t.disk].phase
    BY <1>1 DEF TypeOK, Volumes, Phases
  <1>3. disks' = [disks EXCEPT ![t.disk].phase = phase]
    BY <1>2 DEF Dropped
  <1>4. QED
    BY <1>1, <1>2, <1>3, PhaseFacts

\* The executor after each of its steps.
Exec(work, left, strike, pending, locked) ==
    [work |-> work, left |-> left, strike |-> strike, pending |-> pending, locked |-> locked]
LEMMA ExecTyped ==
    ASSUME NEW work \in Works, NEW left \in SUBSET Targets, NEW strike \in BOOLEAN,
           NEW pending \in BOOLEAN, NEW locked \in BOOLEAN
    PROVE  /\ Exec(work, left, strike, pending, locked) \in Executors
           /\ LET e == Exec(work, left, strike, pending, locked)
              IN  /\ e.work = work /\ e.left = left /\ e.strike = strike /\ e.pending = pending
                  /\ e.locked = locked
  BY DEF Exec, Executors

LEMMA StruckExec ==
    ASSUME NEW e \in Executors
    PROVE  LET c == [e EXCEPT !.strike = TRUE]
           IN  c \in Executors /\ c.work = e.work /\ c.left = e.left /\ c.pending = e.pending /\ c.strike = TRUE
  <1>1. PICK yes \in BOOLEAN : yes = TRUE
    OBVIOUS
  <1>2. PICK c : c = [e EXCEPT !.strike = yes]
    OBVIOUS
  <1>3. c = Exec(e.work, e.left, yes, e.pending, e.locked)
    BY <1>2 DEF Executors, Exec
  <1>4. c = [e EXCEPT !.strike = TRUE]
    BY <1>1, <1>2
  <1>5. e.work \in Works /\ e.left \in SUBSET Targets /\ e.pending \in BOOLEAN /\ e.locked \in BOOLEAN
    BY DEF Executors
  <1> HIDE <1>1
  <1>6. c \in Executors /\ c.work = e.work /\ c.left = e.left /\ c.pending = e.pending /\ c.strike = yes
    BY <1>3, <1>5, ExecTyped
  <1> USE <1>1
  <1>7. QED
    BY <1>1, <1>4, <1>6

LEMMA UnlockedExec ==
    ASSUME NEW e \in Executors
    PROVE  LET c == [e EXCEPT !.locked = FALSE]
           IN  c \in Executors /\ c.work = e.work /\ c.left = e.left /\ c.pending = e.pending /\ c.strike = e.strike
  <1>1. PICK no \in BOOLEAN : no = FALSE
    OBVIOUS
  <1>2. PICK c : c = [e EXCEPT !.locked = no]
    OBVIOUS
  <1>3. c = Exec(e.work, e.left, e.strike, e.pending, no)
    BY <1>2 DEF Executors, Exec
  <1>4. c = [e EXCEPT !.locked = FALSE]
    BY <1>1, <1>2
  <1>5. e.work \in Works /\ e.left \in SUBSET Targets /\ e.pending \in BOOLEAN /\ e.strike \in BOOLEAN
    BY DEF Executors
  <1> HIDE <1>1
  <1>6. c \in Executors /\ c.work = e.work /\ c.left = e.left /\ c.pending = e.pending /\ c.strike = e.strike
    BY <1>3, <1>5, ExecTyped
  <1>7. QED
    BY <1>4, <1>6

\* Past target t.
LEMMA OnExec ==
    ASSUME NEW e \in Executors, NEW t
    PROVE  LET on == [e EXCEPT !.strike = FALSE, !.left = @ \ {t}]
           IN  on \in Executors /\ on.work = e.work /\ on.left = e.left \ {t} /\ on.pending = e.pending /\ on.strike = FALSE
  <1>1. PICK no \in BOOLEAN : no = FALSE
    OBVIOUS
  <1>2. PICK left \in SUBSET Targets : left = e.left \ {t}
    BY DEF Executors
  <1>3. PICK m : m = [e EXCEPT !.strike = no]
    OBVIOUS
  <1>4. m = Exec(e.work, e.left, no, e.pending, e.locked)
    BY <1>3 DEF Executors, Exec
  <1>5. PICK c : c = [m EXCEPT !.left = left]
    OBVIOUS
  <1>6. c = Exec(e.work, left, no, e.pending, e.locked)
    BY <1>4, <1>5 DEF Exec
  <1>7. m.left = e.left
    BY <1>4 DEF Exec
  <1>8. c = [e EXCEPT !.strike = FALSE, !.left = @ \ {t}]
    BY <1>1, <1>2, <1>3, <1>5, <1>7
  <1>9. e.work \in Works /\ e.pending \in BOOLEAN /\ e.locked \in BOOLEAN
    BY DEF Executors
  <1> HIDE <1>1
  <1>10. c \in Executors /\ c.work = e.work /\ c.left = left /\ c.pending = e.pending /\ c.strike = no
    BY <1>6, <1>9, ExecTyped
  <1> USE <1>1
  <1>11. QED
    BY <1>1, <1>2, <1>8, <1>10

LEMMA PendingExec ==
    ASSUME NEW e \in Executors, NEW remains \in BOOLEAN
    PROVE  LET c == [e EXCEPT !.pending = @ \/ remains]
           IN  c \in Executors /\ c.work = e.work /\ c.left = e.left /\ c.strike = e.strike
               /\ c.pending = (e.pending \/ remains)
  <1>1. e.pending \in BOOLEAN
    BY DEF Executors
  <1>2. PICK pending \in BOOLEAN : pending = (e.pending \/ remains)
    BY <1>1
  <1>3. PICK c : c = [e EXCEPT !.pending = pending]
    OBVIOUS
  <1>4. c = Exec(e.work, e.left, e.strike, pending, e.locked)
    BY <1>3 DEF Executors, Exec
  <1>5. c = [e EXCEPT !.pending = @ \/ remains]
    BY <1>2, <1>3
  <1>6. e.work \in Works /\ e.left \in SUBSET Targets /\ e.strike \in BOOLEAN /\ e.locked \in BOOLEAN
    BY DEF Executors
  <1>7. c \in Executors /\ c.work = e.work /\ c.left = e.left /\ c.strike = e.strike /\ c.pending = pending
    BY <1>4, <1>6, ExecTyped
  <1>8. QED
    BY <1>2, <1>5, <1>7

-----------------------------------------------------------------------------
(* Every step keeps the types. *)

LEMMA MovedToTyped ==
    ASSUME TypeOK, NEW status, NEW state, MovedTo(status, state)
    PROVE  row' \in Rows /\ pvcs' \in [Disks -> Records]
  BY DEF MovedTo, RecordIs

LEMMA RequestTyped ==
    ASSUME TypeOK, WithinBounds, Provision
    PROVE  TypeOK'
  <1>1. Provisioned
    BY ProvisionFacts
  <1>2. builders' \subseteq Builders
    <2>1. builders' = builders \cup {Builder(row, Assigned)}
      BY DEF Provision, Assigned
    <2>2. Assigned \in Disks /\ row \in Rows
      BY <1>1 DEF Provisioned, TypeOK
    <2>3. Builder(row, Assigned) \in Builders
      BY <2>2, BuilderTyped
    <2>4. QED
      BY <2>1, <2>3 DEF TypeOK
  <1>3. row' \in Rows /\ pvcs' \in [Disks -> Records]
    BY <1>1 DEF Provisioned, RecordIs
  <1>4. drawn' \in Nat /\ resumes' \in Nat
    BY DEF Provision, TypeOK
  <1>5. QED
    BY <1>2, <1>3, <1>4 DEF TypeOK, Provision, cluster, signals

LEMMA BuildTyped ==
    ASSUME TypeOK, BuildersSound, RowAgrees, NEW b \in builders,
           BuildCreate(b) \/ BuildRecord(b) \/ BuildFails(b) \/ BuilderDies(b)
    PROVE  TypeOK'
  <1>1. b \in Builders /\ b.disk \in Disks
    BY DEF TypeOK, Builders
  <1>2. Advanced(b) \subseteq Builders
    <2>1. CASE b.stage = "ipc"
      BY <1>1, <2>1, AdvancedBuilder
    <2>2. CASE b.stage # "ipc"
      BY <1>1, <2>2, AdvancedBuilder
    <2>3. QED
      BY <2>1, <2>2
  <1>3. CASE BuildCreate(b)
    <2>1. builders' \subseteq Builders
      <3>1. [b EXCEPT !.issued = TRUE] \in Builders
        BY <1>1, IssuedBuilder
      <3>2. \/ builders' = builders \ {b}
            \/ builders' = (builders \ {b}) \cup Advanced(b)
            \/ builders' = (builders \ {b}) \cup {[b EXCEPT !.issued = TRUE]}
        BY <1>3 DEF BuildCreate
      <3>3. QED
        BY <1>2, <3>1, <3>2 DEF TypeOK
    <2>2. landing' \subseteq Calls
      <3>1. Call(b) \in Calls
        BY <1>1, CallTyped
      <3>2. landing' = landing \/ landing' = landing \cup {Call(b)}
        BY <1>3 DEF BuildCreate
      <3>3. QED
        BY <3>1, <3>2 DEF TypeOK
    <2>3. QED
      BY <1>3, <2>1, <2>2 DEF TypeOK, BuildCreate, database, signals, bounds
  <1>4. CASE BuildRecord(b)
    <2>1. builders' \subseteq Builders
      BY <1>2, <1>4 DEF BuildRecord, TypeOK
    <2>2. recorded' \subseteq Disks
      BY <1>1, <1>4 DEF BuildRecord, TypeOK
    <2>3. row' \in Rows /\ pvcs' \in [Disks -> Records]
      <3>1. CASE Holds(b)
        BY <1>4, <3>1, LearnedFacts DEF Learned
      <3>2. CASE ~Holds(b)
        BY <1>4, <3>2 DEF BuildRecord, TypeOK
      <3>3. QED
        BY <3>1, <3>2
    <2>4. QED
      BY <1>4, <2>1, <2>2, <2>3 DEF TypeOK, BuildRecord, cluster, signals
  <1>5. CASE BuildFails(b)
    <2>1. row' \in Rows /\ pvcs' \in [Disks -> Records]
      <3>1. CASE Holds(b)
        <4>1. row' = Moved(row, "failed") /\ pvcs' = [pvcs EXCEPT ![b.disk] = Turned(@, "failed")]
          BY <1>5, <3>1 DEF BuildFails
        <4>2. row.disk = b.disk /\ row.disk # NoDisk
          BY <3>1 DEF BuildersSound, Building, Holds, RowAgrees
        <4>3. MovedTo("failed", "failed")
          BY <4>1, <4>2, MovedToFacts DEF Statuses, PvcStates
        <4>4. QED
          BY <4>3, MovedToTyped
      <3>2. CASE ~Holds(b)
        BY <1>5, <3>2 DEF BuildFails, TypeOK
      <3>3. QED
        BY <3>1, <3>2
    <2>2. faults' \in Nat
      BY <1>5 DEF BuildFails, Fault, TypeOK
    <2>3. QED
      BY <1>5, <2>1, <2>2 DEF TypeOK, BuildFails, cluster, signals
  <1>6. CASE BuilderDies(b)
    <2>1. faults' \in Nat
      BY <1>6 DEF BuilderDies, Fault, TypeOK
    <2>2. QED
      BY <1>6, <2>1 DEF TypeOK, BuilderDies, database, cluster, signals
  <1>7. QED
    BY <1>3, <1>4, <1>5, <1>6

LEMMA ClusterTyped ==
    ASSUME TypeOK,
           \/ \E call \in landing : Land(call)
           \/ \E c \in Compute, g \in Gens : ComputeGone(c, g)
           \/ \E d \in Disks : DiskGone(d)
    PROVE  TypeOK'
  <1>1. ASSUME NEW call \in landing, Land(call)
        PROVE  TypeOK'
    <2>1. objs' \in [Compute \X Gens -> Objects] /\ disks' \in [Disks -> Volumes]
      BY <1>1, LandFacts DEF TypeOK
    <2>2. landing' \subseteq Calls
      BY <1>1 DEF Land, TypeOK
    <2>3. QED
      BY <1>1, <2>1, <2>2 DEF TypeOK, Land, database, workers, signals, bounds
  <1>2. ASSUME NEW c \in Compute, NEW g \in Gens, ComputeGone(c, g)
        PROVE  TypeOK'
    <2>1. objs' \in [Compute \X Gens -> Objects]
      BY <1>2, ComputeGoneFacts
    <2>2. QED
      BY <1>2, <2>1 DEF TypeOK, ComputeGone, database, workers, signals, bounds
  <1>3. ASSUME NEW d \in Disks, DiskGone(d)
        PROVE  TypeOK'
    <2>1. disks' \in [Disks -> Volumes]
      BY <1>3, PhaseFacts DEF DiskGone, Phases
    <2>2. QED
      BY <1>3, <2>1 DEF TypeOK, DiskGone, database, workers, signals, bounds
  <1>4. QED
    BY <1>1, <1>2, <1>3

\* Ready, and at rest.
LEMMA ReadyTyped ==
    ASSUME TypeOK, MarkReady PROVE TypeOK' /\ MovedTo("ready", "attached")
  <1>1. MovedTo("ready", "attached")
    BY MovedToFacts DEF MarkReady, Statuses, PvcStates
  <1>2. QED
    BY <1>1, MovedToTyped DEF MarkReady, TypeOK, cluster, workers, signals, bounds

LEMMA IdleTyped ==
    ASSUME TypeOK, RowAgrees, Idle
    PROVE  /\ TypeOK' /\ MovedTo("shutting_down", "detaching")
           /\ \E w \in Works :
                /\ w.kind = "idle" /\ w.born = "idle" /\ w.gen = row.gen /\ w.disk = row.disk
                /\ w.at = row.at + 1 /\ w.targets = SandboxTargets(TRUE)
                /\ works' = works \cup {w}
  <1>1. row.disk # NoDisk
    BY DEF Idle, RowAgrees
  <1>2. MovedTo("shutting_down", "detaching")
    BY <1>1, MovedToFacts DEF Idle, Statuses, PvcStates
  <1>3. SandboxTargets(TRUE) \in SUBSET Targets
    BY SandboxTargetsFacts
  <1>4. row.at + 1 \in Nat /\ PvcAt + 1 \in Nat /\ "idle" \in Kinds
    BY PvcAtTyped DEF TypeOK, Rows, Kinds
  <1>5. PICK at \in Nat, pvcAt \in Nat, targets \in SUBSET Targets :
            at = row.at + 1 /\ pvcAt = PvcAt + 1 /\ targets = SandboxTargets(TRUE)
    BY <1>3, <1>4
  <1>6. PICK w : /\ w = Work("idle", at, pvcAt, targets)
                 /\ w \in Works /\ w.kind = "idle" /\ w.born = "idle" /\ w.gen = row.gen /\ w.disk = row.disk
                 /\ w.at = at /\ w.targets = targets
    BY WorkTyped DEF Kinds
  <1>7. /\ w \in Works /\ w.kind = "idle" /\ w.born = "idle" /\ w.gen = row.gen /\ w.disk = row.disk
        /\ w.at = row.at + 1 /\ w.targets = SandboxTargets(TRUE)
    BY <1>5, <1>6
  <1>8. works' = works \cup {w}
    BY <1>5, <1>6 DEF Idle
  <1>9. TypeOK'
    BY <1>2, <1>7, <1>8, MovedToTyped DEF Idle, TypeOK, cluster, workers, signals, bounds
  <1>10. QED
    BY <1>2, <1>7, <1>8, <1>9

LEMMA ReapTyped ==
    ASSUME TypeOK, RowAgrees, Reap
    PROVE  /\ TypeOK' /\ row' = row /\ row.disk \in Disks /\ RecordIs(row.disk, "destroying", pvcs[row.disk].bound)
           /\ \E w \in Works, t \in Targets :
                /\ w.kind = "reap" /\ w.born = "reap" /\ w.gen = row.gen /\ w.disk = row.disk
                /\ w.targets = {t} /\ works' = works \cup {w}
                /\ t.part = "disk" /\ t.disk = row.disk /\ ~t.retain /\ ~t.cleaned
  <1>1. row.disk # NoDisk
    BY DEF Reap, PvcState
  <1>2. row.disk \in Disks
    BY <1>1 DEF TypeOK, Rows, MaybeDisk
  <1>3. RecordIs(row.disk, "destroying", pvcs[row.disk].bound)
    BY <1>2, TurnedRecord DEF Reap, PvcStates
  <1>4. PICK no \in BOOLEAN : no = FALSE
    OBVIOUS
  <1>5. PICK d \in Targets : /\ d = DiskTarget(no) /\ d.part = "disk" /\ d.disk = row.disk
                             /\ d.retain = no /\ ~d.cleaned
    BY DiskTargetTyped
  <1>6. PICK captured \in BOOLEAN : captured = pvcs[row.disk].evidence
    BY <1>2 DEF TypeOK, Records
  <1>7. PICK t : t = [d EXCEPT !.captured = captured]
    OBVIOUS
  <1>8. t = [part |-> d.part, gen |-> d.gen, disk |-> d.disk, uid |-> d.uid, retain |-> d.retain,
             cleaned |-> d.cleaned, captured |-> captured]
    BY <1>7 DEF Targets
  <1>9. t \in Targets
    BY <1>8 DEF Targets
  <1>10. t.part = "disk" /\ t.disk = row.disk /\ ~t.retain /\ ~t.cleaned
    BY <1>4, <1>5, <1>8
  <1>11. PICK w : w = Work("reap", row.at, PvcAt + 1, {t})
    OBVIOUS
  <1>12. works' = works \cup {w}
    BY <1>4, <1>5, <1>6, <1>7, <1>11 DEF Reap
  <1>13. row.at \in Nat /\ PvcAt + 1 \in Nat /\ "reap" \in Kinds /\ {t} \in SUBSET Targets
    BY <1>9, PvcAtTyped DEF TypeOK, Rows, Kinds
  <1>14. /\ w \in Works /\ w.kind = "reap" /\ w.born = "reap" /\ w.gen = row.gen /\ w.disk = row.disk
         /\ w.targets = {t}
    BY <1>11, <1>13, WorkTyped
  <1>15. row' = row
    BY DEF Reap
  <1>16. TypeOK'
    BY <1>3, <1>12, <1>14 DEF Reap, RecordIs, TypeOK, cluster, workers, signals, bounds
  <1>17. QED
    BY <1>2, <1>3, <1>9, <1>10, <1>12, <1>14, <1>15, <1>16

\* What is known of the disk, noted on its target.
LEMMA NotedTyped ==
    ASSUME NEW t \in Targets, NEW known \in BOOLEAN
    PROVE  LET u == [t EXCEPT !.captured = known]
           IN  /\ u \in Targets /\ u.part = t.part /\ u.gen = t.gen /\ u.disk = t.disk /\ u.uid = t.uid
               /\ u.retain = t.retain /\ u.cleaned = t.cleaned
  <1> DEFINE u == [t EXCEPT !.captured = known]
  <1>1. u = [part |-> t.part, gen |-> t.gen, disk |-> t.disk, uid |-> t.uid, retain |-> t.retain,
             cleaned |-> t.cleaned, captured |-> known]
    BY DEF Targets
  <1>2. QED
    BY <1>1 DEF Targets

\* A work of the session's that recovery takes over, and its own.
TakenOver(v) ==
    \/ v \in works /\ v.born = "orphan"
    \/ \E w \in OfSession : v.kind = "recovery" /\ v.born = w.born /\ v.targets = w.targets
    \/ /\ v.kind = "recovery" /\ v.born = "recovery"
       /\ \A t \in v.targets :
            /\ ~t.retain /\ ~t.cleaned
            /\ t.part = "disk" => t.disk = row.disk /\ row.disk # NoDisk
            /\ t.part # "disk" => t.gen = row.gen /\ t.uid = row.uid[t.part]
LEMMA RecoverTyped ==
    ASSUME TypeOK, WithinBounds, Recover
    PROVE  TypeOK' /\ Condemned /\ \A v \in works' : TakenOver(v)
  <1>1. Condemned
    BY RecoverFacts
  <1> DEFINE noted(t) == [t EXCEPT !.captured = Known(t)]
             mine == {noted(t) : t \in SandboxTargets(FALSE)}
             W == Work("recovery", row.at, PvcAt, mine)
  <1>2. ASSUME NEW t \in SandboxTargets(FALSE)
        PROVE  /\ noted(t) \in Targets /\ ~noted(t).retain /\ ~noted(t).cleaned
               /\ noted(t).part = "disk" => noted(t).disk = row.disk /\ row.disk # NoDisk
               /\ noted(t).part # "disk" => noted(t).gen = row.gen /\ noted(t).uid = row.uid[noted(t).part]
    <2>1. PICK no \in BOOLEAN : no = FALSE
      OBVIOUS
    <2>2. /\ t \in Targets /\ ~t.cleaned /\ ~t.retain
          /\ t.part = "disk" => t.disk = row.disk /\ row.disk # NoDisk
          /\ t.part # "disk" => t.gen = row.gen /\ t.uid = row.uid[t.part]
      BY <2>1, SandboxTargetsFacts
    <2>3. t.part = "disk" => pvcs[t.disk].evidence \in BOOLEAN
      BY <2>2 DEF TypeOK, Rows, MaybeDisk, Records
    <2>4. PICK known \in BOOLEAN : known = Known(t)
      BY <2>3 DEF Known
    <2>5. PICK u \in Targets :
            /\ u = [t EXCEPT !.captured = known] /\ u.part = t.part /\ u.gen = t.gen /\ u.disk = t.disk
            /\ u.uid = t.uid /\ u.retain = t.retain /\ u.cleaned = t.cleaned
      BY <2>2, NotedTyped
    <2>6. noted(t) = u
      BY <2>4, <2>5
    <2> HIDE DEF noted
    <2>7. QED
      BY <2>2, <2>5, <2>6
  <1> HIDE DEF noted
  <1>3. mine \in SUBSET Targets
    BY <1>2
  <1>4. PICK at \in Nat, pvcAt \in Nat, targets \in SUBSET Targets :
            at = row.at /\ pvcAt = PvcAt /\ targets = mine
    BY <1>3, PvcAtTyped DEF TypeOK, Rows
  <1>5. PICK w \in Works : w = Work("recovery", at, pvcAt, targets) /\ w.kind = "recovery" /\ w.born = "recovery"
                           /\ w.targets = targets
    BY WorkTyped DEF Kinds
  <1>6. W = w
    BY <1>4, <1>5
  <1>7. works' = (works \ OfSession) \cup {[v EXCEPT !.kind = "recovery"] : v \in OfSession} \cup {W}
    BY DEF Recover, noted
  <1> HIDE DEF W, mine
  <1>8. ASSUME NEW v \in works'
        PROVE  v \in Works /\ TakenOver(v)
    <2>1. CASE v \in works \ OfSession
      BY <2>1 DEF OfSession, TypeOK, TakenOver
    <2>2. CASE v \in {[x EXCEPT !.kind = "recovery"] : x \in OfSession}
      <3>1. PICK x \in OfSession : v = [x EXCEPT !.kind = "recovery"]
        BY <2>2
      <3>2. x \in Works
        BY DEF OfSession, TypeOK
      <3>3. v \in Works /\ v.kind = "recovery" /\ v.born = x.born /\ v.targets = x.targets
        BY <3>1, <3>2, TurnedWork
      <3>4. QED
        BY <3>3 DEF TakenOver
    <2>3. CASE v = W
      <3>1. v \in Works /\ v.kind = "recovery" /\ v.born = "recovery" /\ v.targets = mine
        BY <1>4, <1>5, <1>6, <2>3
      <3>2. \A t \in mine :
              /\ ~t.retain /\ ~t.cleaned
              /\ t.part = "disk" => t.disk = row.disk /\ row.disk # NoDisk
              /\ t.part # "disk" => t.gen = row.gen /\ t.uid = row.uid[t.part]
        BY <1>2 DEF mine
      <3>3. QED
        BY <3>1, <3>2 DEF TakenOver
    <2>4. QED
      BY <1>7, <2>1, <2>2, <2>3
  <1>9. works' \subseteq Works
    BY <1>8
  <1>10. TypeOK'
    BY <1>1, <1>9 DEF Condemned, Recover, TypeOK, cluster, workers, signals, bounds
  <1>11. QED
    BY <1>1, <1>8, <1>10

LEMMA SignalTyped ==
    ASSUME TypeOK, RowAgrees,
           Condemn \/ Suspect \/ (\E w \in works : PublishShutdown(w))
    PROVE  TypeOK'
  <1>1. row.gen \in Nat
    BY Numbers DEF TypeOK, Rows
  <1>2. CASE Condemn
    BY <1>1, <1>2 DEF Condemn, TypeOK, database, cluster, workers, bounds
  <1>3. CASE Suspect
    <2>1. verdicts' = verdicts \cup {row.gen} /\ faults' = faults + 1
      BY <1>3 DEF Suspect, Fault
    <2>2. verdicts' \subseteq Nat /\ faults' \in Nat
      <3>1. verdicts \subseteq Nat /\ faults \in Nat
        BY DEF TypeOK
      <3>2. verdicts' \subseteq Nat
        BY ONLY <1>1, <2>1, <3>1
      <3>3. faults' \in Nat
        BY ONLY <2>1, <3>1
      <3>4. QED
        BY ONLY <3>2, <3>3
    <2>3. UNCHANGED <<database, cluster, workers, shutdowns, sighting, recorded, drawn, resumes>>
      BY <1>3 DEF Suspect
    <2>4. QED
      BY <2>2, <2>3 DEF TypeOK, database, cluster, workers
  <1>4. CASE \E w \in works : PublishShutdown(w)
    BY <1>4 DEF PublishShutdown, TypeOK, database, cluster, workers, bounds
  <1>5. QED
    BY <1>2, <1>3, <1>4

\* An inventory lists what exists.
LEMMA InventoryFacts ==
    ASSUME TypeOK, NEW g \in Gens
    PROVE  /\ Inventory(g) \in SUBSET Targets
           /\ \A t \in Inventory(g) :
                /\ ~t.retain /\ ~t.cleaned
                /\ t.part = "disk" => t.disk \in Disks /\ disks[t.disk].phase # "absent"
                /\ t.part # "disk" => /\ t.part \in Compute /\ t.gen = g
                                      /\ objs[<<t.part, g>>].phase # "none" /\ t.uid = objs[<<t.part, g>>].uid
  <1>1. PICK no \in BOOLEAN : no = FALSE
    OBVIOUS
  <1>2. ASSUME NEW c \in Compute
        PROVE  LET t == Target(c, g, NoDisk, objs[<<c, g>>].uid, FALSE)
               IN  t \in Targets /\ t.part = c /\ t.gen = g /\ t.uid = objs[<<c, g>>].uid /\ ~t.retain /\ ~t.cleaned
                   /\ c # "disk"
    <2>1. PICK uid \in Nat : uid = objs[<<c, g>>].uid
      BY ObjectTyped
    <2>2. c \in Parts /\ c # "disk" /\ NoDisk \in MaybeDisk
      BY DEF Compute, Parts, MaybeDisk
    <2>3. PICK t : t = Target(c, g, NoDisk, uid, no)
      OBVIOUS
    <2>4. t \in Targets /\ t.part = c /\ t.gen = g /\ t.uid = uid /\ t.retain = no /\ ~t.cleaned
      BY <2>2, <2>3, TargetTyped
    <2>5. t = Target(c, g, NoDisk, objs[<<c, g>>].uid, FALSE)
      BY <1>1, <2>1, <2>3
    <2>6. QED
      BY <1>1, <2>1, <2>2, <2>4, <2>5
  <1>3. ASSUME NEW d \in Disks
        PROVE  LET t == Target("disk", g, d, 1, FALSE)
               IN  t \in Targets /\ t.part = "disk" /\ t.disk = d /\ ~t.retain /\ ~t.cleaned
    <2>1. PICK uid \in Nat : uid = 1
      OBVIOUS
    <2>2. "disk" \in Parts /\ d \in MaybeDisk
      BY DEF Parts, MaybeDisk
    <2>3. PICK t : t = Target("disk", g, d, uid, no)
      OBVIOUS
    <2>4. t \in Targets /\ t.part = "disk" /\ t.disk = d /\ t.retain = no /\ ~t.cleaned
      BY <2>2, <2>3, TargetTyped
    <2>5. t = Target("disk", g, d, 1, FALSE)
      BY <1>1, <2>1, <2>3
    <2>6. QED
      BY <1>1, <2>4, <2>5
  <1>4. ASSUME NEW t \in Inventory(g)
        PROVE  /\ t \in Targets /\ ~t.retain /\ ~t.cleaned
               /\ t.part = "disk" => t.disk \in Disks /\ disks[t.disk].phase # "absent"
               /\ t.part # "disk" => /\ t.part \in Compute /\ t.gen = g
                                     /\ objs[<<t.part, g>>].phase # "none" /\ t.uid = objs[<<t.part, g>>].uid
    <2>1. CASE \E c \in Compute : objs[<<c, g>>].phase # "none" /\ t = Target(c, g, NoDisk, objs[<<c, g>>].uid, FALSE)
      <3>1. PICK c \in Compute : objs[<<c, g>>].phase # "none" /\ t = Target(c, g, NoDisk, objs[<<c, g>>].uid, FALSE)
        BY <2>1
      <3>2. t \in Targets /\ t.part = c /\ t.gen = g /\ t.uid = objs[<<c, g>>].uid /\ ~t.retain /\ ~t.cleaned /\ c # "disk"
        BY <1>2, <3>1
      <3>3. QED
        BY ONLY <3>1, <3>2
    <2>2. CASE \E d \in Disks : disks[d].phase \in {"up", "deleting"} /\ t = Target("disk", g, d, 1, FALSE)
      BY <1>3, <2>2
    <2>3. QED
      BY <2>1, <2>2 DEF Inventory
  <1>5. QED
    BY <1>4

LEMMA SightTyped ==
    ASSUME TypeOK, NEW g \in Gens, Sight(g)
    PROVE  TypeOK' /\ sighting'.gen = g /\ sighting'.seen = Inventory(g)
  <1>1. PICK seen \in SUBSET Targets : seen = Inventory(g)
    BY InventoryFacts
  <1>2. sighting' = [gen |-> g, seen |-> seen]
    BY <1>1 DEF Sight
  <1>3. sighting' \in [gen : Nat, seen : SUBSET Targets] /\ sighting'.gen = g /\ sighting'.seen = seen
    BY <1>2, Numbers
  <1>4. TypeOK'
    BY <1>3 DEF Sight, TypeOK, database, cluster, workers, bounds
  <1>5. QED
    BY <1>1, <1>3, <1>4

\* The inventory judged.
Own(o) == {t \in sighting.seen : Ownership(t) = o}
Serviced ==
    /\ row.status = "stopped" /\ PvcState \in {"none", "detached"}
    /\ row' \in Rows /\ RowIs("service", row.gen, row.at + 1, row.disk, row.bound, row.uid)
    /\ \E w \in Works : /\ w.kind = "service" /\ w.born = "service" /\ w.targets = Own("stopped")
                        /\ works' = works \cup {w}
Orphaned ==
    /\ row' = row
    /\ \E w \in Works : /\ w.kind = "orphan" /\ w.born = "orphan" /\ w.targets = Own("orphan")
                        /\ works' = works \cup {w}
LEMMA AdmitTyped ==
    ASSUME TypeOK, AdmitSighting
    PROVE  /\ TypeOK' /\ sighting'.seen = {} /\ pvcs' = pvcs
           /\ Serviced \/ Orphaned \/ UNCHANGED <<row, works>>
  <1>1. Own("stopped") \in SUBSET Targets /\ Own("orphan") \in SUBSET Targets
    BY DEF Own, TypeOK
  <1>2. sighting' = NoSighting /\ sighting'.seen = {} /\ sighting' \in [gen : Nat, seen : SUBSET Targets]
    BY DEF AdmitSighting, NoSighting
  <1>3. row.status = "stopped" /\ PvcState \in {"none", "detached"} /\ row' = Moved(row, "service")
        /\ works' = works \cup {Work("service", row.at + 1, PvcAt, Own("stopped"))} => Serviced
    <2>1. SUFFICES ASSUME row.status = "stopped", PvcState \in {"none", "detached"}, row' = Moved(row, "service"),
                          works' = works \cup {Work("service", row.at + 1, PvcAt, Own("stopped"))}
                   PROVE  Serviced
      OBVIOUS
    <2>2. PICK at \in Nat, pvcAt \in Nat, targets \in SUBSET Targets :
              at = row.at + 1 /\ pvcAt = PvcAt /\ targets = Own("stopped")
      BY <1>1, PvcAtTyped DEF TypeOK, Rows
    <2>3. PICK w \in Works : w = Work("service", at, pvcAt, targets) /\ w.kind = "service" /\ w.born = "service"
                             /\ w.targets = targets
      BY WorkTyped DEF Kinds
    <2>4. works' = works \cup {w}
      BY <2>1, <2>2, <2>3
    <2>5. row' \in Rows /\ RowIs("service", row.gen, row.at + 1, row.disk, row.bound, row.uid)
      BY <2>1, MovedTyped DEF RowIs, TypeOK, Statuses
    <2>6. QED
      BY <2>1, <2>2, <2>3, <2>4, <2>5 DEF Serviced
  <1>4. sighting # NoSighting
    BY DEF AdmitSighting
  <1>5. row' = row /\ works' = works \cup {[Work("orphan", 0, 0, Own("orphan")) EXCEPT
                                        !.gen = sighting.gen, !.disk = NoDisk]} => Orphaned
    <2>1. PICK g \in Gens, targets \in SUBSET Targets : g = sighting.gen /\ targets = Own("orphan")
      BY <1>1, <1>4 DEF TypeOK
    <2>2. PICK w : w = [Work("orphan", 0, 0, targets) EXCEPT !.gen = g, !.disk = NoDisk]
      OBVIOUS
    <2>3. w \in Works /\ w.kind = "orphan" /\ w.born = "orphan" /\ w.targets = targets
      BY <2>2, OrphanWork
    <2>4. w = [Work("orphan", 0, 0, Own("orphan")) EXCEPT !.gen = sighting.gen, !.disk = NoDisk]
      BY <2>1, <2>2
    <2>5. QED
      BY <2>1, <2>3, <2>4 DEF Orphaned
  <1>6. Serviced \/ Orphaned \/ UNCHANGED <<row, works>>
    BY <1>3, <1>5 DEF AdmitSighting, Own
  <1>7. row' \in Rows /\ works' \subseteq Works
    BY <1>6 DEF Serviced, Orphaned, TypeOK
  <1>8. TypeOK' /\ pvcs' = pvcs
    BY <1>2, <1>7 DEF AdmitSighting, TypeOK, cluster, workers, bounds
  <1>9. QED
    BY <1>2, <1>6, <1>8

\* A pass begins: evidence is captured in the work and in its executor.
SameButTargets(v, w) ==
    v.kind = w.kind /\ v.born = w.born /\ v.gen = w.gen /\ v.disk = w.disk /\ v.at = w.at
Started(w) ==
    /\ w.kind # "recovery" /\ Owns(w)
    /\ \E v \in Works, e \in Executors :
        /\ SameButTargets(v, w) /\ v.targets = {Capture(t) : t \in w.targets}
        /\ works' = (works \ {w}) \cup {v} /\ execs' = execs \cup {e}
        /\ e.work = v /\ e.left = v.targets /\ ~e.strike
LEMMA StartTyped ==
    ASSUME TypeOK, NEW w \in works, ExecStart(w)
    PROVE  TypeOK' /\ Started(w)
  <1>1. w \in Works /\ w.targets \in SUBSET Targets
    BY DEF TypeOK, Works
  <1>2. PICK targets \in SUBSET Targets : targets = {Capture(t) : t \in w.targets}
    BY <1>1, CaptureTyped
  <1>3. PICK v : v = [w EXCEPT !.targets = targets]
    OBVIOUS
  <1>4. v \in Works /\ SameButTargets(v, w) /\ v.targets = targets
    BY <1>1, <1>3, TargetedTyped DEF SameButTargets
  <1>5. v = [w EXCEPT !.targets = {Capture(t) : t \in @}]
    BY <1>2, <1>3
  <1>6. PICK no \in BOOLEAN, yes \in BOOLEAN : no = FALSE /\ yes = TRUE
    OBVIOUS
  <1>7. PICK e : e = Exec(v, targets, no, no, yes)
    OBVIOUS
  <1>8. e \in Executors /\ e.work = v /\ e.left = v.targets /\ ~e.strike
    <2>1. e \in Executors /\ e.work = v /\ e.left = targets /\ e.strike = no
      BY <1>4, <1>7, ExecTyped
    <2>2. QED
      BY ONLY <1>4, <1>6, <2>1
  <1>9. works' = (works \ {w}) \cup {v} /\ execs' = execs \cup {e}
    BY <1>4, <1>5, <1>6, <1>7 DEF ExecStart, Exec
  <1>10. TypeOK'
    BY <1>4, <1>8, <1>9 DEF ExecStart, TypeOK, cluster, signals, bounds
  <1>11. w.kind # "recovery" /\ Owns(w)
    BY DEF ExecStart
  <1>12. QED
    BY <1>2, <1>4, <1>8, <1>9, <1>10, <1>11 DEF Started

Acked ==
    \E w \in works, v \in Works :
        /\ SameButTargets(v, w) /\ v.targets = w.targets /\ works' = (works \ {w}) \cup {v}
LEMMA AckTyped ==
    ASSUME TypeOK, NEW t \in shutdowns, ShutdownAck(t)
    PROVE  TypeOK' /\ Acked
  <1>1. PICK w \in works : works' = (works \ {w}) \cup {[w EXCEPT !.ack = TRUE]}
    BY DEF ShutdownAck
  <1>2. w \in Works
    BY DEF TypeOK
  <1>3. PICK v \in Works : v = [w EXCEPT !.ack = TRUE] /\ SameButTargets(v, w) /\ v.targets = w.targets
    BY <1>2, AckedWork DEF SameButTargets
  <1>4. works' = (works \ {w}) \cup {v}
    BY <1>1, <1>3
  <1>5. TypeOK'
    BY <1>3, <1>4 DEF ShutdownAck, TypeOK, cluster, workers, signals, bounds
  <1>6. QED
    BY <1>3, <1>4, <1>5 DEF Acked

\* An executor that goes on with what it had, and one past target t.
Onward(x, e) == x.work = e.work /\ x.left = e.left /\ x.pending = e.pending /\ (x.strike => e.strike \/ e.left # {})
LEMMA CheckTyped ==
    ASSUME TypeOK, NEW e \in execs, ExecCheck(e)
    PROVE  TypeOK' /\ works' \subseteq works /\ \A x \in execs' : x \in execs \/ Onward(x, e)
  <1>1. e \in Executors
    BY DEF TypeOK
  <1>2. PICK x \in Executors : x = [e EXCEPT !.strike = TRUE] /\ x.work = e.work /\ x.left = e.left /\ x.pending = e.pending
    BY <1>1, StruckExec
  <1>3. e.left # {}
    BY DEF ExecCheck
  <1>4. Onward(x, e)
    BY <1>2, <1>3 DEF Onward
  <1>5. execs' \subseteq execs \cup {x}
    BY <1>2 DEF ExecCheck
  <1>6. works' \subseteq works
    BY DEF ExecCheck
  <1>7. TypeOK'
    BY <1>5, <1>6 DEF ExecCheck, TypeOK, cluster, signals, bounds
  <1>8. QED
    BY <1>4, <1>5, <1>6, <1>7

Beyond(x, e, t) ==
    /\ x.work = e.work /\ x.left = e.left \ {t} /\ ~x.strike
    /\ IsCompute(t) => x.pending = (e.pending \/ Remains(t))
    /\ ~IsCompute(t) => x.pending = e.pending /\ (~t.retain => Reclaimed(t.disk))
Acted(t) ==
    \/ IsCompute(t) /\ objs' = Deleted(t) /\ disks' = disks
    \/ t.part = "disk" /\ t.retain /\ UNCHANGED <<objs, disks>>
    \/ t.part = "disk" /\ ~t.retain /\ disks' = Dropped(t) /\ objs' = objs
LEMMA ActFacts ==
    ASSUME TypeOK, ExecsSound, NEW e \in execs, ExecAct(e)
    PROVE  \E t \in e.left :
            t \in Targets /\ Acted(t) /\ \A x \in execs' : x \in execs \/ (x \in Executors /\ Beyond(x, e, t))
  <1>1. e \in Executors /\ e.left \in SUBSET Targets /\ e.left # {}
    BY DEF TypeOK, Executors, ExecsSound, ExecSound, ExecAct
  <1>2. PICK t \in e.left : t = NextTarget(e.left)
    BY <1>1, NextTargetIn
  <1>3. PICK on \in Executors :
          /\ on = [e EXCEPT !.strike = FALSE, !.left = @ \ {t}]
          /\ on.work = e.work /\ on.left = e.left \ {t} /\ on.pending = e.pending /\ on.strike = FALSE
    BY <1>1, OnExec
  <1>4. PICK remains \in BOOLEAN : remains = Remains(t)
    BY DEF Remains
  <1>5. PICK held \in Executors :
          /\ held = [on EXCEPT !.pending = @ \/ remains]
          /\ held.work = on.work /\ held.left = on.left /\ held.strike = on.strike
          /\ held.pending = (on.pending \/ remains)
    BY PendingExec
  <1>6. \/ IsCompute(t) /\ objs' = Deleted(t) /\ disks' = disks /\ execs' = (execs \ {e}) \cup {held}
        \/ t.part = "disk" /\ t.retain /\ UNCHANGED <<objs, disks>> /\ execs' \subseteq execs \cup {on}
        \/ /\ t.part = "disk" /\ ~t.retain /\ disks' = Dropped(t) /\ objs' = objs
           /\ execs' \subseteq execs \/ (Reclaimed(t.disk) /\ execs' \subseteq execs \cup {on})
    BY <1>2, <1>3, <1>4, <1>5 DEF ExecAct, Dropped
  <1>7. t.part = "disk" => ~IsCompute(t)
    BY DEF IsCompute, Compute
  <1>8. CASE IsCompute(t) /\ objs' = Deleted(t) /\ disks' = disks /\ execs' = (execs \ {e}) \cup {held}
    <2>1. Beyond(held, e, t)
      BY <1>3, <1>4, <1>5, <1>8 DEF Beyond
    <2>2. QED
      BY <1>1, <1>8, <2>1 DEF Acted
  <1>9. CASE t.part = "disk" /\ t.retain /\ UNCHANGED <<objs, disks>> /\ execs' \subseteq execs \cup {on}
    <2>1. Beyond(on, e, t)
      BY <1>3, <1>7, <1>9 DEF Beyond
    <2>2. QED
      BY <1>1, <1>9, <2>1 DEF Acted
  <1>10. CASE /\ t.part = "disk" /\ ~t.retain /\ disks' = Dropped(t) /\ objs' = objs
              /\ execs' \subseteq execs \/ (Reclaimed(t.disk) /\ execs' \subseteq execs \cup {on})
    <2>1. Reclaimed(t.disk) => Beyond(on, e, t)
      BY <1>3, <1>7, <1>10 DEF Beyond
    <2>2. Acted(t)
      BY <1>10 DEF Acted
    <2>3. \A x \in execs' : x \in execs \/ (x \in Executors /\ Beyond(x, e, t))
      BY <1>10, <2>1
    <2>4. QED
      BY <1>1, <2>2, <2>3
  <1>11. QED
    BY <1>6, <1>8, <1>9, <1>10

LEMMA ActTyped ==
    ASSUME TypeOK, ExecsSound, NEW e \in execs, ExecAct(e)
    PROVE  TypeOK'
  <1>1. PICK t \in e.left :
          t \in Targets /\ Acted(t) /\ \A x \in execs' : x \in execs \/ (x \in Executors /\ Beyond(x, e, t))
    BY ActFacts
  <1>2. Harmless(t)
    BY DEF ExecsSound, ExecSound
  <1>3. objs' \in [Compute \X Gens -> Objects] /\ disks' \in [Disks -> Volumes]
    <2>1. CASE IsCompute(t) /\ objs' = Deleted(t) /\ disks' = disks
      BY <1>1, <2>1, DeletedFacts DEF TypeOK
    <2>2. CASE t.part = "disk" /\ t.retain /\ UNCHANGED <<objs, disks>>
      BY <2>2 DEF TypeOK
    <2>3. CASE t.part = "disk" /\ ~t.retain /\ disks' = Dropped(t) /\ objs' = objs
      <3>1. t.disk # NoDisk
        BY <1>2, <2>3 DEF Harmless, Seen
      <3>2. disks' \in [Disks -> Volumes]
        BY <1>1, <2>3, <3>1, DroppedFacts
      <3>3. QED
        BY <2>3, <3>2 DEF TypeOK
    <2>4. QED
      BY <1>1, <2>1, <2>2, <2>3 DEF Acted
  <1>4. execs' \subseteq Executors
    BY <1>1 DEF TypeOK
  <1>5. QED
    BY <1>3, <1>4 DEF ExecAct, TypeOK, database, signals, bounds

LEMMA EndTyped ==
    ASSUME TypeOK, RowAgrees, ExecsSound, NEW e \in execs, ExecEnd(e)
    PROVE  TypeOK' /\ execs' = execs \ {e} /\ (UNCHANGED <<row, pvcs, works>> \/ Ended(e))
  <1>1. UNCHANGED <<row, pvcs, works>> \/ Ended(e)
    BY ExecEndFacts DEF database
  <1>2. execs' = execs \ {e}
    BY DEF ExecEnd
  <1>3. row' \in Rows /\ pvcs' \in [Disks -> Records] /\ works' \subseteq Works
    <2>1. CASE UNCHANGED <<row, pvcs, works>>
      BY <2>1 DEF TypeOK
    <2>2. CASE Ended(e)
      BY <2>2 DEF Ended, EndedIdle, EndedReap, EndedService, EndedOrphan, Stopped, RecordIs, Kept, TypeOK
    <2>3. QED
      BY <1>1, <2>1, <2>2
  <1>4. TypeOK'
    BY <1>2, <1>3 DEF ExecEnd, TypeOK, cluster, signals, bounds
  <1>5. QED
    BY <1>1, <1>2, <1>4

LEMMA BreakTyped ==
    ASSUME TypeOK, NEW e \in execs, ExecDies(e) \/ LockLost(e)
    PROVE  TypeOK' /\ \A x \in execs' : x \in execs \/ Onward(x, e)
  <1>1. faults' \in Nat
    BY DEF ExecDies, LockLost, Fault, TypeOK
  <1>2. e \in Executors
    BY DEF TypeOK
  <1>3. PICK x \in Executors : /\ x = [e EXCEPT !.locked = FALSE]
                               /\ x.work = e.work /\ x.left = e.left /\ x.pending = e.pending /\ x.strike = e.strike
    BY <1>2, UnlockedExec
  <1>4. Onward(x, e)
    BY <1>3 DEF Onward
  <1>5. execs' \subseteq execs \cup {x}
    BY <1>3 DEF ExecDies, LockLost
  <1>6. UNCHANGED <<database, cluster, builders, rescue, signals, recorded, drawn, resumes>>
    BY DEF ExecDies, LockLost
  <1>7. TypeOK'
    BY <1>1, <1>5, <1>6 DEF TypeOK, database, cluster, signals
  <1>8. QED
    BY <1>4, <1>5, <1>7

\* Recovery looks at its targets.
Rescues == [at : Nat, strike : SUBSET Targets, pending : SUBSET Targets]
LEMMA RescueTyped ==
    ASSUME TypeOK, NEW strike \in SUBSET Targets, NEW pending \in SUBSET Targets
    PROVE  LET r == [rescue EXCEPT !.strike = strike, !.pending = pending]
           IN  r \in Rescues /\ r.strike = strike /\ r.pending = pending /\ r.at = rescue.at
  <1> DEFINE r == [rescue EXCEPT !.strike = strike, !.pending = pending]
  <1>1. PICK m : m = [rescue EXCEPT !.strike = strike]
    OBVIOUS
  <1>2. m = [at |-> rescue.at, strike |-> strike, pending |-> rescue.pending]
    BY <1>1 DEF TypeOK
  <1>3. r = [m EXCEPT !.pending = pending]
    BY <1>1
  <1>4. r = [at |-> rescue.at, strike |-> strike, pending |-> pending]
    BY <1>2, <1>3
  <1>5. rescue.at \in Nat
    BY DEF TypeOK
  <1> HIDE DEF r
  <1>6. QED
    BY <1>4, <1>5 DEF Rescues, r

LEMMA NoRescueTyped == NoRescue \in Rescues /\ NoRescue.strike = {} /\ NoRescue.pending = {} /\ NoRescue.at = 0
  BY DEF NoRescue, Rescues

\* The works whose targets are looked at, or noted as cleaned.
Revised(v, Op(_)) == \E w \in Recoveries : SameButTargets(v, w) /\ v.targets = {Op(u) : u \in w.targets}
Marked(t, u) == IF SameTarget(t, u) THEN [u EXCEPT !.cleaned = TRUE] ELSE u
LEMMA MarkedTyped ==
    ASSUME NEW t \in Targets, NEW u \in Targets
    PROVE  /\ Marked(t, u) \in Targets /\ Marked(t, u).part = u.part /\ Marked(t, u).gen = u.gen
           /\ Marked(t, u).disk = u.disk /\ Marked(t, u).uid = u.uid /\ Marked(t, u).retain = u.retain
           /\ Marked(t, u).cleaned => u.cleaned \/ SameTarget(t, u)
  <1>1. PICK yes \in BOOLEAN : yes = TRUE
    OBVIOUS
  <1>2. PICK v : v = [u EXCEPT !.cleaned = yes]
    OBVIOUS
  <1>3. v = [part |-> u.part, gen |-> u.gen, disk |-> u.disk, uid |-> u.uid, retain |-> u.retain,
             cleaned |-> yes, captured |-> u.captured]
    BY <1>2 DEF Targets
  <1>4. Marked(t, u) = IF SameTarget(t, u) THEN v ELSE u
    BY <1>1, <1>2 DEF Marked
  <1> HIDE <1>1
  <1>5. v \in Targets
    BY <1>3 DEF Targets
  <1>6. QED
    BY <1>3, <1>4, <1>5

LEMMA RescueStartTyped ==
    ASSUME TypeOK, RescueStart
    PROVE  /\ TypeOK' /\ rescue'.strike = {} /\ rescue'.pending = {}
           /\ \A v \in works' : v \in works \/ Revised(v, Examined)
  <1>1. PICK at \in Nat : at = row.at
    BY DEF TypeOK, Rows
  <1>2. PICK r : r = [NoRescue EXCEPT !.at = at]
    OBVIOUS
  <1>3. r = [at |-> at, strike |-> {}, pending |-> {}]
    BY <1>2 DEF NoRescue
  <1>4. rescue' = r
    BY <1>1, <1>2 DEF RescueStart
  <1>5. r \in Rescues /\ r.strike = {} /\ r.pending = {}
    BY <1>3 DEF Rescues
  <1>6. ASSUME NEW v \in works'
        PROVE  v \in Works /\ (v \in works \/ Revised(v, Examined))
    <2>1. CASE v \in works
      BY <2>1 DEF TypeOK
    <2>2. CASE v \notin works
      <3>1. PICK w \in Recoveries : v = [w EXCEPT !.targets = {Examined(t) : t \in @}]
        BY <2>2 DEF RescueStart
      <3>2. w \in Works /\ w.targets \in SUBSET Targets
        BY DEF Recoveries, TypeOK, Works
      <3>3. PICK targets \in SUBSET Targets : targets = {Examined(t) : t \in w.targets}
        BY <3>2, ExaminedTyped
      <3>4. v = [w EXCEPT !.targets = targets]
        BY <3>1, <3>3
      <3>5. v \in Works /\ SameButTargets(v, w) /\ v.targets = targets
        BY <3>2, <3>4, TargetedTyped DEF SameButTargets
      <3>6. Revised(v, Examined)
        BY <3>3, <3>5 DEF Revised
      <3>7. QED
        BY <3>5, <3>6
    <2>3. QED
      BY <2>1, <2>2
  <1>7. works' \subseteq Works
    BY <1>6
  <1>8. TypeOK'
    BY <1>4, <1>5, <1>7 DEF RescueStart, Rescues, TypeOK, cluster, signals, bounds
  <1>9. QED
    BY <1>4, <1>5, <1>6, <1>8

LEMMA RescueCheckTyped ==
    ASSUME TypeOK, RescueCheck
    PROVE  TypeOK' /\ rescue'.strike \cup rescue'.pending \subseteq Uncleaned \cup rescue.pending
  <1>1. Uncleaned \subseteq Targets
    BY DEF Uncleaned, Recoveries, TypeOK, Works
  <1>2. /\ rescue' \in Rescues
        /\ rescue'.strike \cup rescue'.pending \subseteq Uncleaned \cup rescue.pending
    <2>1. CASE rescue' = NoRescue
      BY <2>1, NoRescueTyped
    <2>2. CASE \E t \in Uncleaned : rescue' = [rescue EXCEPT !.strike = {t}]
      <3>1. PICK t \in Uncleaned : rescue' = [rescue EXCEPT !.strike = {t}]
        BY <2>2
      <3>2. rescue' = [at |-> rescue.at, strike |-> {t}, pending |-> rescue.pending]
        BY <3>1 DEF TypeOK
      <3>3. {t} \in SUBSET Targets /\ rescue.pending \in SUBSET Targets /\ rescue.at \in Nat
        BY <1>1, <3>1 DEF TypeOK
      <3>4. QED
        BY <3>1, <3>2, <3>3 DEF Rescues
    <2>3. QED
      BY <2>1, <2>2 DEF RescueCheck
  <1>3. TypeOK'
    BY <1>2 DEF RescueCheck, Rescues, TypeOK, database, cluster, signals, bounds
  <1>4. QED
    BY <1>2, <1>3

Struck(t) ==
    \/ IsCompute(t) /\ objs' = Deleted(t) /\ disks' = disks
    \/ ~IsCompute(t) /\ disks' = Dropped(t) /\ objs' = objs
LEMMA RescueActFacts ==
    ASSUME TypeOK, RescueAct
    PROVE  \E t \in rescue.strike :
            /\ t \in Targets /\ Struck(t)
            /\ rescue' \in Rescues /\ rescue'.strike \cup rescue'.pending \subseteq rescue.strike \cup rescue.pending
            /\ \/ works' = works
               \/ works' = (works \ Recoveries) \cup Cleaned(t) /\ (~IsCompute(t) => Reclaimed(t.disk))
  <1>1. PICK t \in rescue.strike :
        \/ /\ IsCompute(t)
           /\ objs' = Deleted(t)
           /\ IF Remains(t) THEN /\ rescue' = [rescue EXCEPT !.strike = {}, !.pending = @ \cup {t}]
                                 /\ works' = works
                            ELSE Saved(t)
           /\ disks' = disks
        \/ /\ ~IsCompute(t)
           /\ disks' = Dropped(t)
           /\ IF Released(t) /\ Reclaimed(t.disk) THEN Saved(t) ELSE rescue' = NoRescue /\ works' = works
           /\ objs' = objs
    BY DEF RescueAct, Dropped
  <1>2. t \in Targets /\ rescue.strike \in SUBSET Targets /\ rescue.pending \in SUBSET Targets
    BY DEF TypeOK
  <1>3. Struck(t)
    BY <1>1 DEF Struck
  <1>4. PICK pending \in SUBSET Targets, none \in SUBSET Targets : pending = rescue.pending \cup {t} /\ none = {}
    BY <1>2
  <1>5. PICK held : held = [rescue EXCEPT !.strike = none, !.pending = pending]
    OBVIOUS
  <1>6. held = [rescue EXCEPT !.strike = {}, !.pending = @ \cup {t}]
    BY <1>4, <1>5
  <1>7. held \in Rescues /\ held.strike = none /\ held.pending = pending
    BY <1>5, RescueTyped
  <1>8. PICK freed : freed = [rescue EXCEPT !.strike = none]
    OBVIOUS
  <1>9. freed = [at |-> rescue.at, strike |-> none, pending |-> rescue.pending]
    BY <1>8 DEF TypeOK
  <1>10. freed \in Rescues /\ freed.strike = {} /\ freed.pending = rescue.pending
    BY <1>4, <1>9 DEF Rescues, TypeOK
  <1>11. rescue' \in {held, freed, NoRescue}
    BY <1>1, <1>4, <1>6, <1>8 DEF Saved
  <1>12. rescue' \in Rescues /\ rescue'.strike \cup rescue'.pending \subseteq rescue.strike \cup rescue.pending
    BY <1>4, <1>10, <1>11, <1>7, NoRescueTyped
  <1>13. \/ works' = works
         \/ works' = (works \ Recoveries) \cup Cleaned(t) /\ (~IsCompute(t) => Reclaimed(t.disk))
    BY <1>1 DEF Saved
  <1>14. QED
    BY <1>2, <1>3, <1>12, <1>13

LEMMA CleanedWork ==
    ASSUME TypeOK, NEW t \in Targets, NEW v \in Cleaned(t)
    PROVE  \E w \in Recoveries :
            v \in Works /\ SameButTargets(v, w) /\ v.targets = {Marked(t, u) : u \in w.targets}
  <1>1. PICK w \in Recoveries : v = [w EXCEPT !.targets = {Marked(t, u) : u \in @}]
    BY DEF Cleaned, Marked
  <1>2. w \in Works /\ w.targets \in SUBSET Targets
    BY DEF Recoveries, TypeOK, Works
  <1>3. \A u \in w.targets : Marked(t, u) \in Targets
    BY <1>2, MarkedTyped
  <1>4. PICK targets \in SUBSET Targets : targets = {Marked(t, u) : u \in w.targets}
    BY <1>3
  <1>5. v = [w EXCEPT !.targets = targets]
    BY <1>1, <1>4
  <1>6. v \in Works /\ SameButTargets(v, w) /\ v.targets = targets
    BY <1>2, <1>5, TargetedTyped DEF SameButTargets
  <1>7. QED
    BY <1>4, <1>6

LEMMA RescueActTyped ==
    ASSUME TypeOK, RescueSound, RescueAct
    PROVE  TypeOK'
  <1>1. PICK t \in rescue.strike :
            /\ t \in Targets /\ Struck(t)
            /\ rescue' \in Rescues
            /\ works' = works \/ works' = (works \ Recoveries) \cup Cleaned(t)
    BY RescueActFacts
  <1>2. Past(t)
    BY DEF RescueSound
  <1>3. ~IsCompute(t) => t.part = "disk" /\ t.disk # NoDisk
    BY <1>1, <1>2 DEF IsCompute, Past, Targets, Parts, Compute
  <1>4. objs' \in [Compute \X Gens -> Objects] /\ disks' \in [Disks -> Volumes]
    <2>1. CASE IsCompute(t) /\ objs' = Deleted(t) /\ disks' = disks
      BY <1>1, <2>1, DeletedFacts DEF TypeOK
    <2>2. CASE ~IsCompute(t) /\ disks' = Dropped(t) /\ objs' = objs
      <3>1. disks' \in [Disks -> Volumes]
        BY <1>1, <1>3, <2>2, DroppedFacts
      <3>2. QED
        BY <2>2, <3>1 DEF TypeOK
    <2>3. QED
      BY <1>1, <2>1, <2>2 DEF Struck
  <1>5. works' \subseteq Works
    BY <1>1, CleanedWork DEF TypeOK
  <1>6. QED
    BY <1>1, <1>4, <1>5 DEF RescueAct, Rescues, TypeOK, signals, bounds

LEMMA RescueFinishTyped ==
    ASSUME TypeOK, RowAgrees, WithinBounds, RescueFinish
    PROVE  TypeOK' /\ Rescued
  <1>1. Rescued
    BY RescueFacts
  <1>2. builders' \subseteq Builders /\ works' \subseteq Works /\ drawn' \in Nat /\ rescue' \in Rescues
    BY <1>1, NoRescueTyped DEF Rescued, RescueFinish, TypeOK
  <1>3. QED
    BY <1>1, <1>2 DEF RescueFinish, Rescued, Rescues, TypeOK, cluster, signals

\* Recovery fails.
GivenUp ==
    /\ row.status = "recovering"
    /\ row' \in Rows /\ RowIs("failed", row.gen, row.at + 1, row.disk, row.bound, row.uid)
LEMMA RescueEndsTyped ==
    ASSUME TypeOK, RescueFails \/ RescueDies
    PROVE  TypeOK' /\ rescue' = NoRescue /\ (row' = row \/ GivenUp)
  <1>1. row' = row \/ (Standing /\ row' = Moved(row, "failed"))
    BY DEF RescueFails, RescueDies, database
  <1>2. row' = row \/ GivenUp
    BY <1>1, MovedTyped DEF GivenUp, Standing, RowIs, TypeOK, Statuses
  <1>3. rescue' = NoRescue /\ rescue' \in Rescues
    BY NoRescueTyped DEF RescueFails, RescueDies
  <1>4. row' \in Rows /\ faults' \in Nat
    BY <1>2 DEF GivenUp, RescueFails, RescueDies, RescueFault, TypeOK
  <1>5. UNCHANGED <<pvcs, works, cluster, builders, execs, signals, recorded, drawn, resumes>>
    BY DEF RescueFails, RescueDies, database
  <1>6. TypeOK'
    BY <1>3, <1>4, <1>5 DEF Rescues, TypeOK, cluster, signals
  <1>7. QED
    BY <1>2, <1>3, <1>6

LEMMA TypeStep ==
    ASSUME IInv, [Next]_vars
    PROVE  TypeOK'
  <1> USE DEF IInv
  <1>1. CASE Provision
    BY <1>1, RequestTyped
  <1>2. CASE MarkReady \/ Idle \/ Reap
    BY <1>2, ReadyTyped, IdleTyped, ReapTyped
  <1>3. CASE Recover \/ AdmitSighting
    BY <1>3, RecoverTyped, AdmitTyped
  <1>4. CASE \E b \in builders : BuildCreate(b) \/ BuildRecord(b) \/ BuildFails(b) \/ BuilderDies(b)
    BY <1>4, BuildTyped
  <1>5. CASE \/ \E call \in landing : Land(call)
             \/ \E c \in Compute, g \in Gens : ComputeGone(c, g)
             \/ \E d \in Disks : DiskGone(d)
    BY <1>5, ClusterTyped
  <1>6. CASE Condemn \/ Suspect \/ \E w \in works : PublishShutdown(w)
    BY <1>6, SignalTyped
  <1>7. CASE \E g \in Gens : Sight(g)
    BY <1>7, SightTyped
  <1>8. CASE \E w \in works : ExecStart(w)
    BY <1>8, StartTyped
  <1>9. CASE \E t \in shutdowns : ShutdownAck(t)
    BY <1>9, AckTyped
  <1>10. CASE \E e \in execs : ExecCheck(e) \/ ExecAct(e) \/ ExecEnd(e) \/ ExecDies(e) \/ LockLost(e)
    BY <1>10, CheckTyped, ActTyped, EndTyped, BreakTyped
  <1>11. CASE RescueStart \/ RescueCheck \/ RescueAct \/ RescueFinish \/ RescueFails \/ RescueDies
    BY <1>11, RescueStartTyped, RescueCheckTyped, RescueActTyped, RescueFinishTyped, RescueEndsTyped
  <1>12. CASE UNCHANGED vars
    BY <1>12 DEF TypeOK, vars, database, cluster, workers, signals, bounds
  <1>13. QED
    BY <1>1, <1>2, <1>3, <1>4, <1>5, <1>6, <1>7, <1>8, <1>9, <1>10, <1>11, <1>12, NextCases

-----------------------------------------------------------------------------
(* What never goes back, whatever the step. *)

Outside == {"none", "stopped", "recovering"}
RowAdvances ==
    /\ row.gen <= row'.gen /\ row.at <= row'.at /\ drawn <= drawn'
    /\ row'.disk \in {row.disk, NoDisk} \/ (row'.disk = drawn + 1 /\ drawn' = drawn + 1)
    /\ (row'.disk = row.disk /\ row.disk # NoDisk /\ PvcState = "destroying") => PvcState' = "destroying"
    /\ row' = row \/ row.status # "shutting_down" \/ row.at < row'.at
    /\ row'.at = row.at => row'.status = row.status /\ row'.gen = row.gen
    /\ row'.status \in {"creating", "ready"} =>
        row'.gen = row.gen /\ row.status \in Outside \cup {"creating", "ready"}
ClusterAdvances ==
    /\ \A c \in Compute, g \in Gens :
        /\ objs[<<c, g>>].uid <= objs'[<<c, g>>].uid
        /\ objs[<<c, g>>].phase = "none" =>
            objs'[<<c, g>>].phase = "none" \/ objs[<<c, g>>].uid < objs'[<<c, g>>].uid
    /\ row.status = "shutting_down" =>
        \A c \in Compute : objs[<<c, row.gen>>].phase = "none" => objs'[<<c, row.gen>>].phase = "none"
    /\ \A d \in Disks : disks[d].phase = "gone" => disks'[d].phase = "gone"
    /\ \A d \in Disks : disks'[d].phase = "absent" => disks[d].phase = "absent"
Advances == RowAdvances /\ ClusterAdvances /\ (row' = row \/ objs' = objs)

LEMMA RowFacts ==
    ASSUME TypeOK
    PROVE  /\ row.gen \in Nat /\ row.at \in Nat /\ drawn \in Nat /\ row.gen \in Gens
           /\ row.disk \in Nat /\ NoDisk \in Nat /\ (row.disk # NoDisk <=> row.disk \in Disks)
           /\ NoDisk = 0 /\ NoUid = 0
           /\ \A c \in Compute : row.uid[c] \in Nat
  <1>1. row \in Rows /\ drawn \in Nat
    BY DEF TypeOK
  <1>2. row.gen \in Gens /\ row.at \in Nat /\ row.disk \in MaybeDisk /\ row.uid \in [Compute -> Nat]
    BY <1>1 DEF Rows
  <1>3. row.gen \in Nat
    BY ONLY <1>2, Numbers
  <1>4. row.disk \in Nat /\ NoDisk = 0 /\ NoUid = 0 /\ (row.disk # NoDisk <=> row.disk \in Disks)
    BY ONLY <1>2, Numbers DEF MaybeDisk, NoDisk, NoUid
  <1>5. \A c \in Compute : row.uid[c] \in Nat
    BY ONLY <1>2
  <1>6. QED
    BY ONLY <1>1, <1>2, <1>3, <1>4, <1>5

LEMMA RowStays ==
    ASSUME TypeOK, row' = row, drawn' = drawn, pvcs' = pvcs \/ PvcState # "destroying"
    PROVE  RowAdvances
  <1>1. pvcs' = pvcs => PvcState' = PvcState
    BY DEF PvcState
  <1>2. row.gen <= row.gen /\ row.at <= row.at /\ drawn <= drawn
    BY RowFacts
  <1>3. QED
    BY <1>1, <1>2 DEF RowAdvances

\* The row moves on with its disk.
LEMMA RowMoves ==
    ASSUME TypeOK, NEW status, NEW gen \in Nat, NEW disk, NEW bound, NEW uid, NEW at \in Nat,
           RowIs(status, gen, at, disk, bound, uid), row.gen <= gen, row.at < at,
           \/ drawn' = drawn /\ disk \in {row.disk, NoDisk}
           \/ drawn' = drawn + 1 /\ disk = drawn + 1,
           PvcState # "destroying" \/ disk # row.disk,
           status \in {"creating", "ready"} => gen = row.gen /\ row.status \in Outside \cup {"creating", "ready"}
    PROVE  RowAdvances
  <1>1. /\ row'.status = status /\ row'.gen = gen /\ row'.at = at /\ row'.disk = disk
    BY DEF RowIs
  <1>2. drawn <= drawn' /\ row.at <= at /\ at # row.at /\ row.at \in Nat
    BY RowFacts
  <1>3. QED
    BY <1>1, <1>2 DEF RowAdvances

LEMMA ClusterStays ==
    ASSUME TypeOK, UNCHANGED <<objs, disks>> PROVE ClusterAdvances
  <1>1. ASSUME NEW c \in Compute, NEW g \in Gens
        PROVE  objs[<<c, g>>].uid <= objs[<<c, g>>].uid
    <2>1. PICK uid \in Nat : uid = objs[<<c, g>>].uid
      BY ObjectTyped
    <2>2. QED
      BY <2>1
  <1>2. QED
    BY <1>1 DEF ClusterAdvances

LEMMA RowStep ==
    ASSUME IInv, [Next]_vars
    PROVE  RowAdvances
  <1> USE DEF IInv
  <1>1. CASE Provision
    <2>1. Provisioned
      BY <1>1, ProvisionFacts
    <2>2. RowIs("creating", row.gen, row.at + 1, Assigned, (row.disk # NoDisk /\ row.bound), NoUids)
      BY <2>1 DEF Provisioned
    <2>3. row.gen <= row.gen /\ row.at < row.at + 1 /\ row.at + 1 \in Nat /\ row.gen \in Nat
      BY RowFacts
    <2>4. \/ drawn' = drawn /\ Assigned \in {row.disk, NoDisk}
          \/ drawn' = drawn + 1 /\ Assigned = drawn + 1
      BY <1>1 DEF Provision, Assigned
    <2>5. PvcState # "destroying"
      BY <1>1 DEF Provision, Claimable, PvcState
    <2>6. row.status \in Outside
      BY <1>1 DEF Provision, Outside
    <2>7. QED
      BY <2>2, <2>3, <2>4, <2>5, <2>6, RowMoves
  <1>2. ASSUME NEW status \in Statuses \ {"creating"}, NEW state, MovedTo(status, state), drawn' = drawn,
               PvcState # "destroying", status = "ready" => row.status = "creating"
        PROVE  RowAdvances
    <2>1. RowIs(status, row.gen, row.at + 1, row.disk, row.bound, row.uid)
      BY <1>2 DEF MovedTo
    <2>2. row.gen <= row.gen /\ row.at < row.at + 1 /\ row.at + 1 \in Nat /\ row.gen \in Nat
      BY RowFacts
    <2>3. QED
      BY <1>2, <2>1, <2>2, RowMoves
  <1>3. CASE MarkReady
    BY <1>2, <1>3, ReadyTyped DEF MarkReady, Statuses, bounds
  <1>4. CASE Idle
    BY <1>2, <1>4, IdleTyped DEF Idle, Statuses, bounds
  <1>5. CASE Reap
    BY <1>5, RowStays DEF Reap, bounds
  <1>6. CASE Recover
    <2>1. RowIs("recovering", row.gen + 1, row.at + 1, NoDisk, FALSE, NoUids)
      BY <1>6, RecoverFacts DEF Condemned
    <2>2. row.gen <= row.gen + 1 /\ row.at < row.at + 1 /\ row.at + 1 \in Nat /\ row.gen + 1 \in Nat
      BY RowFacts
    <2>3. drawn' = drawn
      BY <1>6 DEF Recover, bounds
    <2>4. PvcState # "destroying" \/ NoDisk # row.disk
      BY DEF PvcState
    <2>5. QED
      BY <2>1, <2>2, <2>3, <2>4, RowMoves
  <1>7. CASE AdmitSighting
    <2>1. drawn' = drawn /\ pvcs' = pvcs
      BY <1>7 DEF AdmitSighting, bounds
    <2>2. CASE Serviced
      <3>1. RowIs("service", row.gen, row.at + 1, row.disk, row.bound, row.uid) /\ PvcState # "destroying"
        BY <2>2 DEF Serviced
      <3>2. row.gen <= row.gen /\ row.at < row.at + 1 /\ row.at + 1 \in Nat /\ row.gen \in Nat
        BY RowFacts
      <3>3. QED
        BY <2>1, <3>1, <3>2, RowMoves
    <2>3. CASE row' = row
      BY <2>1, <2>3, RowStays
    <2>4. QED
      BY <1>7, <2>2, <2>3, AdmitTyped DEF Orphaned
  <1>8. ASSUME NEW b \in builders, BuildCreate(b) \/ BuildRecord(b) \/ BuildFails(b) \/ BuilderDies(b)
        PROVE  RowAdvances
    <2>1. drawn' = drawn
      BY <1>8 DEF BuildCreate, BuildRecord, BuildFails, BuilderDies, bounds
    <2>2. CASE row' = row /\ pvcs' = pvcs
      BY <2>1, <2>2, RowStays
    <2>3. CASE BuildRecord(b) /\ Holds(b)
      <3>1. Learned(b)
        BY <2>3, LearnedFacts
      <3>2. row'.status = row.status /\ row'.gen = row.gen /\ row'.at = row.at /\ row'.disk = row.disk
        BY <3>1 DEF Learned
      <3>3. row.status = "creating"
        BY <2>3 DEF Holds
      <3>4. PvcState # "destroying"
        BY <3>3 DEF RowAgrees, DiskStates, PvcState
      <3>5. row.gen <= row.gen /\ row.at <= row.at /\ drawn <= drawn
        BY RowFacts
      <3>6. QED
        BY <2>1, <3>2, <3>3, <3>4, <3>5 DEF RowAdvances
    <2>4. CASE BuildFails(b) /\ Holds(b)
      <3>1. row.disk # NoDisk /\ row.disk = b.disk
        BY <2>4 DEF BuildersSound, Building, Holds, RowAgrees
      <3>2. MovedTo("failed", "failed")
        BY <2>4, <3>1, MovedToFacts DEF BuildFails, Statuses, PvcStates
      <3>3. PvcState # "destroying"
        BY <2>4 DEF RowAgrees, DiskStates, PvcState, Holds
      <3>4. QED
        BY <1>2, <2>1, <3>2, <3>3 DEF Statuses
    <2>5. QED
      BY <1>8, <2>2, <2>3, <2>4 DEF BuildCreate, BuildRecord, BuildFails, BuilderDies, database
  <1>9. ASSUME NEW e \in execs, ExecEnd(e)
        PROVE  RowAdvances
    <2>1. drawn' = drawn
      BY <1>9 DEF ExecEnd, bounds
    <2>2. CASE row' = row /\ pvcs' = pvcs
      BY <2>1, <2>2, RowStays
    <2>3. CASE Stopped /\ row.status \in {"shutting_down", "service"}
      <3>1. RowIs("stopped", row.gen, row.at + 1, row.disk, row.bound, NoUids)
        BY <2>3 DEF Stopped
      <3>2. PvcState # "destroying"
        BY <2>3 DEF RowAgrees, DiskStates, PvcState
      <3>3. row.gen <= row.gen /\ row.at < row.at + 1 /\ row.at + 1 \in Nat /\ row.gen \in Nat
        BY RowFacts
      <3>4. QED
        BY <2>1, <3>1, <3>2, <3>3, RowMoves
    <2>4. CASE EndedReap(e)
      <3>1. /\ row'.status = row.status /\ row'.gen = row.gen /\ row'.at = row.at /\ row'.disk = NoDisk
            /\ row.status = "stopped" /\ row.disk \in Disks
        BY <2>4 DEF EndedReap, RowIs
      <3>2. row.gen <= row.gen /\ row.at <= row.at /\ drawn <= drawn /\ row.disk # NoDisk
        BY <3>1, RowFacts
      <3>3. QED
        BY <2>1, <3>1, <3>2 DEF RowAdvances
    <2>5. QED
      BY <1>9, <2>2, <2>3, <2>4, EndTyped DEF Ended, EndedIdle, EndedService, EndedOrphan
  <1>10. CASE RescueFinish
    <2>1. RowIs("creating", row.gen, row.at + 2, drawn + 1, FALSE, NoUids)
      BY <1>10, RescueFacts DEF Rescued
    <2>2. row.gen <= row.gen /\ row.at < row.at + 2 /\ row.at + 2 \in Nat /\ row.gen \in Nat
      BY RowFacts
    <2>3. drawn' = drawn + 1 /\ row.status = "recovering"
      BY <1>10 DEF RescueFinish, Standing
    <2>4. PvcState # "destroying"
      BY <2>3 DEF RowAgrees, DiskStates, PvcState
    <2>5. QED
      BY <2>1, <2>2, <2>3, <2>4, RowMoves DEF Outside
  <1>11. CASE RescueFails \/ RescueDies
    <2>1. drawn' = drawn /\ pvcs' = pvcs
      BY <1>11 DEF RescueFails, RescueDies, database
    <2>2. CASE row' = row
      BY <2>1, <2>2, RowStays
    <2>3. CASE GivenUp
      <3>1. RowIs("failed", row.gen, row.at + 1, row.disk, row.bound, row.uid) /\ row.status = "recovering"
        BY <2>3 DEF GivenUp
      <3>2. PvcState # "destroying"
        BY <3>1 DEF RowAgrees, DiskStates, PvcState
      <3>3. row.gen <= row.gen /\ row.at < row.at + 1 /\ row.at + 1 \in Nat /\ row.gen \in Nat
        BY RowFacts
      <3>4. QED
        BY <2>1, <3>1, <3>2, <3>3, RowMoves
    <2>4. QED
      BY <1>11, <2>2, <2>3, RescueEndsTyped
  <1>12. CASE \/ \E call \in landing : Land(call)
              \/ \E c \in Compute, g \in Gens : ComputeGone(c, g)
              \/ \E d \in Disks : DiskGone(d)
              \/ \E e \in execs : ExecAct(e)
    <2>1. UNCHANGED <<row, pvcs, drawn>>
      BY <1>12 DEF Land, ComputeGone, DiskGone, ExecAct, database, bounds
    <2>2. QED
      BY <2>1, RowStays
  <1>13. CASE \/ Condemn \/ Suspect \/ \E g \in Gens : Sight(g)
              \/ \E w \in works : PublishShutdown(w) \/ ExecStart(w)
              \/ \E t \in shutdowns : ShutdownAck(t)
    <2>1. UNCHANGED <<row, pvcs, drawn>>
      BY <1>13 DEF Condemn, Suspect, Sight, PublishShutdown, ExecStart, ShutdownAck, database, bounds
    <2>2. QED
      BY <2>1, RowStays
  <1>14. CASE \/ \E e \in execs : ExecCheck(e) \/ ExecDies(e) \/ LockLost(e)
              \/ RescueStart \/ RescueCheck \/ RescueAct \/ UNCHANGED vars
    <2>1. UNCHANGED <<row, pvcs, drawn>>
      BY <1>14 DEF ExecCheck, ExecDies, LockLost, RescueStart, RescueCheck, RescueAct, vars, database, bounds
    <2>2. QED
      BY <2>1, RowStays
  <1>15. QED
    BY <1>1, <1>3, <1>4, <1>5, <1>6, <1>7, <1>8, <1>9, <1>10, <1>11, <1>12, <1>13, <1>14, NextCases

LEMMA DeleteAdvances ==
    ASSUME TypeOK, NEW t \in Targets, IsCompute(t), objs' = Deleted(t), disks' = disks
    PROVE  ClusterAdvances
  <1>1. ASSUME NEW c \in Compute, NEW g \in Gens
        PROVE  /\ objs[<<c, g>>].uid <= objs'[<<c, g>>].uid
               /\ objs[<<c, g>>].phase = "none" => objs'[<<c, g>>].phase = "none"
    <2>1. PICK uid \in Nat : uid = objs[<<c, g>>].uid
      BY ObjectTyped
    <2>2. /\ objs'[<<c, g>>].uid = objs[<<c, g>>].uid
          /\ objs'[<<c, g>>].phase = objs[<<c, g>>].phase \/ objs[<<c, g>>].phase = "up"
      BY DeletedFacts
    <2>3. uid <= uid
      BY <2>1
    <2>4. QED
      BY ONLY <2>1, <2>2, <2>3
  <1>2. row.gen \in Gens
    BY RowFacts
  <1>3. QED
    BY <1>1, <1>2 DEF ClusterAdvances

LEMMA DropAdvances ==
    ASSUME TypeOK, NEW t \in Targets, t.disk # NoDisk, disks' = Dropped(t), objs' = objs
    PROVE  ClusterAdvances
  <1>1. /\ t.disk \in Disks /\ \A d \in Disks \ {t.disk} : disks'[d] = disks[d]
        /\ \/ disks'[t.disk].phase = disks[t.disk].phase
           \/ disks[t.disk].phase = "up" /\ disks'[t.disk].phase = "deleting"
    BY DroppedFacts
  <1>2. /\ \A d \in Disks : disks[d].phase = "gone" => disks'[d].phase = "gone"
        /\ \A d \in Disks : disks'[d].phase = "absent" => disks[d].phase = "absent"
    BY <1>1
  <1>3. ASSUME NEW c \in Compute, NEW g \in Gens
        PROVE  objs[<<c, g>>].uid <= objs'[<<c, g>>].uid
    BY ObjectTyped
  <1>4. QED
    BY <1>2, <1>3 DEF ClusterAdvances

LEMMA LandAdvances ==
    ASSUME IInv, NEW call \in landing, Land(call)
    PROVE  ClusterAdvances
  <1>1. TypeOK /\ CallSound(call)
    BY DEF IInv, LandingSound
  <1>2. call.disk \in Disks /\ call.gen \in Gens
    BY <1>1 DEF TypeOK, Calls
  <1>3. CASE call.part = "disk"
    <2>1. /\ objs' = objs /\ disks'[call.disk].phase = "up" /\ disks[call.disk].phase = "absent"
          /\ \A d \in Disks \ {call.disk} : disks'[d] = disks[d]
      BY <1>1, <1>3, LandFacts DEF CallSound
    <2>2. /\ \A d \in Disks : disks[d].phase = "gone" => disks'[d].phase = "gone"
          /\ \A d \in Disks : disks'[d].phase = "absent" => disks[d].phase = "absent"
      BY <2>1
    <2>3. ASSUME NEW c \in Compute, NEW g \in Gens
          PROVE  objs[<<c, g>>].uid <= objs'[<<c, g>>].uid
      BY <1>1, <2>1, ObjectTyped
    <2>4. QED
      BY <2>1, <2>2, <2>3 DEF ClusterAdvances
  <1>4. CASE call.part # "disk"
    <2>1. /\ disks' = disks /\ call.part \in Compute
          /\ objs[<<call.part, call.gen>>].phase # "none" => objs' = objs
          /\ objs[<<call.part, call.gen>>].phase = "none" =>
                objs'[<<call.part, call.gen>>].uid = objs[<<call.part, call.gen>>].uid + 1
          /\ \A c \in Compute, g \in Gens : <<c, g>> # <<call.part, call.gen>> => objs'[<<c, g>>] = objs[<<c, g>>]
      BY <1>1, <1>4, LandFacts
    <2>2. ASSUME NEW c \in Compute, NEW g \in Gens
          PROVE  /\ objs[<<c, g>>].uid <= objs'[<<c, g>>].uid
                 /\ objs[<<c, g>>].phase = "none" =>
                        objs'[<<c, g>>].phase = "none" \/ objs[<<c, g>>].uid < objs'[<<c, g>>].uid
                 /\ g # call.gen => objs'[<<c, g>>] = objs[<<c, g>>]
      <3>1. PICK uid \in Nat : uid = objs[<<c, g>>].uid
        BY <1>1, ObjectTyped
      <3>2. CASE <<c, g>> = <<call.part, call.gen>>
        <4>1. objs' = objs \/ (objs'[<<c, g>>].uid = uid + 1 /\ objs[<<c, g>>].phase = "none")
          BY <2>1, <3>1, <3>2
        <4>2. uid <= uid /\ uid < uid + 1 /\ uid <= uid + 1 /\ g = call.gen
          BY <3>2
        <4>3. QED
          BY ONLY <3>1, <4>1, <4>2
      <3>3. CASE <<c, g>> # <<call.part, call.gen>>
        <4>1. objs'[<<c, g>>] = objs[<<c, g>>] /\ uid <= uid
          BY <2>1, <3>3
        <4>2. QED
          BY ONLY <3>1, <4>1
      <3>4. QED
        BY <3>2, <3>3
    <2>3. row.status = "shutting_down" => row.gen # call.gen
      BY <1>1 DEF CallSound
    <2>4. row.gen \in Gens
      BY <1>1, RowFacts
    <2>5. QED
      BY <2>1, <2>2, <2>3, <2>4 DEF ClusterAdvances
  <1>5. QED
    BY <1>3, <1>4

LEMMA ClusterStep ==
    ASSUME IInv, [Next]_vars
    PROVE  ClusterAdvances /\ (row' = row \/ UNCHANGED <<objs, disks>>)
  <1> USE DEF IInv
  <1>1. ASSUME NEW call \in landing, Land(call)
        PROVE  ClusterAdvances /\ row' = row
    BY <1>1, LandAdvances DEF Land, database
  <1>2. ASSUME NEW c \in Compute, NEW g \in Gens, ComputeGone(c, g)
        PROVE  ClusterAdvances /\ row' = row
    <2>1. /\ objs[<<c, g>>].phase = "ending" /\ objs'[<<c, g>>].uid = objs[<<c, g>>].uid
          /\ \A x \in Compute, y \in Gens : <<x, y>> # <<c, g>> => objs'[<<x, y>>] = objs[<<x, y>>]
      BY <1>2, ComputeGoneFacts
    <2>2. disks' = disks /\ row' = row
      BY <1>2 DEF ComputeGone, database
    <2>3. ASSUME NEW x \in Compute, NEW y \in Gens
          PROVE  /\ objs[<<x, y>>].uid <= objs'[<<x, y>>].uid
                 /\ objs[<<x, y>>].phase = "none" => objs'[<<x, y>>].phase = "none"
      <3>1. PICK uid \in Nat : uid = objs[<<x, y>>].uid
        BY ObjectTyped
      <3>2. /\ objs'[<<x, y>>].uid = objs[<<x, y>>].uid /\ uid <= uid
            /\ objs[<<x, y>>].phase = "none" => objs'[<<x, y>>].phase = "none"
        BY <2>1
      <3>3. QED
        BY ONLY <3>1, <3>2
    <2>4. row.gen \in Gens
      BY RowFacts
    <2>5. QED
      BY <2>2, <2>3, <2>4 DEF ClusterAdvances
  <1>3. ASSUME NEW d \in Disks, DiskGone(d)
        PROVE  ClusterAdvances /\ row' = row
    <2>1. /\ disks'[d].phase = "gone" /\ \A x \in Disks \ {d} : disks'[x] = disks[x]
      BY <1>3, PhaseFacts DEF DiskGone, Phases
    <2>2. objs' = objs /\ row' = row
      BY <1>3 DEF DiskGone, database
    <2>3. ASSUME NEW x \in Compute, NEW y \in Gens
          PROVE  objs[<<x, y>>].uid <= objs'[<<x, y>>].uid
      BY <2>2, ObjectTyped
    <2>4. QED
      BY <2>1, <2>2, <2>3 DEF ClusterAdvances
  <1>4. ASSUME NEW e \in execs, ExecAct(e)
        PROVE  ClusterAdvances /\ row' = row
    <2>1. PICK t \in e.left : t \in Targets /\ Acted(t)
      BY <1>4, ActFacts
    <2>2. t.part = "disk" => t.disk # NoDisk
      BY DEF ExecsSound, ExecSound, Harmless, Seen
    <2>3. ClusterAdvances
      BY <2>1, <2>2, DeleteAdvances, DropAdvances, ClusterStays DEF Acted
    <2>4. QED
      BY <1>4, <2>3 DEF ExecAct, database
  <1>5. CASE RescueAct
    <2>1. PICK t \in rescue.strike : t \in Targets /\ Struck(t)
      BY <1>5, RescueActFacts
    <2>2. ~IsCompute(t) => t.disk # NoDisk
      BY <2>1 DEF RescueSound, Past, IsCompute, Targets, Parts, Compute
    <2>3. ClusterAdvances
      BY <2>1, <2>2, DeleteAdvances, DropAdvances DEF Struck
    <2>4. QED
      BY <1>5, <2>3 DEF RescueAct
  <1>6. CASE Provision \/ MarkReady \/ Idle \/ Reap \/ Recover \/ AdmitSighting
    BY <1>6, ClusterStays DEF Provision, MarkReady, Idle, Reap, Recover, AdmitSighting, cluster
  <1>7. CASE \E b \in builders : BuildCreate(b) \/ BuildRecord(b) \/ BuildFails(b) \/ BuilderDies(b)
    BY <1>7, ClusterStays DEF BuildCreate, BuildRecord, BuildFails, BuilderDies, cluster
  <1>8. CASE \/ Condemn \/ Suspect \/ \E g \in Gens : Sight(g)
             \/ \E w \in works : PublishShutdown(w) \/ ExecStart(w)
             \/ \E t \in shutdowns : ShutdownAck(t)
    BY <1>8, ClusterStays DEF Condemn, Suspect, Sight, PublishShutdown, ExecStart, ShutdownAck, cluster
  <1>9. CASE \/ \E e \in execs : ExecCheck(e) \/ ExecEnd(e) \/ ExecDies(e) \/ LockLost(e)
             \/ RescueStart \/ RescueCheck \/ RescueFinish \/ RescueFails \/ RescueDies \/ UNCHANGED vars
    BY <1>9, ClusterStays DEF ExecCheck, ExecEnd, ExecDies, LockLost, RescueStart, RescueCheck, RescueFinish,
        RescueFails, RescueDies, vars, cluster
  <1>10. QED
    BY <1>1, <1>2, <1>3, <1>4, <1>5, <1>6, <1>7, <1>8, <1>9, NextCases

LEMMA StepAdvances == ASSUME IInv, [Next]_vars PROVE Advances
  BY RowStep, ClusterStep DEF Advances

-----------------------------------------------------------------------------
(* What a step leaves of a target, of a work, of an executor. *)

LEMMA TargetNumbers ==
    ASSUME NEW t \in Targets
    PROVE  t.gen \in Gens /\ t.gen \in Nat /\ t.disk \in Nat /\ t.uid \in Nat /\ t.part \in Parts
  <1>1. t.gen \in Gens /\ t.disk \in MaybeDisk /\ t.uid \in Nat /\ t.part \in Parts
    BY DEF Targets
  <1>2. t.gen \in Nat
    BY ONLY <1>1, Numbers
  <1>3. t.disk \in Nat
    <2>1. t.disk \in Disks \/ t.disk = 0
      BY ONLY <1>1 DEF MaybeDisk, NoDisk
    <2>2. CASE t.disk \in Disks
      BY <2>2, Numbers
    <2>3. CASE t.disk = 0
      BY <2>3
    <2>4. QED
      BY ONLY <2>1, <2>2, <2>3
  <1>4. QED
    BY <1>1, <1>2, <1>3

LEMMA PastKept ==
    ASSUME TypeOK, Advances, TypeOK', NEW t \in Targets, Past(t)
    PROVE  Past(t)'
  <1>1. t.gen \in Nat /\ t.disk \in Nat
    BY TargetNumbers
  <1>2. row.gen \in Nat /\ row'.gen \in Nat /\ drawn \in Nat /\ drawn' \in Nat
    BY Numbers DEF TypeOK, Rows
  <1>3. row.gen <= row'.gen /\ drawn <= drawn'
        /\ (row'.disk \in {row.disk, NoDisk} \/ (row'.disk = drawn + 1 /\ drawn' = drawn + 1))
    BY DEF Advances, RowAdvances
  <1>4. QED
    BY <1>1, <1>2, <1>3 DEF Past

LEMMA SeenKept ==
    ASSUME TypeOK, Advances, TypeOK', NEW t \in Targets, Seen(t)
    PROVE  Seen(t)'
  <1>1. t.gen \in Nat /\ t.disk \in Nat /\ t.uid \in Nat /\ t.gen \in Gens
    BY TargetNumbers
  <1>2. row.gen \in Nat /\ row'.gen \in Nat /\ drawn \in Nat /\ drawn' \in Nat
    BY Numbers DEF TypeOK, Rows
  <1>3. row.gen <= row'.gen /\ drawn <= drawn'
    BY DEF Advances, RowAdvances
  <1>4. CASE t.part = "disk"
    BY <1>1, <1>2, <1>3, <1>4 DEF Seen
  <1>5. CASE t.part # "disk"
    <2>1. t.part \in Compute
      BY <1>5 DEF Targets, Parts, Compute
    <2>2. PICK uid \in Nat, later \in Nat : uid = objs[<<t.part, t.gen>>].uid /\ later = objs'[<<t.part, t.gen>>].uid
      <3>1. objs[<<t.part, t.gen>>].uid \in Nat
        BY <1>1, <2>1, ObjectTyped
      <3>2. objs'[<<t.part, t.gen>>] \in Objects
        BY <1>1, <2>1 DEF TypeOK
      <3>3. QED
        BY <3>1, <3>2 DEF Objects
    <2>3. uid <= later
      BY <1>1, <2>1, <2>2 DEF Advances, ClusterAdvances
    <2>4. t.gen <= row.gen /\ t.uid <= uid
      BY <1>5, <2>2 DEF Seen
    <2>5. t.gen <= row'.gen /\ t.uid <= later
      BY <1>1, <1>2, <1>3, <2>3, <2>4
    <2>6. QED
      BY <1>5, <2>2, <2>5 DEF Seen
  <1>6. QED
    BY <1>4, <1>5

LEMMA GoneKept ==
    ASSUME TypeOK, Advances, NEW t \in Targets, t.part = "disk", Seen(t), disks[t.disk].phase = "gone"
    PROVE  disks'[t.disk].phase = "gone"
  BY DEF Seen, Targets, MaybeDisk, Advances, ClusterAdvances

LEMMA HarmlessKept ==
    ASSUME TypeOK, RowAgrees, DeploymentsSound, Advances, TypeOK', NEW t \in Targets, Harmless(t)
    PROVE  Harmless(t)'
  <1>1. Seen(t) /\ Seen(t)'
    BY SeenKept DEF Harmless
  <1>2. (t.part = "disk" /\ ~t.retain /\ t.disk = row'.disk) => PvcState' = "destroying"
    <2>1. SUFFICES ASSUME t.part = "disk", ~t.retain, t.disk = row'.disk
                   PROVE  PvcState' = "destroying"
      OBVIOUS
    <2>2. t.disk # NoDisk /\ t.disk <= drawn /\ t.disk \in Nat /\ drawn \in Nat
      BY <1>1, <2>1, Numbers DEF Seen, TypeOK, Targets, MaybeDisk, NoDisk
    <2>3. row'.disk \in {row.disk, NoDisk} \/ row'.disk = drawn + 1
      BY DEF Advances, RowAdvances
    <2>4. t.disk = row.disk /\ row'.disk = row.disk
      BY <2>1, <2>2, <2>3
    <2>5. PvcState = "destroying"
      BY <2>1, <2>4 DEF Harmless
    <2>6. QED
      BY <2>2, <2>4, <2>5 DEF Advances, RowAdvances
  <1>3. ASSUME t.part # "disk", t.gen = row'.gen, row'.status \in {"creating", "ready"},
               t.uid = objs'[<<t.part, t.gen>>].uid
        PROVE  objs'[<<t.part, t.gen>>].phase = "none"
    <2>1. t.part \in Compute /\ t.gen \in Gens /\ t.uid \in Nat
      BY <1>3 DEF Targets, Parts, Compute
    <2>2. t.gen = row.gen /\ row.status \in Outside \cup {"creating", "ready"}
      BY <1>3 DEF Advances, RowAdvances
    <2>3. PICK uid \in Nat, later \in Nat : uid = objs[<<t.part, t.gen>>].uid /\ later = objs'[<<t.part, t.gen>>].uid
      <3>1. objs[<<t.part, t.gen>>].uid \in Nat
        BY <2>1, ObjectTyped
      <3>2. objs'[<<t.part, t.gen>>] \in Objects
        BY <2>1 DEF TypeOK
      <3>3. QED
        BY <3>1, <3>2 DEF Objects
    <2>4. t.uid <= uid /\ uid <= later
      BY <1>1, <1>3, <2>1, <2>3 DEF Seen, Advances, ClusterAdvances
    <2>5. t.uid = uid /\ uid = later
      BY <1>3, <2>1, <2>3, <2>4
    <2>6. objs[<<t.part, t.gen>>].phase = "none"
      <3>1. CASE row.status \in Outside
        BY <2>1, <2>2, <3>1 DEF DeploymentsSound, Placed, OneTenant, NoneAtRest, BuiltSoFar, Whole, UidsAgree, Outside
      <3>2. CASE row.status \in {"creating", "ready"}
        BY <1>3, <2>2, <2>3, <2>5, <3>2 DEF Harmless
      <3>3. QED
        BY <2>2, <3>1, <3>2
    <2>7. objs'[<<t.part, t.gen>>].phase = "none" \/ uid < later
      BY <2>1, <2>3, <2>6 DEF Advances, ClusterAdvances
    <2>8. QED
      BY <2>3, <2>5, <2>7
  <1>4. QED
    BY <1>1, <1>2, <1>3 DEF Harmless

LEMMA WorkKept ==
    ASSUME TypeOK, Advances, TypeOK', NEW w \in Works, WorkSound(w), w.kind # "idle" \/ row' = row
    PROVE  WorkSound(w)'
  <1>1. \A t \in w.targets : t \in Targets
    BY DEF Works
  <1>2. ASSUME NEW t \in w.targets
        PROVE  /\ Seen(t)' /\ CleanedIsGone(t)'
               /\ t.retain => w.kind = "idle" /\ t.part = "disk" /\ t.disk = row'.disk
               /\ t.part = "disk" => (w.kind = "idle" => t.retain)
    <2>1. t \in Targets /\ Seen(t) /\ CleanedIsGone(t)
      BY <1>1 DEF WorkSound
    <2>2. Seen(t)'
      BY <2>1, SeenKept
    <2>3. CleanedIsGone(t)'
      BY <2>1, GoneKept DEF CleanedIsGone
    <2>4. QED
      BY <2>2, <2>3 DEF WorkSound
  <1>3. (w.kind # "recovery" => w.born = w.kind) /\ (w.born = "orphan" => w.kind = "orphan")
    BY DEF WorkSound
  <1>4. w.kind = "idle" =>
        /\ row'.status = "shutting_down" /\ w.at = row'.at /\ w.gen = row'.gen
        /\ \A t \in w.targets : Recorded(t)'
        /\ \A c \in Compute : \E t \in w.targets : t.part = c
    BY DEF WorkSound, Recorded
  <1>5. w.kind = "reap" =>
        w.targets # {} /\ \A t \in w.targets : t.part = "disk" /\ t.disk = w.disk /\ ~t.retain
    BY DEF WorkSound
  <1>6. ASSUME w.kind = "service", NEW t \in w.targets, t.part = "disk"
        PROVE  t.disk # row'.disk
    <2>1. t.disk # row.disk /\ t.disk # NoDisk /\ t.disk <= drawn
      BY <1>6 DEF WorkSound, Seen
    <2>2. t.disk \in Nat /\ drawn \in Nat
      BY <1>1, TargetNumbers, RowFacts
    <2>3. row'.disk \in {row.disk, NoDisk} \/ row'.disk = drawn + 1
      BY DEF Advances, RowAdvances
    <2>4. QED
      BY <2>1, <2>2, <2>3
  <1>7. ASSUME w.kind \in {"orphan", "recovery"}, NEW t \in w.targets
        PROVE  Past(t)'
    BY <1>1, <1>7, PastKept DEF WorkSound
  <1>8. QED
    BY <1>2, <1>3, <1>4, <1>5, <1>6, <1>7 DEF WorkSound

LEMMA ExecKept ==
    ASSUME TypeOK, RowAgrees, DeploymentsSound, Advances, TypeOK', NEW e \in Executors, ExecSound(e)
    PROVE  ExecSound(e)'
  <1>1. e.left \in SUBSET Targets /\ e.work \in Works /\ e.work.at \in Nat /\ e.work.disk \in MaybeDisk
    BY DEF Executors, Works
  <1>2. /\ e.work.kind # "recovery" /\ e.work.born = e.work.kind
        /\ e.strike => e.left # {}
    BY DEF ExecSound
  <1>3. \A t \in e.left : Harmless(t)'
    BY <1>1, HarmlessKept DEF ExecSound
  <1>4. row.at \in Nat /\ row'.at \in Nat /\ row.at <= row'.at /\ drawn \in Nat /\ drawn' \in Nat /\ drawn <= drawn'
    BY DEF TypeOK, Rows, Advances, RowAdvances
  <1>5. ASSUME e.work.kind = "idle"
        PROVE  /\ e.work.at <= row'.at
               /\ e.work.at = row'.at =>
                    /\ row'.status = "shutting_down"
                    /\ \A t \in e.left : Recorded(t)'
                    /\ \A c \in Compute : (\A t \in e.left : t.part # c) => e.pending \/ objs'[<<c, row'.gen>>].phase = "none"
    <2>1. e.work.at <= row.at
      BY <1>5 DEF ExecSound
    <2>2. SUFFICES ASSUME e.work.at = row'.at
                   PROVE  /\ row'.status = "shutting_down"
                          /\ \A t \in e.left : Recorded(t)'
                          /\ \A c \in Compute : (\A t \in e.left : t.part # c) =>
                                e.pending \/ objs'[<<c, row'.gen>>].phase = "none"
      BY <1>1, <1>4, <2>1
    <2>3. e.work.at = row.at /\ ~(row.at < row'.at)
      BY <1>1, <1>4, <2>1, <2>2
    <2>4. /\ row.status = "shutting_down"
          /\ \A t \in e.left : Recorded(t)
          /\ \A c \in Compute : (\A t \in e.left : t.part # c) => e.pending \/ objs[<<c, row.gen>>].phase = "none"
      BY <1>5, <2>3 DEF ExecSound
    <2>5. row' = row
      BY <2>3, <2>4 DEF Advances, RowAdvances
    <2>6. \A c \in Compute : objs[<<c, row.gen>>].phase = "none" => objs'[<<c, row.gen>>].phase = "none"
      BY <2>4 DEF Advances, ClusterAdvances
    <2>7. QED
      BY <2>4, <2>5, <2>6 DEF Recorded
  <1>6. ASSUME e.work.kind = "reap"
        PROVE  /\ e.work.disk # NoDisk /\ e.work.disk <= drawn'
               /\ \A t \in e.left : t.part = "disk" /\ t.disk = e.work.disk /\ ~t.retain
               /\ e.left = {} => disks'[e.work.disk].phase = "gone"
    <2>1. /\ e.work.disk # NoDisk /\ e.work.disk <= drawn
          /\ \A t \in e.left : t.part = "disk" /\ t.disk = e.work.disk /\ ~t.retain
          /\ e.left = {} => disks[e.work.disk].phase = "gone"
      BY <1>6 DEF ExecSound
    <2>2. e.work.disk \in Disks /\ e.work.disk \in Nat
      BY <1>1, <2>1, Numbers DEF MaybeDisk
    <2>3. e.work.disk <= drawn'
      BY <1>4, <2>1, <2>2
    <2>4. QED
      BY <2>1, <2>2, <2>3 DEF Advances, ClusterAdvances
  <1>7. QED
    BY <1>2, <1>3, <1>5, <1>6 DEF ExecSound

LEMMA OnwardSound ==
    ASSUME NEW e \in Executors, NEW x \in Executors, Onward(x, e), ExecSound(e)
    PROVE  ExecSound(x)
  BY DEF Onward, ExecSound

\* A work whose targets were looked at again.
Alike(t, u) == t.part = u.part /\ t.gen = u.gen /\ t.disk = u.disk /\ t.retain = u.retain
LEMMA ReworkedSound ==
    ASSUME NEW v \in Works, NEW w \in Works, SameButTargets(v, w), WorkSound(w),
           \A t \in v.targets : \E u \in w.targets :
                Alike(t, u) /\ Seen(t) /\ CleanedIsGone(t) /\ (w.kind = "idle" => t.uid = u.uid),
           \A u \in w.targets : \E t \in v.targets : t.part = u.part
    PROVE  WorkSound(v)
  <1>1. v.kind = w.kind /\ v.born = w.born /\ v.gen = w.gen /\ v.disk = w.disk /\ v.at = w.at
    BY DEF SameButTargets
  <1>2. ASSUME NEW t \in v.targets
        PROVE  /\ Seen(t) /\ CleanedIsGone(t)
               /\ t.retain => v.kind = "idle" /\ t.part = "disk" /\ t.disk = row.disk
               /\ t.part = "disk" => (v.kind = "idle" => t.retain)
               /\ v.kind = "idle" => Recorded(t)
               /\ v.kind = "reap" => t.part = "disk" /\ t.disk = v.disk /\ ~t.retain
               /\ v.kind = "service" => (t.part = "disk" => t.disk # row.disk)
               /\ v.kind \in {"orphan", "recovery"} => Past(t)
    <2>1. PICK u \in w.targets :
            Alike(t, u) /\ Seen(t) /\ CleanedIsGone(t) /\ (w.kind = "idle" => t.uid = u.uid)
      OBVIOUS
    <2>2. /\ u.retain => w.kind = "idle" /\ u.part = "disk" /\ u.disk = row.disk
          /\ u.part = "disk" => (w.kind = "idle" => u.retain)
          /\ w.kind = "idle" => Recorded(u)
          /\ w.kind = "reap" => u.part = "disk" /\ u.disk = w.disk /\ ~u.retain
          /\ w.kind = "service" => (u.part = "disk" => u.disk # row.disk)
          /\ w.kind \in {"orphan", "recovery"} => Past(u)
      BY DEF WorkSound
    <2>3. t.part = u.part /\ t.gen = u.gen /\ t.disk = u.disk /\ t.retain = u.retain
      BY <2>1 DEF Alike
    <2>4. w.kind = "idle" => Recorded(t)
      BY <2>1, <2>2, <2>3 DEF Recorded
    <2>5. w.kind \in {"orphan", "recovery"} => Past(t)
      BY <2>2, <2>3 DEF Past
    <2>6. QED
      BY ONLY <1>1, <2>1, <2>2, <2>3, <2>4, <2>5
  <1>3. /\ w.kind # "recovery" => w.born = w.kind
        /\ w.born = "orphan" => w.kind = "orphan"
        /\ w.kind = "idle" =>
            /\ row.status = "shutting_down" /\ w.at = row.at /\ w.gen = row.gen
            /\ \A c \in Compute : \E t \in w.targets : t.part = c
        /\ w.kind = "reap" => w.targets # {}
    BY DEF WorkSound
  <1>4. v.kind = "idle" => \A c \in Compute : \E t \in v.targets : t.part = c
    BY <1>1, <1>3
  <1>5. v.kind = "reap" => v.targets # {}
    BY <1>1, <1>3
  <1>6. QED
    BY <1>1, <1>2, <1>3, <1>4, <1>5 DEF WorkSound

LEMMA StartedWork ==
    ASSUME TypeOK, WorksSound, NEW w \in works, NEW v \in Works, SameButTargets(v, w),
           v.targets = {Capture(t) : t \in w.targets}
    PROVE  WorkSound(v)
  <1>1. w \in Works /\ WorkSound(w) /\ w.targets \in SUBSET Targets
    BY DEF TypeOK, WorksSound, Works
  <1>2. ASSUME NEW u \in w.targets
        PROVE  /\ Alike(Capture(u), u) /\ Seen(Capture(u)) /\ CleanedIsGone(Capture(u))
               /\ Capture(u).uid = u.uid
    <2>1. PICK t : t = Capture(u)
      OBVIOUS
    <2>2. /\ t \in Targets /\ t.part = u.part /\ t.gen = u.gen /\ t.disk = u.disk /\ t.uid = u.uid
          /\ t.retain = u.retain /\ t.cleaned = u.cleaned
      BY <1>1, <2>1, CaptureTyped
    <2>3. Seen(u) /\ CleanedIsGone(u)
      BY <1>1 DEF WorkSound
    <2>4. Seen(t) /\ CleanedIsGone(t)
      BY <2>2, <2>3 DEF Seen, CleanedIsGone
    <2>5. QED
      BY <2>1, <2>2, <2>4 DEF Alike
  <1>3. \A t \in v.targets : \E u \in w.targets :
                Alike(t, u) /\ Seen(t) /\ CleanedIsGone(t) /\ (w.kind = "idle" => t.uid = u.uid)
    BY <1>2
  <1>4. \A u \in w.targets : \E t \in v.targets : t.part = u.part
    BY <1>2 DEF Alike
  <1>5. QED
    BY <1>1, <1>3, <1>4, ReworkedSound

LEMMA AckedSound ==
    ASSUME TypeOK, WorksSound, NEW w \in works, NEW v \in Works, SameButTargets(v, w), v.targets = w.targets
    PROVE  WorkSound(v)
  <1>1. w \in Works /\ WorkSound(w)
    BY DEF TypeOK, WorksSound
  <1>2. \A t \in v.targets : \E u \in w.targets :
                Alike(t, u) /\ Seen(t) /\ CleanedIsGone(t) /\ (w.kind = "idle" => t.uid = u.uid)
    BY <1>1 DEF WorkSound, Alike
  <1>3. QED
    BY <1>1, <1>2, ReworkedSound

LEMMA ExaminedWork ==
    ASSUME TypeOK, WorksSound, NEW v \in Works, Revised(v, Examined)
    PROVE  WorkSound(v)
  <1>1. PICK w \in Recoveries : SameButTargets(v, w) /\ v.targets = {Examined(u) : u \in w.targets}
    BY DEF Revised
  <1>2. w \in works /\ w \in Works /\ WorkSound(w) /\ w.targets \in SUBSET Targets /\ w.kind = "recovery"
    BY DEF TypeOK, WorksSound, Works, Recoveries
  <1>3. ASSUME NEW u \in w.targets
        PROVE  Alike(Examined(u), u) /\ Seen(Examined(u)) /\ CleanedIsGone(Examined(u))
    <2>1. PICK t : t = Examined(u)
      OBVIOUS
    <2>2. u \in Targets /\ Seen(u)
      BY <1>2 DEF WorkSound
    <2>3. /\ t \in Targets /\ t.part = u.part /\ t.gen = u.gen /\ t.disk = u.disk /\ t.retain = u.retain
          /\ t.uid = u.uid \/ (IsCompute(u) => t.uid = objs[<<u.part, u.gen>>].uid)
          /\ t.cleaned /\ t.uid # NoUid /\ (\E x \in Recoveries : u \in x.targets) =>
                \E x \in Recoveries : \E y \in x.targets : SameTarget(u, y) /\ y.cleaned /\ y.uid # NoUid
      BY <2>1, <2>2, ExaminedTyped
    <2>4. Seen(t)
      <3>1. CASE t.part = "disk"
        BY <2>2, <2>3, <3>1 DEF Seen
      <3>2. CASE t.part # "disk"
        <4>1. u.part \in Compute /\ u.gen \in Gens
          BY <2>2, <2>3, <3>2 DEF Targets, Parts, Compute
        <4>2. PICK uid \in Nat : uid = objs[<<u.part, u.gen>>].uid
          BY <4>1, ObjectTyped
        <4>3. u.gen <= row.gen /\ u.uid <= uid
          BY <2>2, <2>3, <3>2, <4>2 DEF Seen
        <4>4. t.uid = u.uid \/ t.uid = uid
          BY <2>3, <4>1, <4>2 DEF IsCompute
        <4>5. t.uid <= uid
          BY <4>2, <4>3, <4>4
        <4>6. QED
          BY <2>3, <3>2, <4>2, <4>3, <4>5 DEF Seen
      <3>3. QED
        BY <3>1, <3>2
    <2>5. CleanedIsGone(t)
      <3>1. SUFFICES ASSUME t.part = "disk", t.cleaned, t.uid # NoUid
                     PROVE  disks[t.disk].phase = "gone"
        BY DEF CleanedIsGone
      <3>2. PICK x \in Recoveries : \E y \in x.targets : SameTarget(u, y) /\ y.cleaned /\ y.uid # NoUid
        BY <1>1, <2>3, <3>1
      <3>3. PICK y \in x.targets : SameTarget(u, y) /\ y.cleaned /\ y.uid # NoUid
        BY <3>2
      <3>4. CleanedIsGone(y)
        BY DEF WorksSound, WorkSound, Recoveries
      <3>5. y.part = "disk" /\ y.disk = t.disk
        BY <2>3, <3>1, <3>3 DEF SameTarget
      <3>6. QED
        BY <3>3, <3>4, <3>5 DEF CleanedIsGone
    <2>6. QED
      BY <2>1, <2>3, <2>4, <2>5 DEF Alike
  <1>4. \A t \in v.targets : \E u \in w.targets :
                Alike(t, u) /\ Seen(t) /\ CleanedIsGone(t) /\ (w.kind = "idle" => t.uid = u.uid)
    BY <1>1, <1>2, <1>3
  <1>5. \A u \in w.targets : \E t \in v.targets : t.part = u.part
    BY <1>1, <1>3 DEF Alike
  <1>6. QED
    BY <1>1, <1>2, <1>4, <1>5, ReworkedSound

LEMMA MarkedWork ==
    ASSUME TypeOK, WorksSound, NEW t \in Targets, NEW v \in Cleaned(t), ~IsCompute(t) => Reclaimed(t.disk)
    PROVE  v \in Works /\ WorkSound(v)
  <1>1. PICK w \in Recoveries :
            v \in Works /\ SameButTargets(v, w) /\ v.targets = {Marked(t, u) : u \in w.targets}
    BY CleanedWork
  <1>2. w \in works /\ w \in Works /\ WorkSound(w) /\ w.targets \in SUBSET Targets
    BY DEF TypeOK, WorksSound, Works, Recoveries
  <1>3. ASSUME NEW u \in w.targets
        PROVE  /\ Alike(Marked(t, u), u) /\ Seen(Marked(t, u)) /\ CleanedIsGone(Marked(t, u))
               /\ Marked(t, u).uid = u.uid
    <2>1. PICK m : m = Marked(t, u)
      OBVIOUS
    <2>2. u \in Targets /\ Seen(u) /\ CleanedIsGone(u)
      BY <1>2 DEF WorkSound
    <2>3. /\ m \in Targets /\ m.part = u.part /\ m.gen = u.gen
          /\ m.disk = u.disk /\ m.uid = u.uid /\ m.retain = u.retain
          /\ m.cleaned => u.cleaned \/ SameTarget(t, u)
      BY <2>1, <2>2, MarkedTyped
    <2>4. Seen(m)
      BY <2>2, <2>3 DEF Seen
    <2>5. CleanedIsGone(m)
      BY <2>2, <2>3 DEF CleanedIsGone, SameTarget, Reclaimed, IsCompute, Compute
    <2>6. QED
      BY <2>1, <2>3, <2>4, <2>5 DEF Alike
  <1>4. \A x \in v.targets : \E u \in w.targets :
                Alike(x, u) /\ Seen(x) /\ CleanedIsGone(x) /\ (w.kind = "idle" => x.uid = u.uid)
    BY <1>1, <1>3
  <1>5. \A u \in w.targets : \E x \in v.targets : x.part = u.part
    BY <1>1, <1>3 DEF Alike
  <1>6. QED
    BY <1>1, <1>2, <1>4, <1>5, ReworkedSound

\* The new works.
LEMMA IdleSound ==
    ASSUME IInv, Idle, TypeOK', Advances, NEW w \in Works,
           w.kind = "idle" /\ w.born = "idle" /\ w.gen = row.gen /\ w.disk = row.disk
           /\ w.at = row.at + 1 /\ w.targets = SandboxTargets(TRUE)
    PROVE  WorkSound(w)'
  <1>1. TypeOK
    BY DEF IInv
  <1>2. RowIs("shutting_down", row.gen, row.at + 1, row.disk, row.bound, row.uid)
    BY IdleTyped DEF IInv, MovedTo
  <1>3. PICK yes \in BOOLEAN : yes = TRUE
    OBVIOUS
  <1>4. /\ SandboxTargets(yes) \subseteq Targets
        /\ \A t \in SandboxTargets(yes) :
            /\ ~t.cleaned
            /\ t.part = "disk" => t.disk = row.disk /\ row.disk # NoDisk /\ t.retain = yes
            /\ t.part # "disk" => t.gen = row.gen /\ t.uid = row.uid[t.part] /\ ~t.retain
        /\ \A c \in Compute : \E t \in SandboxTargets(yes) : t.part = c
    BY <1>1, SandboxTargetsFacts
  <1>5. ASSUME NEW t \in w.targets
        PROVE  /\ t \in Targets /\ Seen(t) /\ ~t.cleaned
               /\ t.part = "disk" => t.disk = row.disk /\ t.retain
               /\ t.part # "disk" => t.gen = row.gen /\ t.uid = row.uid[t.part] /\ ~t.retain
    <2>1. /\ t \in Targets /\ ~t.cleaned
          /\ t.part = "disk" => t.disk = row.disk /\ row.disk # NoDisk /\ t.retain
          /\ t.part # "disk" => t.gen = row.gen /\ t.uid = row.uid[t.part] /\ ~t.retain
      BY <1>3, <1>4
    <2>2. CASE t.part = "disk"
      BY <2>1, <2>2 DEF Seen, IInv, RowAgrees
    <2>3. CASE t.part # "disk"
      <3>1. t.part \in Compute
        BY <2>1, <2>3 DEF Targets, Parts, Compute
      <3>2. t.uid <= objs[<<t.part, t.gen>>].uid
        BY <2>1, <2>3, <3>1 DEF IInv, DeploymentsSound, Placed, OneTenant, NoneAtRest, BuiltSoFar, Whole, UidsAgree
      <3>3. t.gen <= row.gen
        BY <1>1, <2>1, <2>3, RowFacts
      <3>4. QED
        BY <2>1, <2>3, <3>2, <3>3 DEF Seen
    <2>4. QED
      BY <2>1, <2>2, <2>3
  <1>6. ASSUME NEW t \in w.targets
        PROVE  /\ Seen(t)' /\ CleanedIsGone(t)' /\ Recorded(t)'
               /\ t.retain => t.part = "disk" /\ t.disk = row'.disk
               /\ t.part = "disk" => t.retain
    <2>1. Seen(t)'
      BY <1>1, <1>5, SeenKept
    <2>2. QED
      BY <1>2, <1>5, <2>1 DEF RowIs, CleanedIsGone, Recorded
  <1>7. row'.status = "shutting_down" /\ w.at = row'.at /\ w.gen = row'.gen
    BY <1>2 DEF RowIs
  <1>8. \A c \in Compute : \E t \in w.targets : t.part = c
    BY <1>3, <1>4
  <1>9. QED
    BY <1>6, <1>7, <1>8 DEF WorkSound

LEMMA ReapSound ==
    ASSUME IInv, NEW w \in Works, NEW t \in Targets, row.disk \in Disks,
           w.kind = "reap" /\ w.born = "reap" /\ w.gen = row.gen /\ w.disk = row.disk /\ w.targets = {t},
           t.part = "disk" /\ t.disk = row.disk /\ ~t.retain /\ ~t.cleaned
    PROVE  WorkSound(w)
  <1>1. row.disk # NoDisk /\ row.disk <= drawn
    BY RowFacts DEF IInv, RowAgrees
  <1>2. Seen(t) /\ CleanedIsGone(t)
    BY <1>1 DEF Seen, CleanedIsGone
  <1>3. QED
    BY <1>2 DEF WorkSound

LEMMA SeenSightings ==
    ASSUME IInv, NEW o, NEW t \in Own(o)
    PROVE  /\ t \in Targets /\ Seen(t) /\ ~t.retain /\ ~t.cleaned
           /\ t.part = "disk" /\ o # "owned" => t.disk # row.disk
           /\ o = "orphan" => Past(t)
  <1>1. t \in Targets /\ Seen(t) /\ ~t.retain /\ ~t.cleaned /\ Ownership(t) = o
    BY DEF Own, IInv, SightingSound, TypeOK
  <1>2. o # "owned" => ~(t.part = "disk" /\ pvcs[t.disk].state # "none")
    BY <1>1 DEF Ownership
  <1>3. t.part = "disk" /\ o # "owned" => t.disk # row.disk
    <2>1. SUFFICES ASSUME t.part = "disk", o # "owned", t.disk = row.disk PROVE FALSE
      OBVIOUS
    <2>2. row.disk # NoDisk
      BY <1>1, <2>1 DEF Seen
    <2>3. PvcState = pvcs[t.disk].state /\ PvcState # "none"
      BY <2>1, <2>2 DEF PvcState, IInv, RowAgrees, DiskStates, TypeOK, Rows, Statuses
    <2>4. QED
      BY <1>2, <2>1, <2>3
  <1>4. o = "orphan" => t.gen # row.gen
    BY <1>1 DEF Ownership
  <1>5. o = "orphan" => Past(t)
    <2>1. t.gen \in Nat /\ row.gen \in Nat
      BY <1>1, TargetNumbers, RowFacts DEF IInv
    <2>2. QED
      BY <1>1, <1>3, <1>4, <2>1 DEF Past, Seen
  <1>6. QED
    BY <1>1, <1>3, <1>5

LEMMA AdmittedSound ==
    ASSUME IInv, NEW w \in Works, w.kind \in {"service", "orphan"}, w.born = w.kind,
           w.kind = "service" => w.targets = Own("stopped"),
           w.kind = "orphan" => w.targets = Own("orphan")
    PROVE  WorkSound(w)
  <1>1. ASSUME NEW t \in w.targets
        PROVE  /\ Seen(t) /\ ~t.retain /\ ~t.cleaned
               /\ w.kind = "service" => (t.part = "disk" => t.disk # row.disk)
               /\ w.kind = "orphan" => Past(t)
    <2>1. CASE w.kind = "service"
      BY <2>1, SeenSightings
    <2>2. CASE w.kind = "orphan"
      BY <2>2, SeenSightings
    <2>3. QED
      BY <2>1, <2>2
  <1>2. QED
    BY <1>1 DEF WorkSound, CleanedIsGone

LEMMA TakenOverSound ==
    ASSUME IInv, Recover, TypeOK', Advances, NEW v \in Works, TakenOver(v), v \notin works
    PROVE  WorkSound(v)'
  <1>1. TypeOK /\ \A t \in v.targets : t \in Targets
    BY DEF IInv, Works
  <1>2. v.kind = "recovery" /\ v.born # "orphan"
    BY DEF TakenOver, OfSession
  <1>3. ASSUME NEW t \in v.targets
        PROVE  Seen(t) /\ CleanedIsGone(t) /\ ~t.retain
    <2>1. CASE \E w \in OfSession : v.targets = w.targets
      <3>1. PICK w \in OfSession : v.targets = w.targets
        BY <2>1
      <3>2. w \in works /\ WorkSound(w)
        BY DEF OfSession, IInv, WorksSound
      <3>3. Seen(t) /\ CleanedIsGone(t)
        BY <3>1, <3>2 DEF WorkSound
      <3>4. ~t.retain
        BY <3>1 DEF Recover, Retained
      <3>5. QED
        BY <3>3, <3>4
    <2>2. CASE /\ ~t.retain /\ ~t.cleaned
               /\ t.part = "disk" => t.disk = row.disk /\ row.disk # NoDisk
               /\ t.part # "disk" => t.gen = row.gen /\ t.uid = row.uid[t.part]
      <3>1. CASE t.part = "disk"
        BY <2>2, <3>1 DEF Seen, IInv, RowAgrees, CleanedIsGone
      <3>2. CASE t.part # "disk"
        <4>1. t.part \in Compute
          BY <1>1, <3>2 DEF Targets, Parts, Compute
        <4>2. t.uid <= objs[<<t.part, t.gen>>].uid
          BY <2>2, <3>2, <4>1 DEF IInv, DeploymentsSound, Placed, OneTenant, NoneAtRest, BuiltSoFar, Whole, UidsAgree
        <4>3. t.gen <= row.gen
          BY <1>1, <2>2, <3>2, RowFacts
        <4>4. QED
          BY <2>2, <3>2, <4>2, <4>3 DEF Seen, CleanedIsGone
      <3>3. QED
        BY <3>1, <3>2
    <2>3. QED
      BY <2>1, <2>2 DEF TakenOver
  <1>4. RowIs("recovering", row.gen + 1, row.at + 1, NoDisk, FALSE, NoUids) /\ drawn' = drawn /\ disks' = disks
    BY RecoverFacts DEF IInv, Condemned, Recover, bounds, cluster
  <1>5. ASSUME NEW t \in v.targets
        PROVE  Seen(t)' /\ CleanedIsGone(t)' /\ Past(t)'
    <2>1. Seen(t) /\ CleanedIsGone(t) /\ t \in Targets
      BY <1>1, <1>3
    <2>2. Seen(t)'
      BY <1>1, <2>1, SeenKept
    <2>3. CleanedIsGone(t)'
      BY <1>4, <2>1 DEF CleanedIsGone
    <2>4. t.gen \in Nat /\ row.gen \in Nat /\ row'.gen = row.gen + 1 /\ row'.disk = NoDisk
      BY <1>1, <1>4, RowFacts, TargetNumbers DEF RowIs
    <2>5. Past(t)'
      BY <1>4, <2>1, <2>4 DEF Past, Seen
    <2>6. QED
      BY <2>2, <2>3, <2>5
  <1>6. QED
    BY <1>2, <1>3, <1>5 DEF WorkSound

LEMMA WorksFrom ==
    ASSUME IInv, Advances, TypeOK', row' = row \/ row.status # "shutting_down",
           \A v \in works' : v \in works \/ WorkSound(v)'
    PROVE  WorksSound'
  <1>1. ASSUME NEW v \in works
        PROVE  WorkSound(v)'
    <2>1. v \in Works /\ WorkSound(v) /\ TypeOK
      BY DEF IInv, TypeOK, WorksSound
    <2>2. v.kind # "idle" \/ row' = row
      BY <2>1 DEF WorkSound
    <2>3. QED
      BY <2>1, <2>2, WorkKept
  <1>2. QED
    BY <1>1 DEF WorksSound

\* A work found sound where the row stays.
LEMMA SoundStays ==
    ASSUME TypeOK, Advances, TypeOK', NEW v \in Works, WorkSound(v), v.kind # "idle" \/ row' = row
    PROVE  WorkSound(v)'
  BY WorkKept

LEMMA WorksStep ==
    ASSUME IInv, [Next]_vars, TypeOK', Advances
    PROVE  WorksSound'
  <1> USE DEF IInv
  <1>1. CASE Provision \/ MarkReady
    BY <1>1, WorksFrom DEF Provision, MarkReady
  <1>2. CASE Idle
    <2>1. PICK w \in Works : /\ w.kind = "idle" /\ w.born = "idle" /\ w.gen = row.gen /\ w.disk = row.disk
                             /\ w.at = row.at + 1 /\ w.targets = SandboxTargets(TRUE)
                             /\ works' = works \cup {w}
      BY <1>2, IdleTyped
    <2>2. WorkSound(w)'
      BY <1>2, <2>1, IdleSound
    <2>3. QED
      BY <1>2, <2>1, <2>2, WorksFrom DEF Idle
  <1>3. CASE Reap
    <2>1. PICK w \in Works, t \in Targets :
            /\ w.kind = "reap" /\ w.born = "reap" /\ w.gen = row.gen /\ w.disk = row.disk
            /\ w.targets = {t} /\ works' = works \cup {w}
            /\ t.part = "disk" /\ t.disk = row.disk /\ ~t.retain /\ ~t.cleaned
      BY <1>3, ReapTyped
    <2>2. row.disk \in Disks /\ row' = row
      BY <1>3, ReapTyped
    <2>3. WorkSound(w)
      BY <2>1, <2>2, ReapSound
    <2>4. WorkSound(w)'
      BY <2>2, <2>3, SoundStays
    <2>5. QED
      BY <2>1, <2>2, <2>4, WorksFrom
  <1>4. CASE Recover
    <2>1. \A v \in works' : TakenOver(v)
      BY <1>4, RecoverTyped
    <2>2. \A v \in works' : v \in works \/ WorkSound(v)'
      BY <1>4, <2>1, TakenOverSound DEF TypeOK
    <2>3. row.status # "shutting_down"
      BY <1>4 DEF Recover, Retained
    <2>4. QED
      BY <2>2, <2>3, WorksFrom
  <1>5. CASE AdmitSighting
    <2>1. CASE Serviced
      <3>1. PICK w \in Works : /\ w.kind = "service" /\ w.born = "service" /\ w.targets = Own("stopped")
                               /\ works' = works \cup {w}
        BY <2>1 DEF Serviced
      <3>2. WorkSound(w)'
        BY <3>1, AdmittedSound, SoundStays
      <3>3. row.status # "shutting_down"
        BY <2>1 DEF Serviced
      <3>4. QED
        BY <3>1, <3>2, <3>3, WorksFrom
    <2>2. CASE Orphaned
      <3>1. PICK w \in Works : /\ w.kind = "orphan" /\ w.born = "orphan" /\ w.targets = Own("orphan")
                               /\ works' = works \cup {w}
        BY <2>2 DEF Orphaned
      <3>2. WorkSound(w)'
        BY <3>1, AdmittedSound, SoundStays
      <3>3. row' = row
        BY <2>2 DEF Orphaned
      <3>4. QED
        BY <3>1, <3>2, <3>3, WorksFrom
    <2>3. CASE UNCHANGED <<row, works>>
      BY <2>3, WorksFrom
    <2>4. QED
      BY <1>5, <2>1, <2>2, <2>3, AdmitTyped
  <1>6. ASSUME NEW b \in builders, BuildCreate(b) \/ BuildRecord(b) \/ BuildFails(b) \/ BuilderDies(b)
        PROVE  WorksSound'
    <2>1. works' = works
      BY <1>6 DEF BuildCreate, BuildRecord, BuildFails, BuilderDies, database
    <2>2. row' = row \/ row.status # "shutting_down"
      BY <1>6 DEF BuildCreate, BuildRecord, BuildFails, BuilderDies, database, Holds
    <2>3. QED
      BY <2>1, <2>2, WorksFrom
  <1>7. CASE \/ \E call \in landing : Land(call)
             \/ \E c \in Compute, g \in Gens : ComputeGone(c, g)
             \/ \E d \in Disks : DiskGone(d)
             \/ \E e \in execs : ExecAct(e)
    <2>1. UNCHANGED <<row, works>>
      BY <1>7 DEF Land, ComputeGone, DiskGone, ExecAct, database
    <2>2. QED
      BY <2>1, WorksFrom
  <1>8. CASE \/ Condemn \/ Suspect \/ \E g \in Gens : Sight(g)
             \/ \E w \in works : PublishShutdown(w)
             \/ \E e \in execs : ExecDies(e) \/ LockLost(e)
             \/ RescueCheck \/ RescueDies \/ UNCHANGED vars
    <2>1. UNCHANGED <<row, works>>
      BY <1>8 DEF Condemn, Suspect, Sight, PublishShutdown, ExecDies, LockLost, RescueCheck, RescueDies, vars, database
    <2>2. QED
      BY <2>1, WorksFrom
  <1>9. ASSUME NEW w \in works, ExecStart(w)
        PROVE  WorksSound'
    <2>1. PICK v \in Works : /\ SameButTargets(v, w) /\ v.targets = {Capture(t) : t \in w.targets}
                             /\ works' = (works \ {w}) \cup {v}
      BY <1>9, StartTyped DEF Started
    <2>2. WorkSound(v)
      BY <2>1, StartedWork
    <2>3. row' = row
      BY <1>9 DEF ExecStart
    <2>4. WorkSound(v)'
      BY <2>2, <2>3, SoundStays
    <2>5. QED
      BY <2>1, <2>3, <2>4, WorksFrom
  <1>10. ASSUME NEW t \in shutdowns, ShutdownAck(t)
         PROVE  WorksSound'
    <2>1. PICK w \in works, v \in Works :
            /\ SameButTargets(v, w) /\ v.targets = w.targets /\ works' = (works \ {w}) \cup {v}
      BY <1>10, AckTyped DEF Acked
    <2>2. WorkSound(v)
      BY <2>1, AckedSound
    <2>3. row' = row
      BY <1>10 DEF ShutdownAck
    <2>4. WorkSound(v)'
      BY <2>2, <2>3, SoundStays
    <2>5. QED
      BY <2>1, <2>3, <2>4, WorksFrom
  <1>11. ASSUME NEW e \in execs, ExecCheck(e)
         PROVE  WorksSound'
    BY <1>11, CheckTyped, WorksFrom DEF ExecCheck
  <1>12. ASSUME NEW e \in execs, ExecEnd(e)
         PROVE  WorksSound'
    <2>1. CASE UNCHANGED <<row, pvcs, works>>
      BY <2>1, WorksFrom
    <2>2. CASE Ended(e) /\ (row' = row \/ row.status # "shutting_down")
      BY <2>2, WorksFrom DEF Ended, Kept
    <2>3. CASE Ended(e) /\ EndedIdle(e)
      <3>1. ASSUME NEW v \in works'
            PROVE  v.kind # "idle"
        <4>1. v \in works /\ ~SameWork(v, e.work) /\ WorkSound(v)
          BY <2>3 DEF Ended, Kept, WorksSound
        <4>2. e.work.kind = "idle" /\ row.at = e.work.at /\ row.gen = e.work.gen /\ e.work.born = "idle"
          BY <2>3 DEF Ended, EndedIdle, Owns, ExecsSound, ExecSound
        <4>3. QED
          BY <4>1, <4>2 DEF WorkSound, SameWork
      <3>2. ASSUME NEW v \in works'
            PROVE  WorkSound(v)'
        <4>1. v \in works /\ v \in Works /\ WorkSound(v)
          BY <2>3 DEF Ended, Kept, WorksSound, TypeOK
        <4>2. QED
          BY <3>1, <4>1, WorkKept
      <3>3. QED
        BY <3>2 DEF WorksSound
    <2>4. QED
      BY <1>12, <2>1, <2>2, <2>3, EndTyped DEF Ended, EndedReap, EndedService, EndedOrphan
  <1>13. CASE RescueStart
    <2>1. \A v \in works' : v \in works \/ (v \in Works /\ Revised(v, Examined))
      BY <1>13, RescueStartTyped DEF TypeOK
    <2>2. row' = row
      BY <1>13 DEF RescueStart
    <2>3. \A v \in works' : v \in works \/ WorkSound(v)'
      BY <2>1, <2>2, ExaminedWork, SoundStays
    <2>4. QED
      BY <2>2, <2>3, WorksFrom
  <1>14. CASE RescueAct
    <2>1. PICK t \in Targets : \/ works' = works
                               \/ works' = (works \ Recoveries) \cup Cleaned(t) /\ (~IsCompute(t) => Reclaimed(t.disk))
      BY <1>14, RescueActFacts
    <2>2. row' = row
      BY <1>14 DEF RescueAct
    <2>3. \A v \in works' : v \in works \/ WorkSound(v)'
      BY <2>1, <2>2, MarkedWork, SoundStays
    <2>4. QED
      BY <2>2, <2>3, WorksFrom
  <1>15. CASE RescueFinish \/ RescueFails
    <2>1. works' \subseteq works /\ (row' = row \/ row.status # "shutting_down")
      BY <1>15 DEF RescueFinish, RescueFails, Standing
    <2>2. QED
      BY <2>1, WorksFrom
  <1>16. QED
    BY <1>1, <1>2, <1>3, <1>4, <1>5, <1>6, <1>7, <1>8, <1>9, <1>10, <1>11, <1>12, <1>13, <1>14, <1>15, NextCases

-----------------------------------------------------------------------------
\* The executor of a pass that begins may do all its work asks for.
LEMMA StartedExec ==
    ASSUME IInv, NEW w \in works, w.kind # "recovery", Owns(w), NEW v \in Works, NEW e \in Executors,
           SameButTargets(v, w), WorkSound(v), e.work = v, e.left = v.targets, ~e.strike
    PROVE  ExecSound(e)
  <1>1. v.kind = w.kind /\ v.gen = w.gen /\ v.disk = w.disk /\ v.at = w.at /\ v.kind # "recovery"
    BY DEF SameButTargets
  <1>2. /\ v.kind = "idle" => RowState[v.kind] = "shutting_down"
        /\ v.kind = "reap" => RowState[v.kind] = "stopped" /\ DiskState[v.kind] = "destroying"
        /\ v.kind = "service" => RowState[v.kind] = "service"
    BY DEF RowState, DiskState
  <1>3. v.kind # "orphan" =>
        /\ row.gen = v.gen /\ row.disk = v.disk /\ row.status = RowState[v.kind] /\ row.at = v.at
        /\ v.disk # NoDisk => PvcState = DiskState[v.kind]
    BY <1>1 DEF Owns
  <1>4. v.kind \in {"idle", "reap", "service", "orphan"}
    BY <1>1 DEF Works, Kinds
  <1>5. ASSUME NEW t \in v.targets
        PROVE  Harmless(t)
    <2>1. Seen(t) /\ t \in Targets
      BY DEF WorkSound, Works
    <2>2. (t.part = "disk" /\ ~t.retain /\ t.disk = row.disk) => PvcState = "destroying"
      <3>1. SUFFICES ASSUME t.part = "disk", ~t.retain, t.disk = row.disk PROVE PvcState = "destroying"
        OBVIOUS
      <3>2. t.disk # NoDisk
        BY <2>1, <3>1 DEF Seen
      <3>3. v.kind # "idle" /\ v.kind # "service" /\ v.kind # "orphan"
        BY <3>1 DEF WorkSound, Past
      <3>4. v.kind = "reap"
        BY <1>4, <3>3
      <3>5. t.disk = v.disk
        BY <3>4 DEF WorkSound
      <3>6. QED
        BY <1>2, <1>3, <3>2, <3>4, <3>5
    <2>3. t.part # "disk" /\ t.gen = row.gen => row.status \notin {"creating", "ready"}
      <3>1. SUFFICES ASSUME t.part # "disk", t.gen = row.gen PROVE row.status \notin {"creating", "ready"}
        OBVIOUS
      <3>2. row.gen \in Nat
        BY RowFacts DEF IInv
      <3>3. v.kind # "orphan"
        BY <3>1, <3>2 DEF WorkSound, Past
      <3>4. QED
        BY <1>2, <1>3, <1>4, <3>3
    <2>4. QED
      BY <2>1, <2>2, <2>3 DEF Harmless
  <1>6. v.kind # "recovery" /\ v.born = v.kind
    BY <1>1 DEF WorkSound
  <1>7. v.kind = "idle" =>
        /\ v.at <= row.at
        /\ v.at = row.at =>
            /\ row.status = "shutting_down"
            /\ \A t \in e.left : Recorded(t)
            /\ \A c \in Compute : (\A t \in e.left : t.part # c) => e.pending \/ objs[<<c, row.gen>>].phase = "none"
    <2>1. SUFFICES ASSUME v.kind = "idle"
                   PROVE  /\ v.at <= row.at /\ row.status = "shutting_down"
                          /\ \A t \in v.targets : Recorded(t)
                          /\ \A c \in Compute : \E t \in v.targets : t.part = c
      OBVIOUS
    <2>2. row.at \in Nat /\ v.at = row.at
      BY <2>1, RowFacts DEF IInv, WorkSound
    <2>3. QED
      BY <2>1, <2>2 DEF WorkSound
  <1>8. v.kind = "reap" =>
        /\ v.disk # NoDisk /\ v.disk <= drawn
        /\ \A t \in v.targets : t.part = "disk" /\ t.disk = v.disk /\ ~t.retain
        /\ v.targets # {}
    <2>1. SUFFICES ASSUME v.kind = "reap"
                   PROVE  /\ v.disk # NoDisk /\ v.disk <= drawn
                          /\ \A t \in v.targets : t.part = "disk" /\ t.disk = v.disk /\ ~t.retain
                          /\ v.targets # {}
      OBVIOUS
    <2>2. /\ \A t \in v.targets : t.part = "disk" /\ t.disk = v.disk /\ ~t.retain
          /\ v.targets # {}
      BY <2>1 DEF WorkSound
    <2>3. PICK t \in v.targets : t.part = "disk" /\ t.disk = v.disk
      BY <2>2
    <2>4. v.disk # NoDisk /\ v.disk <= drawn
      BY <2>3 DEF WorkSound, Seen
    <2>5. QED
      BY <2>2, <2>4
  <1>9. QED
    BY <1>5, <1>6, <1>7, <1>8 DEF ExecSound

\* The executor past a target.
LEMMA BeyondSound ==
    ASSUME IInv, NEW e \in execs, ExecAct(e), Advances, TypeOK', NEW t \in e.left, NEW x \in Executors,
           t \in Targets, Acted(t), Beyond(x, e, t)
    PROVE  ExecSound(x)'
  <1>1. e \in Executors /\ ExecSound(e) /\ TypeOK
    BY DEF IInv, TypeOK, ExecsSound
  <1>2. ExecSound(e)'
    BY <1>1, ExecKept DEF IInv
  <1>3. x.work = e.work /\ x.left = e.left \ {t} /\ ~x.strike
    BY DEF Beyond
  <1>4. \A u \in x.left : Harmless(u)'
    BY <1>2, <1>3 DEF ExecSound
  <1>5. row' = row
    BY DEF ExecAct, database
  <1>6. ASSUME x.work.kind = "idle", x.work.at = row'.at
        PROVE  /\ row'.status = "shutting_down"
               /\ \A u \in x.left : Recorded(u)'
               /\ \A c \in Compute : (\A u \in x.left : u.part # c) => x.pending \/ objs'[<<c, row'.gen>>].phase = "none"
    <2>1. /\ row'.status = "shutting_down"
          /\ \A u \in e.left : Recorded(u)'
          /\ \A c \in Compute : (\A u \in e.left : u.part # c) => e.pending \/ objs'[<<c, row'.gen>>].phase = "none"
      BY <1>2, <1>3, <1>6 DEF ExecSound
    <2>2. ASSUME NEW c \in Compute, \A u \in x.left : u.part # c, ~x.pending
          PROVE  objs'[<<c, row.gen>>].phase = "none"
      <3>1. ~e.pending
        BY <2>2 DEF Beyond
      <3>2. CASE t.part # c
        BY <1>3, <1>5, <2>1, <2>2, <3>1, <3>2
      <3>3. CASE t.part = c
        <4>1. IsCompute(t) /\ ~Remains(t)
          BY <2>2, <3>3 DEF IsCompute, Beyond
        <4>2. Recorded(t)'
          BY <2>1
        <4>3. t.part # "disk"
          BY <3>3 DEF Compute
        <4>4. t.gen = row.gen /\ t.uid = row.uid[c]
          BY <1>5, <3>3, <4>2, <4>3 DEF Recorded
        <4>5. objs[<<c, row.gen>>].uid = row.uid[c]
          BY <1>5, <2>1 DEF IInv, DeploymentsSound, Placed, OneTenant, NoneAtRest, BuiltSoFar, Whole, UidsAgree
        <4>6. objs[<<c, row.gen>>].phase = "none"
          BY <3>3, <4>1, <4>4, <4>5 DEF Remains
        <4>7. QED
          BY <1>5, <2>1, <4>6 DEF Advances, ClusterAdvances
      <3>4. QED
        BY <3>2, <3>3
    <2>3. QED
      BY <1>3, <1>5, <2>1, <2>2
  <1>7. ASSUME x.work.kind = "reap"
        PROVE  /\ x.work.disk # NoDisk /\ x.work.disk <= drawn'
               /\ \A u \in x.left : u.part = "disk" /\ u.disk = x.work.disk /\ ~u.retain
               /\ x.left = {} => disks'[x.work.disk].phase = "gone"
    <2>1. /\ x.work.disk # NoDisk /\ x.work.disk <= drawn'
          /\ \A u \in e.left : u.part = "disk" /\ u.disk = x.work.disk /\ ~u.retain
      BY <1>2, <1>3, <1>7 DEF ExecSound
    <2>2. t.part = "disk" /\ t.disk = x.work.disk /\ ~t.retain
      BY <2>1
    <2>3. disks[t.disk].phase = "gone"
      BY <2>2 DEF Beyond, IsCompute, Compute, Reclaimed
    <2>4. Seen(t)
      BY <1>1 DEF ExecSound, Harmless
    <2>5. disks'[t.disk].phase = "gone"
      BY <1>1, <2>2, <2>3, <2>4, GoneKept
    <2>6. QED
      BY <1>3, <2>1, <2>2, <2>5
  <1>8. x.work.kind = "idle" => x.work.at <= row'.at
    BY <1>2, <1>3 DEF ExecSound
  <1>9. x.work.kind # "recovery" /\ x.work.born = x.work.kind
    BY <1>2, <1>3 DEF ExecSound
  <1>10. QED
    BY <1>3, <1>4, <1>6, <1>7, <1>8, <1>9 DEF ExecSound

LEMMA ExecsStep ==
    ASSUME IInv, [Next]_vars, TypeOK', Advances
    PROVE  ExecsSound'
  <1> USE DEF IInv
  <1>1. ASSUME NEW x \in Executors, ExecSound(x)
        PROVE  ExecSound(x)'
    BY <1>1, ExecKept
  <1>2. \A x \in execs : x \in Executors /\ ExecSound(x) /\ ExecSound(x)'
    BY <1>1 DEF ExecsSound, TypeOK
  <1>3. CASE \A x \in execs' : x \in execs \/ \E e \in execs : Onward(x, e)
    <2>1. \A x \in execs' : x \in Executors
      BY DEF TypeOK
    <2>2. ASSUME NEW x \in execs', NEW e \in execs, Onward(x, e)
          PROVE  ExecSound(x)'
      BY <1>1, <1>2, <2>1, <2>2, OnwardSound
    <2>3. QED
      BY <1>2, <1>3, <2>2 DEF ExecsSound
  <1>4. ASSUME NEW w \in works, ExecStart(w)
        PROVE  ExecsSound'
    <2>1. w.kind # "recovery" /\ Owns(w)
      BY <1>4 DEF ExecStart
    <2>2. PICK v \in Works, e \in Executors :
            /\ SameButTargets(v, w) /\ v.targets = {Capture(t) : t \in w.targets}
            /\ execs' = execs \cup {e} /\ e.work = v /\ e.left = v.targets /\ ~e.strike
      BY <1>4, StartTyped DEF Started
    <2>3. WorkSound(v)
      BY <2>2, StartedWork
    <2>4. ExecSound(e)
      BY <2>1, <2>2, <2>3, StartedExec
    <2>5. QED
      BY <1>1, <1>2, <2>2, <2>4 DEF ExecsSound
  <1>5. ASSUME NEW e \in execs, ExecAct(e)
        PROVE  ExecsSound'
    <2>1. PICK t \in e.left :
            t \in Targets /\ Acted(t) /\ \A x \in execs' : x \in execs \/ (x \in Executors /\ Beyond(x, e, t))
      BY <1>5, ActFacts
    <2>2. QED
      BY <1>2, <1>5, <2>1, BeyondSound DEF ExecsSound
  <1>6. CASE \E e \in execs : ExecCheck(e) \/ ExecDies(e) \/ LockLost(e)
    BY <1>3, <1>6, CheckTyped, BreakTyped
  <1>7. CASE \E e \in execs : ExecEnd(e)
    BY <1>3, <1>7 DEF ExecEnd
  <1>8. CASE Provision \/ MarkReady \/ Idle \/ Reap \/ Recover \/ AdmitSighting
    BY <1>3, <1>8 DEF Provision, MarkReady, Idle, Reap, Recover, AdmitSighting, workers
  <1>9. CASE \E b \in builders : BuildCreate(b) \/ BuildRecord(b) \/ BuildFails(b) \/ BuilderDies(b)
    BY <1>3, <1>9 DEF BuildCreate, BuildRecord, BuildFails, BuilderDies
  <1>10. CASE \/ \E call \in landing : Land(call)
              \/ \E c \in Compute, g \in Gens : ComputeGone(c, g)
              \/ \E d \in Disks : DiskGone(d)
              \/ \E t \in shutdowns : ShutdownAck(t)
    BY <1>3, <1>10 DEF Land, ComputeGone, DiskGone, ShutdownAck, workers
  <1>11. CASE \/ Condemn \/ Suspect \/ \E g \in Gens : Sight(g)
              \/ \E w \in works : PublishShutdown(w)
    BY <1>3, <1>11 DEF Condemn, Suspect, Sight, PublishShutdown, workers
  <1>12. CASE RescueStart \/ RescueCheck \/ RescueAct \/ RescueFinish \/ RescueFails \/ RescueDies \/ UNCHANGED vars
    BY <1>3, <1>12 DEF RescueStart, RescueCheck, RescueAct, RescueFinish, RescueFails, RescueDies, vars, workers
  <1>13. QED
    BY <1>4, <1>5, <1>6, <1>7, <1>8, <1>9, <1>10, <1>11, <1>12, NextCases

LEMMA RescueStep ==
    ASSUME IInv, [Next]_vars, TypeOK', Advances
    PROVE  RescueSound'
  <1> USE DEF IInv
  <1>1. ASSUME NEW t \in Targets, Past(t)
        PROVE  Past(t)'
    BY <1>1, PastKept
  <1>2. \A t \in rescue.strike \cup rescue.pending : t \in Targets /\ Past(t)' /\ ~t.retain
    BY <1>1 DEF RescueSound, TypeOK
  <1>3. CASE rescue'.strike \cup rescue'.pending \subseteq rescue.strike \cup rescue.pending
    BY <1>2, <1>3 DEF RescueSound
  <1>4. CASE rescue' = rescue
    BY <1>3, <1>4
  <1>5. CASE RescueCheck
    <2>1. rescue'.strike \cup rescue'.pending \subseteq Uncleaned \cup rescue.pending
      BY <1>5, RescueCheckTyped
    <2>2. ASSUME NEW t \in Uncleaned
          PROVE  Past(t)' /\ ~t.retain
      <3>1. PICK w \in works : w.kind = "recovery" /\ t \in w.targets
        BY DEF Uncleaned, Recoveries
      <3>2. t \in Targets
        BY <3>1 DEF TypeOK, Works
      <3>3. Past(t) /\ ~t.retain
        BY <3>1 DEF WorksSound, WorkSound
      <3>4. QED
        BY <1>1, <3>2, <3>3
    <2>3. QED
      BY <1>2, <2>1, <2>2 DEF RescueSound
  <1>6. CASE RescueStart \/ RescueAct
    BY <1>3, <1>6, RescueStartTyped, RescueActFacts
  <1>7. CASE RescueFinish \/ RescueFails \/ RescueDies
    BY <1>3, <1>7, NoRescueTyped DEF RescueFinish, RescueFails, RescueDies
  <1>8. CASE Provision \/ MarkReady \/ Idle \/ Reap \/ Recover \/ AdmitSighting
    BY <1>4, <1>8 DEF Provision, MarkReady, Idle, Reap, Recover, AdmitSighting, workers
  <1>9. CASE \E b \in builders : BuildCreate(b) \/ BuildRecord(b) \/ BuildFails(b) \/ BuilderDies(b)
    BY <1>4, <1>9 DEF BuildCreate, BuildRecord, BuildFails, BuilderDies
  <1>10. CASE \/ \E call \in landing : Land(call)
              \/ \E c \in Compute, g \in Gens : ComputeGone(c, g)
              \/ \E d \in Disks : DiskGone(d)
              \/ \E t \in shutdowns : ShutdownAck(t)
    BY <1>4, <1>10 DEF Land, ComputeGone, DiskGone, ShutdownAck, workers
  <1>11. CASE \/ Condemn \/ Suspect \/ \E g \in Gens : Sight(g)
              \/ \E w \in works : PublishShutdown(w) \/ ExecStart(w)
    BY <1>4, <1>11 DEF Condemn, Suspect, Sight, PublishShutdown, ExecStart, workers
  <1>12. CASE (\E e \in execs : ExecCheck(e) \/ ExecAct(e) \/ ExecEnd(e) \/ ExecDies(e) \/ LockLost(e)) \/ UNCHANGED vars
    BY <1>4, <1>12 DEF ExecCheck, ExecAct, ExecEnd, ExecDies, LockLost, vars, workers
  <1>13. QED
    BY <1>5, <1>6, <1>7, <1>8, <1>9, <1>10, <1>11, <1>12, NextCases

LEMMA SightingStep ==
    ASSUME IInv, [Next]_vars, TypeOK', Advances
    PROVE  SightingSound'
  <1> USE DEF IInv
  <1>1. ASSUME NEW t \in Targets, Seen(t)
        PROVE  Seen(t)'
    BY <1>1, SeenKept
  <1>2. CASE sighting' = sighting
    BY <1>1, <1>2 DEF SightingSound, TypeOK
  <1>3. ASSUME NEW g \in Gens, Sight(g)
        PROVE  SightingSound'
    <2>1. sighting'.seen = Inventory(g)
      BY <1>3, SightTyped
    <2>2. ASSUME NEW t \in Inventory(g)
          PROVE  Seen(t)' /\ ~t.retain /\ ~t.cleaned
      <3>1. /\ t \in Targets /\ ~t.retain /\ ~t.cleaned
            /\ t.part = "disk" => t.disk \in Disks /\ disks[t.disk].phase # "absent"
            /\ t.part # "disk" => /\ t.part \in Compute /\ t.gen = g
                                  /\ objs[<<t.part, g>>].phase # "none" /\ t.uid = objs[<<t.part, g>>].uid
        BY InventoryFacts
      <3>2. CASE t.part = "disk"
        <4>1. t.disk # NoDisk /\ t.disk <= drawn
          BY <3>1, <3>2, Numbers DEF DisksSound, DrawnDisks, OwnDisk, RecordedDisks
        <4>2. QED
          BY <1>1, <3>1, <3>2, <4>1 DEF Seen
      <3>3. CASE t.part # "disk"
        <4>1. t.gen <= row.gen
          BY <3>1, <3>3 DEF DeploymentsSound, Placed, OneTenant, NoneAtRest, BuiltSoFar, Whole, UidsAgree
        <4>2. PICK uid \in Nat : uid = objs[<<t.part, t.gen>>].uid
          BY <3>1, <3>3, ObjectTyped
        <4>3. t.uid <= uid
          BY <3>1, <3>3, <4>2
        <4>4. QED
          BY <1>1, <3>1, <3>3, <4>1, <4>2, <4>3 DEF Seen
      <3>4. QED
        BY <3>2, <3>3
    <2>3. QED
      BY <2>1, <2>2 DEF SightingSound
  <1>4. CASE AdmitSighting
    BY <1>4, AdmitTyped DEF SightingSound
  <1>5. CASE Provision \/ MarkReady \/ Idle \/ Reap \/ Recover
    BY <1>2, <1>5 DEF Provision, MarkReady, Idle, Reap, Recover, signals
  <1>6. CASE \E b \in builders : BuildCreate(b) \/ BuildRecord(b) \/ BuildFails(b) \/ BuilderDies(b)
    BY <1>2, <1>6 DEF BuildCreate, BuildRecord, BuildFails, BuilderDies, signals
  <1>7. CASE \/ \E call \in landing : Land(call)
             \/ \E c \in Compute, g \in Gens : ComputeGone(c, g)
             \/ \E d \in Disks : DiskGone(d)
             \/ \E t \in shutdowns : ShutdownAck(t)
    BY <1>2, <1>7 DEF Land, ComputeGone, DiskGone, ShutdownAck, signals
  <1>8. CASE Condemn \/ Suspect \/ \E w \in works : PublishShutdown(w) \/ ExecStart(w)
    BY <1>2, <1>8 DEF Condemn, Suspect, PublishShutdown, ExecStart, signals
  <1>9. CASE \E e \in execs : ExecCheck(e) \/ ExecAct(e) \/ ExecEnd(e) \/ ExecDies(e) \/ LockLost(e)
    BY <1>2, <1>9 DEF ExecCheck, ExecAct, ExecEnd, ExecDies, LockLost, signals
  <1>10. CASE RescueStart \/ RescueCheck \/ RescueAct \/ RescueFinish \/ RescueFails \/ RescueDies \/ UNCHANGED vars
    BY <1>2, <1>10 DEF RescueStart, RescueCheck, RescueAct, RescueFinish, RescueFails, RescueDies, vars, signals
  <1>11. QED
    BY <1>3, <1>4, <1>5, <1>6, <1>7, <1>8, <1>9, <1>10, NextCases

-----------------------------------------------------------------------------
\* The row and its record after a transaction.
LEMMA RecordState ==
    ASSUME TypeOK, NEW d \in Disks, NEW state, NEW bound, RecordIs(d, state, bound), row'.disk = d
    PROVE  PvcState' = state
  <1>1. d # NoDisk
    BY Numbers
  <1>2. QED
    BY <1>1 DEF RecordIs, PvcState

LEMMA MovedAgrees ==
    ASSUME TypeOK, RowAgrees, NEW status \in Statuses \ {"none"}, NEW state, MovedTo(status, state),
           drawn' = drawn, state \in DiskStates[status],
           status \in {"ready", "shutting_down", "stopped", "service"} => row.bound
    PROVE  RowAgrees' /\ PvcState' = state
  <1>1. RowIs(status, row.gen, row.at + 1, row.disk, row.bound, row.uid) /\ row.disk \in Disks
        /\ RecordIs(row.disk, state, pvcs[row.disk].bound)
    BY DEF MovedTo
  <1>2. row'.status = status /\ row'.disk = row.disk /\ row'.bound = row.bound
    BY <1>1 DEF RowIs
  <1>3. PvcState' = state
    BY <1>1, <1>2, RecordState
  <1>4. row.disk # NoDisk /\ row.disk <= drawn
    BY <1>1, RowFacts DEF RowAgrees
  <1>5. QED
    BY <1>2, <1>3, <1>4 DEF RowAgrees

LEMMA RowAgreesStep ==
    ASSUME IInv, [Next]_vars
    PROVE  RowAgrees'
  <1> USE DEF IInv
  <1>1. CASE UNCHANGED <<row, pvcs, drawn>>
    BY <1>1 DEF RowAgrees, PvcState
  <1>2. CASE Provision
    <2>1. Provisioned
      BY <1>2, ProvisionFacts
    <2>2. row'.status = "creating" /\ row'.disk = Assigned /\ Assigned \in Disks
      BY <2>1 DEF Provisioned, RowIs
    <2>3. PvcState' = "attaching"
      BY <2>1, <2>2, RecordState DEF Provisioned
    <2>4. Assigned # NoDisk
      BY <2>2, Numbers
    <2>5. Assigned <= drawn'
      BY <1>2, RowFacts DEF Provision, Assigned, RowAgrees
    <2>6. QED
      BY <2>2, <2>3, <2>4, <2>5 DEF RowAgrees, DiskStates
  <1>3. CASE MarkReady
    <2>1. MovedTo("ready", "attached") /\ row.bound /\ drawn' = drawn
      BY <1>3, ReadyTyped DEF MarkReady, bounds
    <2>2. QED
      BY <2>1, MovedAgrees DEF Statuses, DiskStates
  <1>4. CASE Idle
    <2>1. MovedTo("shutting_down", "detaching") /\ drawn' = drawn
      BY <1>4, IdleTyped DEF Idle, bounds
    <2>2. row.bound
      BY <1>4 DEF Idle, RowAgrees
    <2>3. QED
      BY <2>1, <2>2, MovedAgrees DEF Statuses, DiskStates
  <1>5. CASE Reap
    <2>1. row' = row /\ row.disk \in Disks /\ RecordIs(row.disk, "destroying", pvcs[row.disk].bound) /\ drawn' = drawn
          /\ row.status = "stopped"
      BY <1>5, ReapTyped DEF Reap, bounds
    <2>2. PvcState' = "destroying"
      BY <2>1, RecordState
    <2>3. QED
      BY <2>1, <2>2 DEF RowAgrees, DiskStates
  <1>6. CASE Recover
    <2>1. row'.status = "recovering" /\ row'.disk = NoDisk
      BY <1>6, RecoverFacts DEF Condemned, RowIs
    <2>2. QED
      BY <2>1 DEF RowAgrees
  <1>7. CASE AdmitSighting
    <2>1. pvcs' = pvcs /\ drawn' = drawn
      BY <1>7 DEF AdmitSighting, bounds
    <2>2. CASE Serviced
      <3>1. /\ row'.status = "service" /\ row'.disk = row.disk /\ row'.bound = row.bound
            /\ row.status = "stopped" /\ PvcState \in {"none", "detached"}
        BY <2>2 DEF Serviced, RowIs
      <3>2. PvcState' = PvcState
        BY <2>1, <3>1 DEF PvcState
      <3>3. row.disk # NoDisk => row.disk <= drawn /\ PvcState = "detached" /\ row.bound
        BY <3>1 DEF RowAgrees, DiskStates
      <3>4. QED
        BY <2>1, <3>1, <3>2, <3>3 DEF RowAgrees, DiskStates
    <2>3. CASE row' = row
      BY <1>1, <2>1, <2>3
    <2>4. QED
      BY <1>7, <2>2, <2>3, AdmitTyped DEF Orphaned
  <1>8. ASSUME NEW b \in builders, BuildCreate(b) \/ BuildRecord(b) \/ BuildFails(b) \/ BuilderDies(b)
        PROVE  RowAgrees'
    <2>1. drawn' = drawn
      BY <1>8 DEF BuildCreate, BuildRecord, BuildFails, BuilderDies, bounds
    <2>2. CASE row' = row /\ pvcs' = pvcs
      BY <1>1, <2>1, <2>2
    <2>3. CASE BuildRecord(b) /\ Holds(b)
      <3>1. Learned(b) /\ row.status = "creating" /\ b.disk = row.disk
        BY <2>3, LearnedFacts DEF Holds, BuildersSound, Building
      <3>2. row'.status = "creating" /\ row'.disk = row.disk
        BY <3>1 DEF Learned
      <3>3. PvcState' = PvcState
        <4>1. CASE b.stage = "disk"
          <5>1. RecordIs(b.disk, pvcs[b.disk].state, TRUE)
            BY <3>1, <4>1 DEF Learned
          <5>2. row.disk # NoDisk
            BY <3>1 DEF RowAgrees
          <5>3. QED
            BY <3>1, <3>2, <5>1, <5>2 DEF RecordIs, PvcState
        <4>2. CASE b.stage # "disk"
          BY <3>1, <3>2, <4>2 DEF Learned, PvcState
        <4>3. QED
          BY <4>1, <4>2
      <3>4. QED
        BY <2>1, <3>1, <3>2, <3>3 DEF RowAgrees
    <2>4. CASE BuildFails(b) /\ Holds(b)
      <3>1. row.disk # NoDisk /\ row.disk = b.disk
        BY <2>4 DEF BuildersSound, Building, Holds, RowAgrees
      <3>2. MovedTo("failed", "failed")
        BY <2>4, <3>1, MovedToFacts DEF BuildFails, Statuses, PvcStates
      <3>3. QED
        BY <2>1, <3>2, MovedAgrees DEF Statuses, DiskStates
    <2>5. QED
      BY <1>8, <2>2, <2>3, <2>4 DEF BuildCreate, BuildRecord, BuildFails, BuilderDies, database
  <1>9. ASSUME NEW e \in execs, ExecEnd(e)
        PROVE  RowAgrees'
    <2>1. drawn' = drawn
      BY <1>9 DEF ExecEnd, bounds
    <2>2. CASE row' = row /\ pvcs' = pvcs
      BY <1>1, <2>1, <2>2
    <2>3. CASE EndedIdle(e)
      <3>1. /\ row.status = "shutting_down" /\ row.disk \in Disks
            /\ RecordIs(row.disk, "detached", pvcs[row.disk].bound)
            /\ row'.status = "stopped" /\ row'.disk = row.disk /\ row'.bound = row.bound
        BY <2>3 DEF EndedIdle, Stopped, RowIs
      <3>2. PvcState' = "detached"
        BY <3>1, RecordState
      <3>3. QED
        BY <2>1, <3>1, <3>2 DEF RowAgrees, DiskStates
    <2>4. CASE EndedReap(e)
      BY <2>4 DEF EndedReap, RowIs, RowAgrees
    <2>5. CASE EndedService(e)
      <3>1. /\ row.status = "service" /\ pvcs' = pvcs
            /\ row'.status = "stopped" /\ row'.disk = row.disk /\ row'.bound = row.bound
        BY <2>5 DEF EndedService, Stopped, RowIs
      <3>2. PvcState' = PvcState
        BY <3>1 DEF PvcState
      <3>3. QED
        BY <2>1, <3>1, <3>2 DEF RowAgrees, DiskStates
    <2>6. QED
      BY <1>9, <2>2, <2>3, <2>4, <2>5, EndTyped DEF Ended, EndedOrphan
  <1>10. CASE RescueFinish
    <2>1. /\ drawn + 1 \in Disks /\ row'.status = "creating" /\ row'.disk = drawn + 1
          /\ pvcs'[drawn + 1].state = "attaching" /\ drawn' = drawn + 1
      BY <1>10, RescueFacts DEF Rescued, RowIs, RescueFinish
    <2>2. drawn + 1 # NoDisk /\ drawn + 1 <= drawn'
      BY <2>1, RowFacts
    <2>3. PvcState' = "attaching"
      BY <2>1, <2>2 DEF PvcState
    <2>4. QED
      BY <2>1, <2>2, <2>3 DEF RowAgrees, DiskStates
  <1>11. CASE RescueFails \/ RescueDies
    <2>1. drawn' = drawn /\ pvcs' = pvcs
      BY <1>11 DEF RescueFails, RescueDies, database
    <2>2. CASE row' = row
      BY <1>1, <2>1, <2>2
    <2>3. CASE GivenUp
      <3>1. row'.status = "failed" /\ row'.disk = row.disk /\ row.status = "recovering"
        BY <2>3 DEF GivenUp, RowIs
      <3>2. row.disk = NoDisk
        BY <3>1 DEF RowAgrees, DiskStates
      <3>3. QED
        BY <3>1, <3>2 DEF RowAgrees
    <2>4. QED
      BY <1>11, <2>2, <2>3, RescueEndsTyped
  <1>12. CASE \/ \E call \in landing : Land(call)
              \/ \E c \in Compute, g \in Gens : ComputeGone(c, g)
              \/ \E d \in Disks : DiskGone(d)
              \/ \E e \in execs : ExecAct(e)
    BY <1>1, <1>12 DEF Land, ComputeGone, DiskGone, ExecAct, database, bounds
  <1>13. CASE \/ Condemn \/ Suspect \/ \E g \in Gens : Sight(g)
              \/ \E w \in works : PublishShutdown(w) \/ ExecStart(w)
              \/ \E t \in shutdowns : ShutdownAck(t)
    BY <1>1, <1>13 DEF Condemn, Suspect, Sight, PublishShutdown, ExecStart, ShutdownAck, database, bounds
  <1>14. CASE \/ \E e \in execs : ExecCheck(e) \/ ExecDies(e) \/ LockLost(e)
              \/ RescueStart \/ RescueCheck \/ RescueAct \/ UNCHANGED vars
    BY <1>1, <1>14 DEF ExecCheck, ExecDies, LockLost, RescueStart, RescueCheck, RescueAct, vars, database, bounds
  <1>15. QED
    BY <1>2, <1>3, <1>4, <1>5, <1>6, <1>7, <1>8, <1>9, <1>10, <1>11, <1>12, <1>13, <1>14, NextCases

-----------------------------------------------------------------------------
(* The bounds: what a sandbox id and a disk cost. *)

LEMMA OrdinaryGrows ==
    ASSUME TypeOK, faults' \in Nat, faults <= faults'
    PROVE  /\ Ordinary \in Nat /\ Ordinary' \in Nat /\ Ordinary <= Ordinary'
           /\ faults < MaxFaults /\ faults' = faults + 1 => Ordinary' = Ordinary + 1
  BY LifecycleAssumption DEF TypeOK, Ordinary, LifecycleAssumption

LEMMA Loosened ==
    ASSUME NEW d \in Nat, NEW r \in Nat, NEW a \in Nat, NEW b \in Nat, a <= b
    PROVE  /\ d <= r + a => d <= r + b
           /\ d <= 1 + r + a => d <= 1 + r + b
           /\ d + 1 <= r + a => d + 1 <= r + b
  OBVIOUS

\* No new sandbox id and no new disk.
LEMMA BoundsKeep ==
    ASSUME TypeOK, WithinBounds, faults' \in Nat, faults <= faults', faults' <= MaxFaults + MaxRescueFaults,
           resumes' = resumes, drawn' = drawn, row'.gen = row.gen, verdicts' \subseteq verdicts \cup {row.gen},
           row'.status = "none" => row.status = "none" /\ verdicts' = verdicts,
           row'.status = "recovering" => row.status = "recovering",
           \/ Spent' => Spent \/ (row.status = "recovering" /\ faults < faults')
           \/ faults < MaxFaults /\ faults' = faults + 1,
           \/ row'.status = "recovering" => verdicts' = verdicts
           \/ faults < MaxFaults /\ faults' = faults + 1
    PROVE  WithinBounds'
  <1>1. PICK before \in Nat, after \in Nat :
          /\ before = Ordinary /\ after = Ordinary' /\ before <= after
          /\ faults < MaxFaults /\ faults' = faults + 1 => after = before + 1
    BY OrdinaryGrows
  <1>2. row.gen \in Nat /\ drawn \in Nat /\ resumes \in Nat /\ faults \in Nat
    BY RowFacts DEF TypeOK
  <1>3. \A g \in verdicts' : g <= row'.gen
    BY <1>2 DEF WithinBounds
  <1>4. row'.gen <= faults' + 1 /\ (Spent' => row'.gen <= faults')
    BY <1>2 DEF WithinBounds
  <1>5. row'.status = "none" => drawn' = 0 /\ row'.gen \notin verdicts'
    BY DEF WithinBounds
  <1>6. drawn <= 1 + resumes + Ordinary
    BY DEF WithinBounds
  <1>7. drawn' <= 1 + resumes' + Ordinary'
    <2>1. drawn <= 1 + resumes + before
      BY <1>1, <1>6
    <2>2. drawn <= 1 + resumes + after
      BY <1>1, <1>2, <2>1, Loosened
    <2>3. QED
      BY <1>1, <2>2
  <1>8. Spent' \/ row'.status = "recovering" => drawn' <= resumes' + Ordinary'
    <2>1. CASE Spent \/ row.status = "recovering"
      <3>1. drawn <= resumes + before
        BY <1>1, <2>1 DEF WithinBounds
      <3>2. drawn <= resumes + after
        BY <1>1, <1>2, <3>1, Loosened
      <3>3. QED
        BY <1>1, <3>2
    <2>2. CASE faults < MaxFaults /\ faults' = faults + 1
      BY <1>1, <1>2, <1>6, <2>2
    <2>3. QED
      BY <2>1, <2>2
  <1>9. row'.gen \in verdicts' /\ row'.status = "recovering" => drawn' + 1 <= resumes' + Ordinary'
    <2>1. SUFFICES ASSUME row'.gen \in verdicts', row'.status = "recovering"
                   PROVE  drawn' + 1 <= resumes' + Ordinary'
      OBVIOUS
    <2>2. CASE verdicts' = verdicts
      <3>1. drawn + 1 <= resumes + before
        BY <1>1, <2>1, <2>2 DEF WithinBounds
      <3>2. drawn + 1 <= resumes + after
        BY <1>1, <1>2, <3>1, Loosened
      <3>3. QED
        BY <1>1, <3>2
    <2>3. CASE faults < MaxFaults /\ faults' = faults + 1
      <3>1. drawn <= resumes + Ordinary
        BY <2>1 DEF WithinBounds
      <3>2. QED
        BY <1>1, <1>2, <2>3, <3>1
    <2>4. QED
      BY <2>1, <2>2, <2>3
  <1>10. faults' <= MaxFaults + MaxRescueFaults /\ resumes' <= MaxResumes
    BY DEF WithinBounds
  <1>11. QED
    BY <1>3, <1>4, <1>5, <1>7, <1>8, <1>9, <1>10 DEF WithinBounds

\* A claim that has a builder is not lost.
LEMMA HeldIsKept ==
    ASSUME NEW b \in builders', Holds(b)', row'.status = "creating"
    PROVE  Spent' => row'.gen \in verdicts'
  BY DEF Spent, Lost

LEMMA FaultFacts ==
    ASSUME TypeOK, Fault \/ RescueFault
    PROVE  /\ faults' \in Nat /\ faults < faults' /\ faults <= faults' /\ faults' <= MaxFaults + MaxRescueFaults
           /\ faults' = faults + 1 /\ (Fault => faults < MaxFaults)
  BY LifecycleAssumption DEF TypeOK, Fault, RescueFault, LifecycleAssumption

LEMMA BoundsStep ==
    ASSUME IInv, [Next]_vars, TypeOK'
    PROVE  WithinBounds'
  <1> USE DEF IInv
  <1>0. /\ row.gen \in Nat /\ drawn \in Nat /\ resumes \in Nat /\ faults \in Nat
        /\ faults <= faults /\ faults <= MaxFaults + MaxRescueFaults /\ resumes <= MaxResumes
        /\ Ordinary \in Nat
    BY RowFacts, LifecycleAssumption DEF TypeOK, WithinBounds, Ordinary, LifecycleAssumption
  <1>1. CASE UNCHANGED <<row, builders, verdicts, faults, resumes, drawn>>
    BY <1>1 DEF WithinBounds, Spent, Lost, Holds, Ordinary
  <1>2. CASE Provision
    <2>1. Provisioned /\ row.status \in {"none", "stopped"} /\ faults' = faults /\ verdicts' = verdicts
      BY <1>2, ProvisionFacts DEF Provision, signals
    <2>2. row'.status = "creating" /\ row'.gen = row.gen /\ row'.at = row.at + 1
      BY <2>1 DEF Provisioned, RowIs
    <2>3. Spent' => row.gen \in verdicts
      <3>1. PICK b \in Builders : b.gen = row.gen /\ b.at = row.at + 1 /\ b \in builders'
        BY <1>2, <2>1, BuilderTyped DEF Provision, Provisioned, Assigned, TypeOK
      <3>2. Holds(b)'
        BY <2>2, <3>1 DEF Holds
      <3>3. QED
        BY <2>1, <2>2, <3>1, <3>2, HeldIsKept
    <2>4. Ordinary' = Ordinary
      BY <2>1 DEF Ordinary
    <2>5. CASE row.status = "none"
      <3>1. drawn = 0 /\ row.gen \notin verdicts /\ drawn' <= 1 /\ resumes' = resumes
        BY <1>0, <1>2, <2>5 DEF WithinBounds, Provision
      <3>2. ~Spent'
        BY <2>3, <3>1
      <3>3. drawn' <= 1 + resumes' + Ordinary'
        BY <1>0, <2>4, <3>1 DEF TypeOK
      <3>4. QED
        BY <1>0, <2>1, <2>2, <3>1, <3>2, <3>3 DEF WithinBounds
    <2>6. CASE row.status = "stopped"
      <3>1. drawn' <= drawn + 1 /\ resumes' = resumes + 1 /\ resumes' <= MaxResumes /\ drawn' \in Nat
        BY <1>0, <1>2, <2>6, LifecycleAssumption DEF Provision, TypeOK, LifecycleAssumption
      <3>2. drawn <= 1 + resumes + Ordinary /\ (row.gen \in verdicts => drawn <= resumes + Ordinary)
        BY DEF WithinBounds, Spent
      <3>3. drawn' <= 1 + resumes' + Ordinary'
        BY <1>0, <2>4, <3>1, <3>2
      <3>4. Spent' => drawn' <= resumes' + Ordinary'
        BY <1>0, <2>3, <2>4, <3>1, <3>2
      <3>5. row.gen <= faults + 1 /\ (row.gen \in verdicts => row.gen <= faults) /\ \A g \in verdicts : g <= row.gen
        BY DEF WithinBounds, Spent
      <3>6. QED
        BY <1>0, <2>1, <2>2, <2>3, <3>1, <3>3, <3>4, <3>5 DEF WithinBounds
    <2>7. QED
      BY <2>1, <2>5, <2>6
  <1>3. ASSUME NEW status \in Statuses \ {"none", "creating", "failed", "recovering"},
               row'.status = status, row'.gen = row.gen,
               UNCHANGED <<verdicts, faults, resumes, drawn>>
        PROVE  WithinBounds'
    <2>1. Spent' => Spent
      BY <1>3 DEF Spent, Lost
    <2>2. QED
      BY <1>0, <1>3, <2>1, BoundsKeep
  <1>4. CASE MarkReady
    <2>1. row'.status = "ready" /\ row'.gen = row.gen
      BY <1>4, ReadyTyped DEF MovedTo, RowIs
    <2>2. QED
      BY <1>3, <1>4, <2>1 DEF MarkReady, Statuses, signals, bounds
  <1>5. CASE Idle
    <2>1. row'.status = "shutting_down" /\ row'.gen = row.gen
      BY <1>5, IdleTyped DEF MovedTo, RowIs
    <2>2. QED
      BY <1>3, <1>5, <2>1 DEF Idle, Statuses, signals, bounds
  <1>6. CASE Recover
    <2>1. row'.status = "recovering" /\ row'.gen = row.gen + 1
      BY <1>6, RecoverFacts DEF Condemned, RowIs
    <2>2. UNCHANGED <<verdicts, faults, resumes, drawn>> /\ row.gen \in verdicts
      BY <1>6 DEF Recover, signals, bounds
    <2>3. \A g \in verdicts : g <= row.gen
      BY DEF WithinBounds
    <2>4. verdicts \subseteq Nat
      BY DEF TypeOK
    <2>5. row.gen + 1 \notin verdicts
      BY <1>0, <2>3
    <2>6. ~Spent'
      BY <2>1, <2>2, <2>5 DEF Spent, Lost
    <2>7. row.gen <= faults /\ drawn <= resumes + Ordinary
      BY <2>2 DEF WithinBounds, Spent
    <2>8. Ordinary' = Ordinary
      BY <2>2 DEF Ordinary
    <2>9. \A g \in verdicts' : g <= row'.gen
      <3>1. ASSUME NEW g \in verdicts PROVE g <= row.gen + 1
        <4>1. g <= row.gen /\ g \in Nat
          BY <2>3, <2>4
        <4>2. QED
          BY <1>0, <4>1
      <3>2. QED
        BY <2>1, <2>2, <3>1
    <2>10. drawn' <= 1 + resumes' + Ordinary' /\ drawn' <= resumes' + Ordinary'
      BY <1>0, <2>2, <2>7, <2>8
    <2>11. row'.gen <= faults' + 1
      BY <1>0, <2>1, <2>2, <2>7
    <2>12. QED
      BY <1>0, <2>1, <2>2, <2>5, <2>6, <2>9, <2>10, <2>11 DEF WithinBounds
  <1>7. CASE AdmitSighting
    <2>1. UNCHANGED <<verdicts, faults, resumes, drawn, builders>>
      BY <1>7 DEF AdmitSighting, workers, bounds
    <2>2. CASE Serviced
      <3>1. row'.status = "service" /\ row'.gen = row.gen
        BY <2>2 DEF Serviced, RowIs
      <3>2. QED
        BY <1>3, <2>1, <3>1 DEF Statuses
    <2>3. CASE row' = row
      BY <1>1, <2>1, <2>3
    <2>4. QED
      BY <1>7, <2>2, <2>3, AdmitTyped DEF Orphaned
  <1>8. ASSUME NEW b \in builders, BuildFails(b) \/ BuilderDies(b)
        PROVE  WithinBounds'
    <2>1. Fault /\ UNCHANGED <<verdicts, resumes, drawn>>
      BY <1>8 DEF BuildFails, BuilderDies, signals
    <2>2. row' = row \/ (row'.status = "failed" /\ row'.gen = row.gen)
      <3>1. CASE BuilderDies(b) \/ ~Holds(b)
        BY <1>8, <3>1 DEF BuilderDies, BuildFails, database
      <3>2. CASE BuildFails(b) /\ Holds(b)
        BY <3>2, MovedTyped DEF BuildFails, TypeOK, Statuses
      <3>3. QED
        BY <1>8, <3>1, <3>2
    <2>3. QED
      BY <1>0, <2>1, <2>2, FaultFacts, BoundsKeep
  <1>9. ASSUME NEW b \in builders, BuildCreate(b) \/ BuildRecord(b)
        PROVE  WithinBounds'
    <2>1. UNCHANGED <<verdicts, faults, resumes, drawn>>
      BY <1>9 DEF BuildCreate, BuildRecord, signals, bounds
    <2>2. b \in Builders
      BY DEF TypeOK
    <2>3. CASE ~Holds(b)
      <3>1. row' = row /\ builders' = builders \ {b}
        BY <1>9, <2>3 DEF BuildCreate, BuildRecord, database
      <3>2. Spent' => Spent
        BY <2>1, <2>3, <3>1 DEF Spent, Lost, Holds
      <3>3. QED
        BY <1>0, <2>1, <3>1, <3>2, BoundsKeep
    <2>4. CASE Holds(b)
      <3>1. row'.status = "creating" /\ row.status = "creating" /\ row'.gen = row.gen /\ row'.at = row.at
        BY <1>9, <2>4, LearnedFacts DEF BuildCreate, Learned, Holds, database
      <3>2. Spent' => Spent
        <4>1. CASE \E c \in builders' : c.gen = b.gen /\ c.at = b.at
          <5>1. PICK c \in builders' : c.gen = b.gen /\ c.at = b.at
            BY <4>1
          <5>2. Holds(c)'
            BY <2>4, <3>1, <5>1 DEF Holds
          <5>3. QED
            BY <2>1, <3>1, <5>2, HeldIsKept DEF Spent
        <4>2. CASE BuildCreate(b)
          <5>1. \/ builders' = (builders \ {b}) \cup {[b EXCEPT !.issued = TRUE]}
                \/ builders' = (builders \ {b}) \cup Advanced(b) /\ b.stage = "disk"
            BY <2>4, <4>2 DEF BuildCreate
          <5>2. QED
            BY <2>2, <4>1, <5>1, IssuedBuilder, AdvancedBuilder
        <4>3. CASE BuildRecord(b) /\ b.stage # "ipc"
          <5>1. builders' = (builders \ {b}) \cup Advanced(b)
            BY <2>4, <4>3 DEF BuildRecord
          <5>2. QED
            BY <2>2, <4>1, <4>3, <5>1, AdvancedBuilder
        <4>4. CASE BuildRecord(b) /\ b.stage = "ipc"
          <5>1. Learned(b) /\ Building(b) /\ b.gen = row.gen
            BY <2>4, <4>4, LearnedFacts DEF BuildersSound, Holds
          <5>2. row'.uid["ipc"] = objs[<<"ipc", row.gen>>].uid /\ row'.uid["guest"] = row.uid["guest"]
            BY <4>4, <5>1 DEF Learned, Compute
          <5>3. row.uid["guest"] # NoUid
            BY <4>4, <5>1 DEF Building
          <5>4. objs[<<"ipc", row.gen>>].phase = "up"
            BY <4>4, <5>1 DEF BuildRecord, Intact
          <5>5. objs[<<"ipc", row.gen>>].uid # NoUid
            BY <5>4, RowFacts DEF DeploymentsSound, Placed, OneTenant, NoneAtRest, BuiltSoFar, Whole, UidsAgree, Compute
          <5>6. ~Lost'
            BY <5>2, <5>3, <5>5 DEF Lost, Compute
          <5>7. QED
            BY <2>1, <3>1, <5>6 DEF Spent
        <4>5. QED
          BY <1>9, <4>2, <4>3, <4>4
      <3>3. QED
        BY <1>0, <2>1, <3>1, <3>2, BoundsKeep
    <2>5. QED
      BY <2>3, <2>4
  <1>10. ASSUME NEW e \in execs, ExecEnd(e)
         PROVE  WithinBounds'
    <2>1. UNCHANGED <<verdicts, faults, resumes, drawn, builders>>
      BY <1>10 DEF ExecEnd, signals, bounds
    <2>2. CASE row' = row
      BY <1>1, <2>1, <2>2
    <2>3. CASE EndedIdle(e) \/ EndedReap(e) \/ EndedService(e)
      <3>1. row'.status = "stopped" /\ row'.gen = row.gen
        BY <2>3 DEF EndedIdle, EndedReap, EndedService, Stopped, RowIs
      <3>2. QED
        BY <1>3, <2>1, <3>1 DEF Statuses
    <2>4. QED
      BY <1>10, <2>2, <2>3, EndTyped DEF Ended, EndedOrphan
  <1>11. CASE RescueFinish
    <2>1. Rescued /\ row.status = "recovering" /\ drawn' = drawn + 1 /\ UNCHANGED <<faults, resumes, verdicts>>
      BY <1>11, RescueFacts DEF RescueFinish, Standing, signals
    <2>2. row'.status = "creating" /\ row'.gen = row.gen /\ row'.at = row.at + 2
      BY <2>1 DEF Rescued, RowIs
    <2>3. Spent' => row.gen \in verdicts
      <3>1. PICK b \in builders' : b.gen = row.gen /\ b.at = row.at + 2
        BY <2>1 DEF Rescued
      <3>2. Holds(b)'
        BY <2>2, <3>1 DEF Holds
      <3>3. QED
        BY <2>1, <2>2, <3>2, HeldIsKept
    <2>4. Ordinary' = Ordinary
      BY <2>1 DEF Ordinary
    <2>5. drawn <= resumes + Ordinary /\ (row.gen \in verdicts => drawn + 1 <= resumes + Ordinary)
      BY <2>1 DEF WithinBounds
    <2>6. drawn' <= 1 + resumes' + Ordinary' /\ (Spent' => drawn' <= resumes' + Ordinary')
      BY <1>0, <2>1, <2>3, <2>4, <2>5
    <2>7. row.gen <= faults + 1 /\ (row.gen \in verdicts => row.gen <= faults) /\ \A g \in verdicts : g <= row.gen
      BY DEF WithinBounds, Spent
    <2>8. QED
      BY <1>0, <2>1, <2>2, <2>3, <2>6, <2>7 DEF WithinBounds
  <1>12. CASE RescueFails \/ RescueDies
    <2>1. RescueFault /\ UNCHANGED <<builders, verdicts, resumes, drawn>>
      BY <1>12 DEF RescueFails, RescueDies, signals
    <2>2. CASE row' = row
      <3>1. Spent' => Spent
        BY <2>1, <2>2 DEF Spent, Lost, Holds
      <3>2. QED
        BY <1>0, <2>1, <2>2, <3>1, FaultFacts, BoundsKeep
    <2>3. CASE GivenUp
      <3>1. row'.status = "failed" /\ row'.gen = row.gen /\ row.status = "recovering"
        BY <2>3 DEF GivenUp, RowIs
      <3>2. QED
        BY <1>0, <2>1, <3>1, FaultFacts, BoundsKeep
    <2>4. QED
      BY <1>12, <2>2, <2>3, RescueEndsTyped
  <1>13. CASE Condemn
    <2>1. /\ verdicts' = verdicts \cup {row.gen} /\ UNCHANGED <<row, builders, faults, resumes, drawn>>
          /\ row.status \in {"failed", "creating"} /\ Spent
      BY <1>13 DEF Condemn, Spent, Lost, database, workers, bounds
    <2>2. QED
      BY <1>0, <2>1, BoundsKeep
  <1>14. CASE Suspect
    <2>1. /\ verdicts' = verdicts \cup {row.gen} /\ UNCHANGED <<row, resumes, drawn>> /\ Fault
          /\ row.status # "none"
      BY <1>14 DEF Suspect, database
    <2>2. QED
      BY <1>0, <2>1, FaultFacts, BoundsKeep
  <1>15. ASSUME NEW e \in execs, ExecDies(e) \/ LockLost(e)
         PROVE  WithinBounds'
    <2>1. Fault /\ UNCHANGED <<row, builders, verdicts, resumes, drawn>>
      BY <1>15 DEF ExecDies, LockLost, database, signals
    <2>2. QED
      BY <1>0, <2>1, FaultFacts, BoundsKeep
  <1>16. CASE \/ \E call \in landing : Land(call)
              \/ \E c \in Compute, g \in Gens : ComputeGone(c, g)
              \/ \E d \in Disks : DiskGone(d)
              \/ \E e \in execs : ExecCheck(e) \/ ExecAct(e)
    BY <1>1, <1>16 DEF Land, ComputeGone, DiskGone, ExecCheck, ExecAct, database, workers, signals, bounds
  <1>17. CASE \/ Reap \/ \E g \in Gens : Sight(g)
              \/ \E w \in works : PublishShutdown(w) \/ ExecStart(w)
              \/ \E t \in shutdowns : ShutdownAck(t)
              \/ RescueStart \/ RescueCheck \/ RescueAct \/ UNCHANGED vars
    BY <1>1, <1>17 DEF Reap, Sight, PublishShutdown, ExecStart, ShutdownAck, RescueStart, RescueCheck, RescueAct,
       vars, database, workers, signals, bounds
  <1>18. QED
    BY <1>2, <1>4, <1>5, <1>6, <1>7, <1>8, <1>9, <1>10, <1>11, <1>12, <1>13, <1>14, <1>15, <1>16, <1>17, NextCases

-----------------------------------------------------------------------------
(* The builders. *)

LEMMA BuilderNumbers ==
    ASSUME TypeOK, NEW b \in builders
    PROVE  b \in Builders /\ b.at \in Nat /\ b.gen \in Gens /\ b.gen \in Nat /\ b.disk \in Disks
  BY Numbers DEF TypeOK, Builders

\* Once the row has moved on, no builder of before holds its claim.
LEMMA BuildersLeft ==
    ASSUME TypeOK, BuildersSound, row'.at \in Nat, row.at < row'.at, builders' \subseteq builders
    PROVE  BuildersSound'
  <1>1. row.at \in Nat
    BY RowFacts
  <1>2. ASSUME NEW b \in builders'
        PROVE  b.at <= row'.at /\ b.at # row'.at
    <2>1. b.at \in Nat /\ b.at <= row.at
      BY BuilderNumbers DEF BuildersSound
    <2>2. QED
      BY <1>1, <2>1
  <1>3. \A b \in builders' : ~Holds(b)'
    BY <1>2 DEF Holds
  <1>4. \A a, b \in builders' : a.at = b.at => a = b
    BY DEF BuildersSound
  <1>5. QED
    BY <1>2, <1>3, <1>4 DEF BuildersSound

\* Unless it is the one of the new claim.
LEMMA BuildersJoined ==
    ASSUME TypeOK, BuildersSound, row'.at \in Nat, row.at < row'.at, NEW n, builders' = builders \cup {n},
           n.at = row'.at, Building(n)'
    PROVE  BuildersSound'
  <1>1. row.at \in Nat
    BY RowFacts
  <1>2. ASSUME NEW b \in builders
        PROVE  b.at <= row'.at /\ b.at # row'.at
    <2>1. b.at \in Nat /\ b.at <= row.at
      BY BuilderNumbers DEF BuildersSound
    <2>2. QED
      BY <1>1, <2>1
  <1>3. \A b \in builders : ~Holds(b)'
    BY <1>2 DEF Holds
  <1>4. n.at <= row'.at
    OBVIOUS
  <1>5. \A a, b \in builders' : a.at = b.at => a = b
    BY <1>2 DEF BuildersSound
  <1>6. QED
    BY <1>2, <1>3, <1>4, <1>5 DEF BuildersSound

\* The builder of the claim goes on.
LEMMA BuildersGoOn ==
    ASSUME TypeOK, BuildersSound, row'.at = row.at, row'.gen = row.gen, NEW b \in builders, Holds(b),
           NEW S, builders' = (builders \ {b}) \cup S,
           \A c \in S : c.at = b.at /\ Building(c)', \A c, d \in S : c = d
    PROVE  BuildersSound'
  <1>1. b.at = row.at
    BY DEF Holds
  <1>2. \A a \in builders \ {b} : a.at # b.at /\ a.at <= row.at
    BY DEF BuildersSound
  <1>3. \A a \in builders \ {b} : ~Holds(a)'
    BY <1>1, <1>2 DEF Holds
  <1>4. b.at <= row.at
    BY DEF BuildersSound
  <1>5. \A c \in builders' : c.at <= row'.at
    BY <1>2, <1>4
  <1>6. \A c, d \in builders' : c.at = d.at => c = d
    BY <1>2 DEF BuildersSound
  <1>7. QED
    BY <1>3, <1>5, <1>6 DEF BuildersSound

\* The row stays: only the disk of a claim that is about to be cloned matters.
LEMMA BuildersStay ==
    ASSUME BuildersSound, row' = row, builders' \subseteq builders, landing' \subseteq landing,
           \/ \A b \in builders' : ~Holds(b)
           \/ disks'[row.disk].phase = disks[row.disk].phase
           \/ disks[row.disk].phase # "absent"
           \/ \E call \in landing : call.part = "disk" /\ call.disk = row.disk
    PROVE  BuildersSound'
  <1>1. ASSUME NEW b \in builders', Holds(b)'
        PROVE  Building(b)'
    <2>1. Building(b) /\ Holds(b)
      BY <1>1 DEF BuildersSound, Holds
    <2>2. (b.stage = "disk" /\ ~b.bound /\ ~b.issued) =>
            disks'[row.disk].phase = "absent" /\ \A call \in landing' : call.part = "disk" => call.disk # row.disk
      BY <2>1 DEF Building
    <2>3. QED
      BY <2>1, <2>2 DEF Building
  <1>2. QED
    BY <1>1 DEF BuildersSound

\* The builder of a claim of a fresh disk.
LEMMA FreshBuilding ==
    ASSUME IInv, NEW n \in Builders, n.stage = "disk", ~n.bound, ~n.issued, n.disk = drawn + 1,
           row'.disk = drawn + 1, row'.uid = NoUids, ~row'.bound, drawn + 1 \in Disks, UNCHANGED <<disks, landing>>
    PROVE  Building(n)'
  <1>1. ~(drawn + 1 <= drawn)
    BY DEF IInv, TypeOK
  <1>2. disks[drawn + 1].phase = "absent"
    BY <1>1 DEF IInv, DisksSound, DrawnDisks, OwnDisk, RecordedDisks
  <1>3. \A call \in landing : call.disk # drawn + 1
    BY <1>1 DEF IInv, LandingSound, CallSound
  <1>4. \A c \in Compute : NoUids[c] = NoUid
    BY DEF NoUids
  <1>5. QED
    BY <1>2, <1>3, <1>4 DEF Building

LEMMA BuildersStep ==
    ASSUME IInv, [Next]_vars, TypeOK'
    PROVE  BuildersSound'
  <1> USE DEF IInv
  <1>0. row.at \in Nat /\ row'.at \in Nat /\ drawn \in Nat
    BY RowFacts DEF TypeOK, Rows
  <1>1. CASE UNCHANGED <<row, builders, disks, landing>>
    BY <1>1, BuildersStay
  <1>2. CASE Provision
    <2>1. Provisioned /\ row.status \in {"none", "stopped"} /\ UNCHANGED <<disks, landing>>
      BY <1>2, ProvisionFacts DEF Provision, cluster
    <2>2. /\ row'.at = row.at + 1 /\ row'.disk = Assigned /\ row'.bound = (row.disk # NoDisk /\ row.bound)
          /\ row'.uid = NoUids /\ Assigned \in Disks
      BY <2>1 DEF Provisioned, RowIs
    <2>3. PICK n \in Builders :
            /\ builders' = builders \cup {n} /\ n.at = row.at + 1 /\ n.disk = Assigned
            /\ n.bound = (row.disk # NoDisk /\ row.bound) /\ n.stage = "disk" /\ ~n.issued
      BY <1>2, <2>2, BuilderTyped DEF Provision, Assigned, TypeOK
    <2>4. CASE row.disk = NoDisk
      <3>1. ~n.bound /\ ~row'.bound /\ Assigned = drawn + 1
        BY <2>2, <2>3, <2>4 DEF Assigned
      <3>2. Building(n)'
        BY <2>1, <2>2, <2>3, <3>1, FreshBuilding
      <3>3. QED
        BY <1>0, <2>2, <2>3, <3>2, BuildersJoined
    <2>5. CASE row.disk # NoDisk
      <3>1. row.bound
        BY <2>1, <2>5 DEF RowAgrees, DiskStates
      <3>2. n.bound /\ row'.bound
        BY <2>2, <2>3, <2>5, <3>1
      <3>3. \A c \in Compute : NoUids[c] = NoUid
        BY DEF NoUids
      <3>4. Building(n)'
        BY <2>2, <2>3, <3>2, <3>3 DEF Building
      <3>5. QED
        BY <1>0, <2>2, <2>3, <3>4, BuildersJoined
    <2>6. QED
      BY <2>4, <2>5
  <1>3. CASE RescueFinish
    <2>1. Rescued /\ UNCHANGED <<disks, landing>>
      BY <1>3, RescueFacts DEF RescueFinish, cluster
    <2>2. row'.at = row.at + 2 /\ row'.disk = drawn + 1 /\ ~row'.bound /\ row'.uid = NoUids /\ drawn + 1 \in Disks
      BY <2>1 DEF Rescued, RowIs
    <2>3. PICK n \in Builders :
            /\ builders' = builders \cup {n} /\ n.at = row.at + 2 /\ n.disk = drawn + 1
            /\ ~n.bound /\ n.stage = "disk" /\ ~n.issued
      BY <2>1 DEF Rescued
    <2>4. Building(n)'
      BY <2>1, <2>2, <2>3, FreshBuilding
    <2>5. QED
      BY <1>0, <2>2, <2>3, <2>4, BuildersJoined
  <1>4. CASE MarkReady \/ Idle \/ Recover
    <2>1. row'.at = row.at + 1
      BY <1>4, ReadyTyped, IdleTyped, RecoverFacts DEF MovedTo, Condemned, RowIs
    <2>2. builders' = builders
      BY <1>4 DEF MarkReady, Idle, Recover, workers
    <2>3. QED
      BY <1>0, <2>1, <2>2, BuildersLeft
  <1>5. CASE AdmitSighting
    <2>1. UNCHANGED <<builders, disks, landing>>
      BY <1>5 DEF AdmitSighting, workers, cluster
    <2>2. CASE Serviced
      BY <1>0, <2>1, <2>2, BuildersLeft DEF Serviced, RowIs
    <2>3. CASE row' = row
      BY <1>1, <2>1, <2>3
    <2>4. QED
      BY <1>5, <2>2, <2>3, AdmitTyped DEF Orphaned
  <1>6. ASSUME NEW b \in builders, BuildFails(b) \/ BuilderDies(b)
        PROVE  BuildersSound'
    <2>1. builders' \subseteq builders /\ UNCHANGED <<disks, landing>>
      BY <1>6 DEF BuildFails, BuilderDies, cluster
    <2>2. CASE row' = row
      BY <2>1, <2>2, BuildersStay
    <2>3. CASE BuildFails(b) /\ Holds(b)
      <3>1. row'.at = row.at + 1
        BY <2>3, MovedTyped DEF BuildFails, TypeOK, Statuses
      <3>2. QED
        BY <1>0, <2>1, <3>1, BuildersLeft
    <2>4. QED
      BY <1>6, <2>2, <2>3 DEF BuildFails, BuilderDies, database
  <1>7. ASSUME NEW b \in builders, BuildCreate(b)
        PROVE  BuildersSound'
    <2>1. row' = row /\ disks' = disks /\ b \in Builders
      BY <1>7, BuilderNumbers DEF BuildCreate, database
    <2>2. CASE ~Holds(b)
      BY <1>7, <2>1, <2>2, BuildersStay DEF BuildCreate
    <2>3. CASE Holds(b)
      <3>1. Building(b)
        BY <2>3 DEF BuildersSound
      <3>2. CASE b.stage = "disk" /\ b.bound
        <4>1. builders' = (builders \ {b}) \cup Advanced(b)
          BY <1>7, <2>3, <3>2 DEF BuildCreate
        <4>2. PICK c \in Builders : Advanced(b) = {c} /\ c.at = b.at /\ c.disk = b.disk /\ c.stage = "guest"
          BY <2>1, <3>2, AdvancedBuilder
        <4>3. "ipc" \in Compute /\ "guest" \in Compute
          BY DEF Compute
        <4>4. Building(c)'
          BY <2>1, <3>1, <3>2, <4>2, <4>3 DEF Building
        <4>5. QED
          BY <2>1, <2>3, <4>1, <4>2, <4>4, BuildersGoOn
      <3>3. CASE ~(b.stage = "disk" /\ b.bound)
        <4>1. PICK c \in Builders : /\ c = [b EXCEPT !.issued = TRUE] /\ c.at = b.at /\ c.disk = b.disk
                                    /\ c.stage = b.stage /\ c.bound = b.bound /\ c.issued
          BY <2>1, IssuedBuilder
        <4>2. builders' = (builders \ {b}) \cup {c}
          BY <1>7, <2>3, <3>3, <4>1 DEF BuildCreate
        <4>3. Building(c)'
          BY <2>1, <3>1, <3>3, <4>1 DEF Building
        <4>4. (\A x \in {c} : x.at = b.at /\ Building(x)') /\ \A x, y \in {c} : x = y
          BY <4>1, <4>3
        <4>5. row'.at = row.at /\ row'.gen = row.gen
          BY <2>1
        <4>6. PICK S : S = {c}
          OBVIOUS
        <4>7. (\A x \in S : x.at = b.at /\ Building(x)') /\ \A x, y \in S : x = y
          BY <4>4, <4>6
        <4>8. builders' = (builders \ {b}) \cup S
          BY <4>2, <4>6
        <4>9. TypeOK /\ BuildersSound
          OBVIOUS
        <4>10. QED
          BY ONLY b \in builders, <2>3, <4>5, <4>7, <4>8, <4>9, BuildersGoOn
      <3>4. QED
        BY <3>2, <3>3
    <2>4. QED
      BY <2>2, <2>3
  <1>8. ASSUME NEW b \in builders, BuildRecord(b)
        PROVE  BuildersSound'
    <2>1. UNCHANGED <<objs, disks, landing>> /\ b \in Builders
      BY <1>8, BuilderNumbers DEF BuildRecord, cluster
    <2>2. CASE ~Holds(b)
      BY <1>8, <2>1, <2>2, BuildersStay DEF BuildRecord
    <2>3. CASE Holds(b)
      <3>1. Building(b) /\ Learned(b) /\ b.gen = row.gen
        BY <1>8, <2>3, LearnedFacts DEF BuildersSound, Holds
      <3>2. row'.at = row.at /\ row'.gen = row.gen /\ row'.disk = row.disk
        BY <3>1 DEF Learned
      <3>3. builders' = (builders \ {b}) \cup Advanced(b)
        BY <1>8, <2>3 DEF BuildRecord
      <3>4. "ipc" \in Compute /\ "guest" \in Compute
        BY DEF Compute
      <3>5. CASE b.stage = "ipc"
        BY <2>1, <2>3, <3>2, <3>3, <3>5, AdvancedBuilder, BuildersGoOn
      <3>6. CASE b.stage = "disk"
        <4>1. PICK c \in Builders : Advanced(b) = {c} /\ c.at = b.at /\ c.disk = b.disk /\ c.stage = "guest"
          BY <2>1, <3>6, AdvancedBuilder
        <4>2. row'.bound /\ row'.uid = row.uid
          BY <3>1, <3>6 DEF Learned
        <4>3. Building(c)'
          BY <3>1, <3>2, <3>4, <3>6, <4>1, <4>2 DEF Building
        <4>4. QED
          BY <2>3, <3>2, <3>3, <4>1, <4>3, BuildersGoOn
      <3>7. CASE b.stage = "guest"
        <4>1. PICK c \in Builders : Advanced(b) = {c} /\ c.at = b.at /\ c.disk = b.disk /\ c.stage = "ipc"
          BY <2>1, <3>7, AdvancedBuilder
        <4>2. row'.bound = row.bound /\ row'.uid["ipc"] = row.uid["ipc"]
              /\ row'.uid["guest"] = objs[<<"guest", row.gen>>].uid
          BY <3>1, <3>4, <3>7 DEF Learned
        <4>3. objs[<<"guest", row.gen>>].phase = "up"
          BY <1>8, <3>1, <3>7 DEF BuildRecord, Intact
        <4>4. objs[<<"guest", row.gen>>].uid # NoUid
          BY <3>4, <4>3, RowFacts DEF DeploymentsSound, Placed, OneTenant, NoneAtRest, BuiltSoFar, Whole, UidsAgree
        <4>5. Building(c)'
          BY <3>1, <3>2, <3>7, <4>1, <4>2, <4>4 DEF Building
        <4>6. QED
          BY <2>3, <3>2, <3>3, <4>1, <4>5, BuildersGoOn
      <3>8. QED
        BY <2>1, <3>5, <3>6, <3>7 DEF Builders, Parts
    <2>4. QED
      BY <2>2, <2>3
  <1>9. ASSUME NEW e \in execs, ExecEnd(e)
        PROVE  BuildersSound'
    <2>1. UNCHANGED <<builders, disks, landing>>
      BY <1>9 DEF ExecEnd, cluster
    <2>2. CASE row' = row
      BY <1>1, <2>1, <2>2
    <2>3. CASE EndedIdle(e) \/ EndedService(e)
      <3>1. row'.at = row.at + 1
        BY <2>3 DEF EndedIdle, EndedService, Stopped, RowIs
      <3>2. QED
        BY <1>0, <2>1, <3>1, BuildersLeft
    <2>4. CASE EndedReap(e)
      <3>1. row'.status = "stopped" /\ row'.at = row.at
        BY <2>4 DEF EndedReap, RowIs
      <3>2. \A b \in builders : ~Holds(b)'
        BY <3>1 DEF Holds
      <3>3. QED
        BY <2>1, <3>1, <3>2 DEF BuildersSound
    <2>5. QED
      BY <1>9, <2>2, <2>3, <2>4, EndTyped DEF Ended, EndedOrphan
  <1>10. CASE RescueFails \/ RescueDies
    <2>1. UNCHANGED <<builders, disks, landing>>
      BY <1>10 DEF RescueFails, RescueDies, cluster
    <2>2. CASE row' = row
      BY <1>1, <2>1, <2>2
    <2>3. CASE GivenUp
      <3>1. row'.at = row.at + 1
        BY <2>3 DEF GivenUp, RowIs
      <3>2. QED
        BY <1>0, <2>1, <3>1, BuildersLeft
    <2>4. QED
      BY <1>10, <2>2, <2>3, RescueEndsTyped
  <1>11. ASSUME NEW call \in landing, Land(call)
         PROVE  BuildersSound'
    <2>1. UNCHANGED <<row, builders>> /\ landing' \subseteq landing
      BY <1>11 DEF Land, database, workers
    <2>2. CASE call.part = "disk" /\ call.disk = row.disk
      BY <2>1, <2>2, BuildersStay
    <2>3. CASE ~(call.part = "disk" /\ call.disk = row.disk)
      <3>1. disks' = disks \/ (row.disk \in Disks => disks'[row.disk] = disks[row.disk])
        BY <1>11, <2>3, LandFacts
      <3>2. (\A b \in builders : ~Holds(b)) \/ row.disk \in Disks
        BY RowFacts DEF Holds, RowAgrees
      <3>3. QED
        BY <2>1, <3>1, <3>2, BuildersStay
    <2>4. QED
      BY <2>2, <2>3
  <1>12. ASSUME NEW d \in Disks, DiskGone(d)
         PROVE  BuildersSound'
    <2>1. UNCHANGED <<row, builders, landing>> /\ disks[d].phase = "deleting" /\ disks' = [disks EXCEPT ![d].phase = "gone"]
      BY <1>12 DEF DiskGone, database, workers
    <2>2. \A x \in Disks \ {d} : disks'[x] = disks[x]
      BY <2>1, PhaseFacts DEF Phases
    <2>3. (\A b \in builders : ~Holds(b)) \/ row.disk \in Disks
      BY RowFacts DEF Holds, RowAgrees
    <2>4. QED
      BY <2>1, <2>2, <2>3, BuildersStay
  <1>13. ASSUME NEW t \in Targets, t.disk # NoDisk, disks' = Dropped(t), UNCHANGED <<row, builders, landing>>
         PROVE  BuildersSound'
    <2>1. /\ t.disk \in Disks /\ \A x \in Disks \ {t.disk} : disks'[x] = disks[x]
          /\ disks'[t.disk].phase = disks[t.disk].phase \/ disks[t.disk].phase = "up"
      BY <1>13, DroppedFacts
    <2>2. (\A b \in builders : ~Holds(b)) \/ row.disk \in Disks
      BY RowFacts DEF Holds, RowAgrees
    <2>3. QED
      BY <1>13, <2>1, <2>2, BuildersStay
  <1>14. ASSUME NEW e \in execs, ExecAct(e)
         PROVE  BuildersSound'
    <2>1. UNCHANGED <<row, builders, landing>>
      BY <1>14 DEF ExecAct, database
    <2>2. PICK t \in e.left : t \in Targets /\ Acted(t)
      BY <1>14, ActFacts
    <2>3. CASE disks' = disks
      BY <1>1, <2>1, <2>3
    <2>4. CASE t.part = "disk" /\ disks' = Dropped(t)
      <3>1. t.disk # NoDisk
        BY <2>2, <2>4 DEF ExecsSound, ExecSound, Harmless, Seen
      <3>2. QED
        BY <1>13, <2>1, <2>2, <2>4, <3>1
    <2>5. QED
      BY <2>2, <2>3, <2>4 DEF Acted
  <1>15. CASE RescueAct
    <2>1. UNCHANGED <<row, builders, landing>>
      BY <1>15 DEF RescueAct
    <2>2. PICK t \in rescue.strike : t \in Targets /\ Struck(t)
      BY <1>15, RescueActFacts
    <2>3. CASE disks' = disks
      BY <1>1, <2>1, <2>3
    <2>4. CASE ~IsCompute(t) /\ disks' = Dropped(t)
      <3>1. t.part = "disk"
        BY <2>2, <2>4 DEF IsCompute, Targets, Parts, Compute
      <3>2. t.disk # NoDisk
        BY <2>2, <3>1 DEF RescueSound, Past
      <3>3. QED
        BY <1>13, <2>1, <2>2, <2>4, <3>2
    <2>5. QED
      BY <2>2, <2>3, <2>4 DEF Struck
  <1>16. CASE \/ \E c \in Compute, g \in Gens : ComputeGone(c, g)
              \/ \E e \in execs : ExecCheck(e) \/ ExecDies(e) \/ LockLost(e)
              \/ Reap \/ Condemn \/ Suspect \/ \E g \in Gens : Sight(g)
    BY <1>1, <1>16 DEF ComputeGone, ExecCheck, ExecDies, LockLost, Reap, Condemn, Suspect, Sight,
       database, cluster, workers
  <1>17. CASE \/ \E w \in works : PublishShutdown(w) \/ ExecStart(w)
              \/ \E t \in shutdowns : ShutdownAck(t)
              \/ RescueStart \/ RescueCheck \/ UNCHANGED vars
    BY <1>1, <1>17 DEF PublishShutdown, ExecStart, ShutdownAck, RescueStart, RescueCheck,
       vars, database, cluster, workers
  <1>18. QED
    BY <1>2, <1>3, <1>4, <1>5, <1>6, <1>7, <1>8, <1>9, <1>10, <1>11, <1>12, <1>14, <1>15, <1>16, <1>17, NextCases

-----------------------------------------------------------------------------
(* The creates that may still land. *)

LEMMA CallNumbers ==
    ASSUME TypeOK, NEW call \in landing
    PROVE  call \in Calls /\ call.gen \in Gens /\ call.gen \in Nat /\ call.disk \in Disks /\ call.disk \in Nat
           /\ call.disk # NoDisk /\ call.part \in Parts /\ (call.part # "disk" => call.part \in Compute)
  BY Numbers DEF TypeOK, Calls, Parts, Compute

\* A disk whose creation is not deleted, nor another's.
LandsOn(call) == call.part = "disk" => disks'[call.disk].phase = "absent"
Awaited(call) ==
    call.gen = row.gen =>
        /\ row.status \in {"creating", "failed"}
        /\ row.status = "creating" =>
            /\ call.disk = row.disk
            /\ call.part = "disk" => ~row.bound
            /\ call.part # "disk" => row.uid[call.part] = NoUid

LEMMA CallKept ==
    ASSUME IInv, TypeOK', Advances, NEW call \in landing, landing' \subseteq landing, LandsOn(call),
           row'.gen = row.gen \/ row'.disk = NoDisk, Awaited(call)'
    PROVE  CallSound(call)'
  <1> USE DEF IInv
  <1>1. CallSound(call) /\ call.gen \in Nat /\ call.disk \in Nat /\ call.disk # NoDisk
    BY CallNumbers DEF LandingSound
  <1>2. row.gen \in Nat /\ row'.gen \in Nat /\ drawn \in Nat /\ drawn' \in Nat
    BY RowFacts, Numbers DEF TypeOK, Rows
  <1>3. row.gen <= row'.gen /\ drawn <= drawn'
    BY DEF Advances, RowAdvances
  <1>4. call.gen <= row'.gen /\ call.disk <= drawn'
    BY <1>1, <1>2, <1>3 DEF CallSound
  <1>5. call.part = "disk" =>
          /\ disks'[call.disk].phase = "absent"
          /\ \A other \in landing' : other.part = "disk" /\ other.disk = call.disk => other = call
    BY <1>1 DEF CallSound, LandsOn
  <1>6. call.part = "guest" /\ call.disk = row'.disk => call.gen = row'.gen
    <2>1. SUFFICES ASSUME call.part = "guest", call.disk = row'.disk
                   PROVE  call.gen = row'.gen
      OBVIOUS
    <2>2. call.disk <= drawn
      BY <1>1 DEF CallSound
    <2>3. call.disk # drawn + 1
      BY <1>1, <1>2, <2>2
    <2>4. call.disk = row.disk /\ row'.gen = row.gen
      BY <1>1, <2>1, <2>3 DEF Advances, RowAdvances
    <2>5. QED
      BY <1>1, <2>1, <2>4 DEF CallSound
  <1>7. QED
    BY <1>4, <1>5, <1>6 DEF CallSound, Awaited

\* Nothing is on its way to a sandbox at rest.
LEMMA NothingComes ==
    ASSUME IInv, row.status \notin {"creating", "failed"}, NEW call \in landing
    PROVE  call.gen # row.gen
  BY DEF IInv, LandingSound, CallSound

LEMMA AwaitedStill ==
    ASSUME IInv, NEW call \in landing, row' = row
    PROVE  Awaited(call)'
  BY DEF IInv, LandingSound, CallSound, Awaited

\* The disks that are absent stay so.
AbsentStay == \A d \in Disks : disks[d].phase = "absent" => disks'[d].phase = "absent"

LEMMA LandingFrom ==
    ASSUME IInv, TypeOK', Advances, landing' \subseteq landing, AbsentStay,
           row'.gen = row.gen \/ row'.disk = NoDisk, \A call \in landing : Awaited(call)'
    PROVE  LandingSound'
  <1>1. ASSUME NEW call \in landing'
        PROVE  CallSound(call)'
    <2>1. call \in landing /\ LandsOn(call)
      BY CallNumbers DEF IInv, AbsentStay, LandsOn, LandingSound, CallSound
    <2>2. QED
      BY <2>1, CallKept
  <1>2. QED
    BY <1>1 DEF LandingSound

\* The phases after a disk has been dropped, and after a pass.
LEMMA AbsentAfterDrop ==
    ASSUME TypeOK, NEW t \in Targets, t.disk # NoDisk, disks' = Dropped(t)
    PROVE  AbsentStay
  BY DroppedFacts DEF AbsentStay
LEMMA AbsentAfterPass ==
    ASSUME IInv, \/ \E e \in execs : ExecAct(e)
                 \/ RescueAct
    PROVE  AbsentStay
  <1> USE DEF IInv
  <1>1. CASE disks' = disks
    BY <1>1 DEF AbsentStay
  <1>2. ASSUME NEW e \in execs, ExecAct(e)
        PROVE  AbsentStay
    <2>1. PICK t \in e.left : t \in Targets /\ Acted(t)
      BY <1>2, ActFacts
    <2>2. CASE t.part = "disk" /\ disks' = Dropped(t)
      <3>1. t.disk # NoDisk
        BY <2>1, <2>2 DEF ExecsSound, ExecSound, Harmless, Seen
      <3>2. QED
        BY <2>1, <2>2, <3>1, AbsentAfterDrop
    <2>3. QED
      BY <1>1, <2>1, <2>2 DEF Acted
  <1>3. CASE RescueAct
    <2>1. PICK t \in rescue.strike : t \in Targets /\ Struck(t)
      BY <1>3, RescueActFacts
    <2>2. CASE ~IsCompute(t) /\ disks' = Dropped(t)
      <3>1. t.part = "disk"
        BY <2>1, <2>2 DEF IsCompute, Targets, Parts, Compute
      <3>2. t.disk # NoDisk
        BY <2>1, <3>1 DEF RescueSound, Past
      <3>3. QED
        BY <2>1, <2>2, <3>2, AbsentAfterDrop
    <2>3. QED
      BY <1>1, <2>1, <2>2 DEF Struck
  <1>4. QED
    BY <1>2, <1>3

LEMMA LandingStep ==
    ASSUME IInv, [Next]_vars, TypeOK', Advances
    PROVE  LandingSound'
  <1> USE DEF IInv
  <1>0. disks' = disks => AbsentStay
    BY DEF AbsentStay
  <1>1. CASE row' = row /\ landing' \subseteq landing /\ AbsentStay
    BY <1>1, AwaitedStill, LandingFrom
  <1>2. ASSUME UNCHANGED <<disks, landing>>, row.status \notin {"creating", "failed"}, row'.gen = row.gen
        PROVE  LandingSound'
    BY <1>0, <1>2, NothingComes, LandingFrom DEF Awaited
  <1>3. CASE Provision
    <2>1. row'.gen = row.gen /\ row.status \in {"none", "stopped"} /\ UNCHANGED <<disks, landing>>
      BY <1>3, ProvisionFacts DEF Provision, Provisioned, RowIs, cluster
    <2>2. QED
      BY <1>2, <2>1
  <1>4. CASE MarkReady
    <2>1. row'.gen = row.gen /\ UNCHANGED <<disks, landing>>
      BY <1>4, ReadyTyped DEF MarkReady, MovedTo, RowIs, cluster
    <2>2. ASSUME NEW call \in landing PROVE call.gen # row.gen
      <3>1. call.part = "disk" \/ call.part \in Compute
        BY CallNumbers
      <3>2. QED
        BY <1>4, <3>1 DEF MarkReady, LandingSound, CallSound
    <2>3. \A call \in landing : Awaited(call)'
      BY <2>1, <2>2 DEF Awaited
    <2>4. QED
      BY <1>0, <2>1, <2>3, LandingFrom
  <1>5. CASE Idle
    <2>1. row'.gen = row.gen /\ row.status = "ready" /\ UNCHANGED <<disks, landing>>
      BY <1>5, IdleTyped DEF Idle, MovedTo, RowIs, cluster
    <2>2. QED
      BY <1>2, <2>1
  <1>6. CASE Recover
    <2>1. row'.gen = row.gen + 1 /\ row'.disk = NoDisk /\ UNCHANGED <<disks, landing>>
      BY <1>6, RecoverFacts DEF Recover, Condemned, RowIs, cluster
    <2>2. ASSUME NEW call \in landing PROVE call.gen # row'.gen
      <3>1. call.gen \in Nat /\ call.gen <= row.gen /\ row.gen \in Nat
        BY CallNumbers, RowFacts DEF LandingSound, CallSound
      <3>2. QED
        BY <2>1, <3>1
    <2>3. \A call \in landing : Awaited(call)'
      BY <2>2 DEF Awaited
    <2>4. QED
      BY <1>0, <2>1, <2>3, LandingFrom
  <1>7. CASE AdmitSighting
    <2>1. UNCHANGED <<disks, landing>>
      BY <1>7 DEF AdmitSighting, cluster
    <2>2. CASE Serviced
      <3>1. row'.gen = row.gen /\ row.status = "stopped"
        BY <2>2 DEF Serviced, RowIs
      <3>2. QED
        BY <1>2, <2>1, <3>1
    <2>3. CASE row' = row
      BY <1>0, <1>1, <2>1, <2>3
    <2>4. QED
      BY <1>7, <2>2, <2>3, AdmitTyped DEF Orphaned
  <1>8. ASSUME NEW b \in builders, BuildFails(b) \/ BuilderDies(b)
        PROVE  LandingSound'
    <2>1. UNCHANGED <<disks, landing>>
      BY <1>8 DEF BuildFails, BuilderDies, cluster
    <2>2. CASE row' = row
      BY <1>0, <1>1, <2>1, <2>2
    <2>3. CASE BuildFails(b) /\ Holds(b)
      <3>1. row'.gen = row.gen /\ row'.status = "failed"
        BY <2>3, MovedTyped DEF BuildFails, TypeOK, Statuses
      <3>2. \A call \in landing : Awaited(call)'
        BY <3>1 DEF Awaited
      <3>3. QED
        BY <1>0, <2>1, <3>1, <3>2, LandingFrom
    <2>4. QED
      BY <1>8, <2>2, <2>3 DEF BuildFails, BuilderDies, database
  <1>9. ASSUME NEW b \in builders, BuildRecord(b)
        PROVE  LandingSound'
    <2>1. UNCHANGED <<disks, landing>>
      BY <1>9 DEF BuildRecord, cluster
    <2>2. CASE ~Holds(b)
      BY <1>0, <1>1, <1>9, <2>1, <2>2 DEF BuildRecord
    <2>3. CASE Holds(b)
      <3>1. Building(b) /\ Learned(b) /\ b.gen = row.gen /\ row.status = "creating" /\ b.disk = row.disk
        BY <1>9, <2>3, LearnedFacts DEF BuildersSound, Holds, Building
      <3>2. row'.gen = row.gen /\ row'.status = "creating" /\ row'.disk = row.disk
        BY <3>1 DEF Learned
      <3>3. ASSUME NEW call \in landing
            PROVE  Awaited(call)'
        <4>1. SUFFICES ASSUME call.gen = row.gen
                       PROVE  /\ call.disk = row.disk
                              /\ call.part = "disk" => ~row'.bound
                              /\ call.part # "disk" => row'.uid[call.part] = NoUid
          BY <3>2 DEF Awaited
        <4>2. call.disk = row.disk /\ (call.part = "disk" => ~row.bound)
              /\ (call.part # "disk" => row.uid[call.part] = NoUid)
          BY <3>1, <4>1 DEF LandingSound, CallSound
        <4>3. call.part # b.stage
          <5>1. call \in Calls /\ Call(b) \in Calls /\ b \in Builders
            BY CallNumbers, BuilderNumbers, CallTyped
          <5>2. Call(b).part = b.stage /\ Call(b).gen = call.gen /\ Call(b).disk = call.disk
            BY <3>1, <4>1, <4>2, <5>1, CallTyped
          <5>3. call.part = b.stage => call = Call(b)
            BY <5>1, <5>2 DEF Calls
          <5>4. QED
            BY <1>9, <5>3 DEF BuildRecord
        <4>4. call.part # "disk" => call.part \in Compute
          BY CallNumbers
        <4>5. QED
          BY <3>1, <4>2, <4>3, <4>4 DEF Learned
      <3>4. QED
        BY <1>0, <2>1, <3>2, <3>3, LandingFrom
    <2>4. QED
      BY <2>2, <2>3
  <1>10. ASSUME NEW b \in builders, BuildCreate(b)
         PROVE  LandingSound'
    <2>1. row' = row /\ disks' = disks /\ drawn' = drawn /\ b \in Builders
      BY <1>10, BuilderNumbers DEF BuildCreate, database, bounds
    <2>2. CASE landing' = landing
      BY <1>0, <1>1, <2>1, <2>2
    <2>3. CASE landing' = landing \cup {Call(b)} /\ Holds(b) /\ ~(b.stage = "disk" /\ b.bound)
      <3>1. Building(b) /\ b.gen = row.gen /\ row.status = "creating" /\ ~b.issued
        BY <1>10, <2>3 DEF BuildersSound, Holds, BuildCreate
      <3>2. Call(b).part = b.stage /\ Call(b).gen = row.gen /\ Call(b).disk = row.disk
        BY <2>1, <3>1, CallTyped DEF Building
      <3>3. b.stage = "disk" =>
              ~row.bound /\ disks[row.disk].phase = "absent" /\ \A call \in landing : call.part = "disk" => call.disk # row.disk
        BY <2>3, <3>1 DEF Building
      <3>4. b.stage # "disk" => row.uid[b.stage] = NoUid
        BY <2>1, <3>1 DEF Building, Builders, Parts
      <3>5. row.disk <= drawn /\ row.gen <= row.gen
        BY <3>1, RowFacts DEF RowAgrees
      <3>6. \A other \in landing' :
              b.stage = "disk" /\ other.part = "disk" /\ other.disk = row.disk => other = Call(b)
        BY <2>3, <3>3
      <3>7. CallSound(Call(b))'
        BY <2>1, <3>1, <3>2, <3>3, <3>4, <3>5, <3>6 DEF CallSound
      <3>8. ASSUME NEW call \in landing
            PROVE  CallSound(call)'
        <4>1. CallSound(call)
          BY DEF LandingSound
        <4>2. call.part = "disk" => \A other \in landing' : other.part = "disk" /\ other.disk = call.disk => other = call
          BY <2>3, <3>2, <3>3, <4>1 DEF CallSound
        <4>3. QED
          BY <2>1, <4>1, <4>2 DEF CallSound
      <3>9. QED
        BY <2>3, <3>7, <3>8 DEF LandingSound
    <2>4. QED
      BY <1>10, <2>2, <2>3 DEF BuildCreate
  <1>11. ASSUME NEW e \in execs, ExecEnd(e)
         PROVE  LandingSound'
    <2>1. UNCHANGED <<disks, landing>>
      BY <1>11 DEF ExecEnd, cluster
    <2>2. CASE row' = row
      BY <1>0, <1>1, <2>1, <2>2
    <2>3. CASE EndedIdle(e) \/ EndedReap(e) \/ EndedService(e)
      <3>1. row'.gen = row.gen /\ row.status \in {"shutting_down", "stopped", "service"}
        BY <2>3 DEF EndedIdle, EndedReap, EndedService, Stopped, RowIs
      <3>2. QED
        BY <1>2, <2>1, <3>1
    <2>4. QED
      BY <1>11, <2>2, <2>3, EndTyped DEF Ended, EndedOrphan
  <1>12. CASE RescueFinish
    <2>1. row'.gen = row.gen /\ row.status = "recovering" /\ UNCHANGED <<disks, landing>>
      BY <1>12, RescueFacts DEF RescueFinish, Standing, Rescued, RowIs, cluster
    <2>2. QED
      BY <1>2, <2>1
  <1>13. CASE RescueFails \/ RescueDies
    <2>1. UNCHANGED <<disks, landing>>
      BY <1>13 DEF RescueFails, RescueDies, cluster
    <2>2. CASE row' = row
      BY <1>0, <1>1, <2>1, <2>2
    <2>3. CASE GivenUp
      <3>1. row'.gen = row.gen /\ row.status = "recovering"
        BY <2>3 DEF GivenUp, RowIs
      <3>2. QED
        BY <1>2, <2>1, <3>1
    <2>4. QED
      BY <1>13, <2>2, <2>3, RescueEndsTyped
  <1>14. ASSUME NEW landed \in landing, Land(landed)
         PROVE  LandingSound'
    <2>1. row' = row /\ landing' = landing \ {landed}
      BY <1>14 DEF Land, database
    <2>2. CASE landed.part # "disk"
      BY <1>0, <1>1, <1>14, <2>1, <2>2 DEF Land
    <2>3. CASE landed.part = "disk"
      <3>1. ASSUME NEW call \in landing'
            PROVE  CallSound(call)'
        <4>1. call \in landing /\ call # landed
          BY <2>1
        <4>2. CallSound(call) /\ call.disk \in Disks
          BY <4>1, CallNumbers DEF LandingSound
        <4>3. call.part = "disk" => call.disk # landed.disk
          BY <2>3, <4>1 DEF LandingSound, CallSound
        <4>4. \A d \in Disks \ {landed.disk} : disks'[d] = disks[d]
          BY <1>14, <2>3, LandFacts
        <4>5. LandsOn(call)
          BY <4>2, <4>3, <4>4 DEF LandsOn, CallSound
        <4>6. QED
          BY <2>1, <4>1, <4>5, AwaitedStill, CallKept
      <3>2. QED
        BY <3>1 DEF LandingSound
    <2>4. QED
      BY <2>2, <2>3
  <1>15. ASSUME NEW d \in Disks, DiskGone(d)
         PROVE  LandingSound'
    <2>1. UNCHANGED <<row, landing>> /\ disks[d].phase = "deleting" /\ disks' = [disks EXCEPT ![d].phase = "gone"]
      BY <1>15 DEF DiskGone, database
    <2>2. \A x \in Disks \ {d} : disks'[x] = disks[x]
      BY <2>1, PhaseFacts DEF Phases
    <2>3. AbsentStay
      BY <2>1, <2>2 DEF AbsentStay
    <2>4. QED
      BY <1>1, <2>1, <2>3
  <1>16. CASE (\E e \in execs : ExecAct(e)) \/ RescueAct
    <2>1. UNCHANGED <<row, landing>>
      BY <1>16 DEF ExecAct, RescueAct, database
    <2>2. QED
      BY <1>1, <1>16, <2>1, AbsentAfterPass
  <1>17. CASE \/ \E c \in Compute, g \in Gens : ComputeGone(c, g)
              \/ \E e \in execs : ExecCheck(e) \/ ExecDies(e) \/ LockLost(e)
              \/ Reap \/ Condemn \/ Suspect \/ \E g \in Gens : Sight(g)
    BY <1>0, <1>1, <1>17 DEF ComputeGone, ExecCheck, ExecDies, LockLost, Reap, Condemn, Suspect, Sight,
       database, cluster
  <1>18. CASE \/ \E w \in works : PublishShutdown(w) \/ ExecStart(w)
              \/ \E t \in shutdowns : ShutdownAck(t)
              \/ RescueStart \/ RescueCheck \/ UNCHANGED vars
    BY <1>0, <1>1, <1>18 DEF PublishShutdown, ExecStart, ShutdownAck, RescueStart, RescueCheck,
       vars, database, cluster
  <1>19. QED
    BY <1>3, <1>4, <1>5, <1>6, <1>7, <1>8, <1>9, <1>10, <1>11, <1>12, <1>13, <1>14, <1>15, <1>16, <1>17, <1>18,
       NextCases

-----------------------------------------------------------------------------
(* The disks. *)

\* A disk comes to be by a create that lands, and no other way.
LEMMA OnlyCreated ==
    ASSUME IInv, [Next]_vars
    PROVE  \/ AbsentStay
           \/ \E call \in landing : Land(call) /\ call.part = "disk"
  <1> USE DEF IInv
  <1>1. CASE disks' = disks
    BY <1>1 DEF AbsentStay
  <1>2. CASE (\E e \in execs : ExecAct(e)) \/ RescueAct
    BY <1>2, AbsentAfterPass
  <1>3. ASSUME NEW d \in Disks, DiskGone(d)
        PROVE  AbsentStay
    <2>1. disks[d].phase = "deleting" /\ disks' = [disks EXCEPT ![d].phase = "gone"]
      BY <1>3 DEF DiskGone
    <2>2. \A x \in Disks \ {d} : disks'[x] = disks[x]
      BY <2>1, PhaseFacts DEF Phases
    <2>3. QED
      BY <2>1, <2>2 DEF AbsentStay
  <1>4. CASE \E call \in landing : Land(call)
    BY <1>1, <1>4 DEF Land
  <1>5. CASE \/ Provision \/ MarkReady \/ Idle \/ Reap \/ Recover \/ AdmitSighting
             \/ \E b \in builders : BuildCreate(b) \/ BuildRecord(b) \/ BuildFails(b) \/ BuilderDies(b)
             \/ \E c \in Compute, g \in Gens : ComputeGone(c, g)
    BY <1>1, <1>5 DEF Provision, MarkReady, Idle, Reap, Recover, AdmitSighting, BuildCreate, BuildRecord,
       BuildFails, BuilderDies, ComputeGone, cluster
  <1>6. CASE \/ Condemn \/ Suspect \/ \E g \in Gens : Sight(g)
             \/ \E w \in works : PublishShutdown(w) \/ ExecStart(w)
             \/ \E t \in shutdowns : ShutdownAck(t)
    BY <1>1, <1>6 DEF Condemn, Suspect, Sight, PublishShutdown, ExecStart, ShutdownAck, cluster
  <1>7. CASE \/ \E e \in execs : ExecCheck(e) \/ ExecEnd(e) \/ ExecDies(e) \/ LockLost(e)
             \/ RescueStart \/ RescueCheck \/ RescueFinish \/ RescueFails \/ RescueDies
             \/ UNCHANGED vars
    BY <1>1, <1>7 DEF ExecCheck, ExecEnd, ExecDies, LockLost, RescueStart, RescueCheck, RescueFinish,
       RescueFails, RescueDies, vars, cluster
  <1>8. QED
    BY <1>2, <1>3, <1>4, <1>5, <1>6, <1>7, NextCases

LEMMA DrawnStep ==
    ASSUME IInv, [Next]_vars, TypeOK', Advances
    PROVE  DrawnDisks'
  <1> USE DEF IInv
  <1>1. drawn \in Nat /\ drawn' \in Nat /\ drawn <= drawn'
    BY RowFacts DEF TypeOK, Advances, RowAdvances
  <1>2. \A d \in Disks : disks[d].phase # "absent" => d <= drawn'
    <2>1. ASSUME NEW d \in Disks, disks[d].phase # "absent"
          PROVE  d <= drawn'
      <3>1. d \in Nat
        BY Numbers
      <3>2. d <= drawn
        BY <2>1 DEF DisksSound, DrawnDisks
      <3>3. QED
        BY <1>1, <3>1, <3>2
    <2>2. QED
      BY <2>1
  <1>3. CASE AbsentStay
    BY <1>2, <1>3 DEF AbsentStay, DrawnDisks
  <1>4. ASSUME NEW call \in landing, Land(call), call.part = "disk"
        PROVE  DrawnDisks'
    <2>1. call.disk \in Nat /\ call.disk <= drawn
      BY CallNumbers DEF LandingSound, CallSound
    <2>2. call.disk <= drawn'
      BY <1>1, <2>1
    <2>3. \A d \in Disks \ {call.disk} : disks'[d] = disks[d]
      BY <1>4, LandFacts
    <2>4. QED
      BY <1>2, <2>2, <2>3 DEF DrawnDisks
  <1>5. QED
    BY <1>3, <1>4, OnlyCreated

\* The session's own disk, as the row moves on with it.
LEMMA OwnKept ==
    ASSUME IInv, disks' = disks, row'.disk # NoDisk /\ row'.bound => row'.disk = row.disk /\ row.bound,
           PvcState # "destroying" \/ PvcState' = "destroying"
    PROVE  OwnDisk'
  BY DEF IInv, DisksSound, OwnDisk

\* The session's own disk, as the disks do.
LEMMA OwnSpared ==
    ASSUME IInv, UNCHANGED <<row, pvcs>>,
           disks[row.disk].phase = "up" /\ PvcState # "destroying" /\ row.disk \in Disks => disks'[row.disk].phase = "up"
    PROVE  OwnDisk'
  <1>1. PvcState' = PvcState
    BY DEF PvcState
  <1>2. row.disk # NoDisk => row.disk \in Disks
    BY RowFacts DEF IInv
  <1>3. QED
    BY <1>1, <1>2 DEF IInv, DisksSound, OwnDisk

LEMMA OwnDiskStep ==
    ASSUME IInv, [Next]_vars
    PROVE  OwnDisk'
  <1> USE DEF IInv
  <1>1. CASE UNCHANGED <<row, pvcs, disks>>
    BY <1>1, OwnSpared
  <1>2. CASE Provision
    <2>1. Provisioned /\ disks' = disks /\ PvcState # "destroying"
      BY <1>2, ProvisionFacts DEF Provision, Claimable, PvcState, cluster
    <2>2. row'.disk = Assigned /\ row'.bound = (row.disk # NoDisk /\ row.bound)
      BY <2>1 DEF Provisioned, RowIs
    <2>3. QED
      BY <2>1, <2>2, OwnKept DEF Assigned
  <1>3. ASSUME NEW status, NEW state, MovedTo(status, state), disks' = disks, PvcState # "destroying"
        PROVE  OwnDisk'
    <2>1. row'.disk = row.disk /\ row'.bound = row.bound
      BY <1>3 DEF MovedTo, RowIs
    <2>2. QED
      BY <1>3, <2>1, OwnKept
  <1>4. CASE MarkReady
    BY <1>3, <1>4, ReadyTyped DEF MarkReady, cluster
  <1>5. CASE Idle
    BY <1>3, <1>5, IdleTyped DEF Idle, cluster
  <1>6. CASE Reap
    <2>1. row' = row /\ row.disk \in Disks /\ RecordIs(row.disk, "destroying", pvcs[row.disk].bound)
      BY <1>6, ReapTyped
    <2>2. PvcState' = "destroying"
      BY <2>1, RecordState
    <2>3. QED
      BY <2>2 DEF OwnDisk
  <1>7. CASE Recover
    BY <1>7, RecoverFacts DEF Condemned, RowIs, OwnDisk
  <1>8. CASE AdmitSighting
    <2>1. disks' = disks /\ pvcs' = pvcs
      BY <1>8 DEF AdmitSighting, cluster
    <2>2. CASE Serviced
      <3>1. row'.disk = row.disk /\ row'.bound = row.bound /\ PvcState \in {"none", "detached"}
        BY <2>2 DEF Serviced, RowIs
      <3>2. QED
        BY <2>1, <3>1, OwnKept
    <2>3. CASE row' = row
      BY <1>1, <2>1, <2>3
    <2>4. QED
      BY <1>8, <2>2, <2>3, AdmitTyped DEF Orphaned
  <1>9. ASSUME NEW b \in builders, BuildCreate(b) \/ BuildRecord(b) \/ BuildFails(b) \/ BuilderDies(b)
        PROVE  OwnDisk'
    <2>1. disks' = disks
      BY <1>9 DEF BuildCreate, BuildRecord, BuildFails, BuilderDies, cluster
    <2>2. CASE row' = row /\ pvcs' = pvcs
      BY <1>1, <2>1, <2>2
    <2>3. CASE Holds(b) /\ (BuildRecord(b) \/ BuildFails(b))
      <3>1. row.status = "creating" /\ b.disk = row.disk /\ row.disk # NoDisk /\ PvcState # "destroying"
        BY <2>3 DEF BuildersSound, Building, Holds, RowAgrees, DiskStates
      <3>2. CASE BuildFails(b)
        <4>1. MovedTo("failed", "failed")
          BY <2>3, <3>1, <3>2, MovedToFacts DEF BuildFails, Statuses, PvcStates
        <4>2. QED
          BY <1>3, <2>1, <3>1, <4>1
      <3>3. CASE BuildRecord(b)
        <4>1. Learned(b) /\ row'.disk = row.disk
          BY <2>3, <3>3, LearnedFacts DEF Learned
        <4>2. CASE b.stage = "disk"
          <5>1. disks[row.disk].phase = "up"
            BY <3>1, <3>3, <4>2 DEF BuildRecord, Intact
          <5>2. QED
            BY <2>1, <4>1, <5>1 DEF OwnDisk
        <4>3. CASE b.stage # "disk"
          BY <2>1, <3>1, <4>1, <4>3, OwnKept DEF Learned
        <4>4. QED
          BY <4>2, <4>3
      <3>4. QED
        BY <2>3, <3>2, <3>3
    <2>4. QED
      BY <1>9, <2>2, <2>3 DEF BuildCreate, BuildRecord, BuildFails, BuilderDies, database
  <1>10. ASSUME NEW e \in execs, ExecEnd(e)
         PROVE  OwnDisk'
    <2>1. disks' = disks
      BY <1>10 DEF ExecEnd, cluster
    <2>2. CASE row' = row /\ pvcs' = pvcs
      BY <1>1, <2>1, <2>2
    <2>3. CASE EndedReap(e)
      BY <2>3 DEF EndedReap, RowIs, OwnDisk
    <2>4. CASE EndedIdle(e) \/ EndedService(e)
      <3>1. row'.disk = row.disk /\ row'.bound = row.bound /\ row.status \in {"shutting_down", "service"}
        BY <2>4 DEF EndedIdle, EndedService, Stopped, RowIs
      <3>2. row.disk # NoDisk => PvcState # "destroying"
        BY <3>1 DEF RowAgrees, DiskStates
      <3>3. QED
        BY <2>1, <3>1, <3>2 DEF DisksSound, OwnDisk
    <2>5. QED
      BY <1>10, <2>2, <2>3, <2>4, EndTyped DEF Ended, EndedOrphan
  <1>11. CASE RescueFinish
    BY <1>11, RescueFacts DEF Rescued, RowIs, OwnDisk
  <1>12. CASE RescueFails \/ RescueDies
    <2>1. disks' = disks /\ pvcs' = pvcs
      BY <1>12 DEF RescueFails, RescueDies, cluster, database
    <2>2. CASE row' = row
      BY <1>1, <2>1, <2>2
    <2>3. CASE GivenUp
      BY <2>3 DEF GivenUp, RowIs, RowAgrees, DiskStates, OwnDisk
    <2>4. QED
      BY <1>12, <2>2, <2>3, RescueEndsTyped
  <1>13. ASSUME NEW call \in landing, Land(call)
         PROVE  OwnDisk'
    <2>1. UNCHANGED <<row, pvcs>>
      BY <1>13 DEF Land, database
    <2>2. disks[row.disk].phase = "up" /\ row.disk \in Disks => disks'[row.disk].phase = "up"
      BY <1>13, LandFacts
    <2>3. QED
      BY <2>1, <2>2, OwnSpared
  <1>14. ASSUME NEW d \in Disks, DiskGone(d)
         PROVE  OwnDisk'
    <2>1. UNCHANGED <<row, pvcs>> /\ disks[d].phase = "deleting" /\ disks' = [disks EXCEPT ![d].phase = "gone"]
      BY <1>14 DEF DiskGone, database
    <2>2. \A x \in Disks \ {d} : disks'[x] = disks[x]
      BY <2>1, PhaseFacts DEF Phases
    <2>3. QED
      BY <2>1, <2>2, OwnSpared
  <1>15. ASSUME NEW t \in Targets, t.disk # NoDisk, disks' = Dropped(t), UNCHANGED <<row, pvcs>>,
                t.disk = row.disk => PvcState = "destroying"
         PROVE  OwnDisk'
    <2>1. \A x \in Disks \ {t.disk} : disks'[x] = disks[x]
      BY <1>15, DroppedFacts
    <2>2. QED
      BY <1>15, <2>1, OwnSpared
  <1>16. ASSUME NEW e \in execs, ExecAct(e)
         PROVE  OwnDisk'
    <2>1. UNCHANGED <<row, pvcs>>
      BY <1>16 DEF ExecAct, database
    <2>2. PICK t \in e.left : t \in Targets /\ Acted(t)
      BY <1>16, ActFacts
    <2>3. CASE disks' = disks
      BY <1>1, <2>1, <2>3
    <2>4. CASE t.part = "disk" /\ ~t.retain /\ disks' = Dropped(t)
      <3>1. Harmless(t)
        BY <1>16, <2>2 DEF ExecsSound, ExecSound
      <3>2. t.disk # NoDisk /\ (t.disk = row.disk => PvcState = "destroying")
        BY <2>4, <3>1 DEF Harmless, Seen
      <3>3. QED
        BY <1>15, <2>1, <2>2, <2>4, <3>2
    <2>5. QED
      BY <2>2, <2>3, <2>4 DEF Acted
  <1>17. CASE RescueAct
    <2>1. UNCHANGED <<row, pvcs>>
      BY <1>17 DEF RescueAct
    <2>2. PICK t \in rescue.strike : t \in Targets /\ Struck(t)
      BY <1>17, RescueActFacts
    <2>3. CASE disks' = disks
      BY <1>1, <2>1, <2>3
    <2>4. CASE ~IsCompute(t) /\ disks' = Dropped(t)
      <3>1. t.part = "disk"
        BY <2>2, <2>4 DEF IsCompute, Targets, Parts, Compute
      <3>2. t.disk # NoDisk /\ t.disk # row.disk
        BY <2>2, <3>1 DEF RescueSound, Past
      <3>3. QED
        BY <1>15, <2>1, <2>2, <2>4, <3>2
    <2>5. QED
      BY <2>2, <2>3, <2>4 DEF Struck
  <1>18. CASE \/ \E c \in Compute, g \in Gens : ComputeGone(c, g)
              \/ \E e \in execs : ExecCheck(e) \/ ExecDies(e) \/ LockLost(e)
              \/ Condemn \/ Suspect \/ \E g \in Gens : Sight(g)
    BY <1>1, <1>18 DEF ComputeGone, ExecCheck, ExecDies, LockLost, Condemn, Suspect, Sight, database, cluster
  <1>19. CASE \/ \E w \in works : PublishShutdown(w) \/ ExecStart(w)
              \/ \E t \in shutdowns : ShutdownAck(t)
              \/ RescueStart \/ RescueCheck \/ UNCHANGED vars
    BY <1>1, <1>19 DEF PublishShutdown, ExecStart, ShutdownAck, RescueStart, RescueCheck, vars, database, cluster
  <1>20. QED
    BY <1>2, <1>4, <1>5, <1>6, <1>7, <1>8, <1>9, <1>10, <1>11, <1>12, <1>13, <1>14, <1>16, <1>17, <1>18, <1>19,
       NextCases

\* A recorded disk is what it was as long as its record is.
LEMMA RecordedStill ==
    ASSUME IInv, TypeOK', Advances, NEW d \in recorded,
           pvcs'[d].state # "none" => pvcs[d].state # "none" /\ (pvcs[d].bound => pvcs'[d].bound),
           pvcs'[d].state = "none" => pvcs[d].state = "none" \/ disks[d].phase = "gone"
    PROVE  /\ d <= drawn' /\ disks'[d].phase # "absent"
           /\ pvcs'[d].state # "none" => pvcs'[d].bound
           /\ pvcs'[d].state = "none" => disks'[d].phase = "gone"
  <1> USE DEF IInv
  <1>1. d \in Disks /\ d \in Nat /\ drawn \in Nat /\ drawn' \in Nat /\ drawn <= drawn'
    BY Numbers DEF TypeOK, Advances, RowAdvances
  <1>2. /\ d <= drawn /\ disks[d].phase # "absent" /\ (pvcs[d].state # "none" => pvcs[d].bound)
        /\ pvcs[d].state = "none" => disks[d].phase = "gone"
    BY DEF DisksSound, RecordedDisks
  <1>3. d <= drawn'
    BY <1>1, <1>2
  <1>4. /\ disks'[d].phase = "absent" => disks[d].phase = "absent"
        /\ disks[d].phase = "gone" => disks'[d].phase = "gone"
    BY <1>1 DEF Advances, ClusterAdvances
  <1>5. QED
    BY <1>2, <1>3, <1>4

\* One record changes.
LEMMA RecordedChange ==
    ASSUME IInv, TypeOK', Advances, recorded' = recorded, NEW d \in Disks, NEW state, NEW bound,
           RecordIs(d, state, bound),
           d \in recorded => \/ state # "none" /\ pvcs[d].state # "none" /\ (pvcs[d].bound => bound)
                             \/ state = "none" /\ disks[d].phase = "gone"
    PROVE  RecordedDisks'
  <1>1. recorded \subseteq Disks
    BY DEF IInv, TypeOK
  <1>2. pvcs'[d].state = state /\ pvcs'[d].bound = bound /\ \A x \in Disks \ {d} : pvcs'[x] = pvcs[x]
    BY DEF RecordIs, OnlyRecord
  <1>3. ASSUME NEW x \in recorded
        PROVE  /\ pvcs'[x].state # "none" => pvcs[x].state # "none" /\ (pvcs[x].bound => pvcs'[x].bound)
               /\ pvcs'[x].state = "none" => pvcs[x].state = "none" \/ disks[x].phase = "gone"
    <2>1. CASE x = d
      BY <1>2, <2>1
    <2>2. CASE x # d
      BY <1>1, <1>2, <2>2
    <2>3. QED
      BY <2>1, <2>2
  <1>4. QED
    BY <1>3, RecordedStill DEF RecordedDisks

LEMMA OwnRecord ==
    ASSUME TypeOK, RowAgrees, row.disk # NoDisk
    PROVE  row.disk \in Disks /\ pvcs[row.disk].state # "none" /\ PvcState = pvcs[row.disk].state
  BY RowFacts DEF TypeOK, Rows, RowAgrees, DiskStates, PvcState, Statuses

LEMMA RecordedStep ==
    ASSUME IInv, [Next]_vars, TypeOK', Advances
    PROVE  RecordedDisks'
  <1> USE DEF IInv
  <1>1. CASE UNCHANGED <<pvcs, recorded>>
    BY <1>1, RecordedStill DEF RecordedDisks
  <1>2. CASE Provision
    <2>1. Provisioned /\ recorded' = recorded
      BY <1>2, ProvisionFacts DEF Provision
    <2>2. RecordIs(Assigned, "attaching", (row.disk # NoDisk /\ pvcs[Assigned].bound)) /\ Assigned \in Disks
      BY <2>1 DEF Provisioned
    <2>3. CASE row.disk = NoDisk
      <3>1. Assigned = drawn + 1 /\ drawn \in Nat
        BY <2>3 DEF Assigned, TypeOK
      <3>2. ~(drawn + 1 <= drawn)
        BY <3>1
      <3>3. Assigned \notin recorded
        BY <3>1, <3>2 DEF DisksSound, RecordedDisks
      <3>4. QED
        BY <2>1, <2>2, <3>3, RecordedChange
    <2>4. CASE row.disk # NoDisk
      <3>1. Assigned = row.disk /\ pvcs[row.disk].state # "none"
        BY <2>4, OwnRecord DEF Assigned
      <3>2. QED
        BY <2>1, <2>2, <2>4, <3>1, RecordedChange
    <2>5. QED
      BY <2>3, <2>4
  <1>3. ASSUME row.disk # NoDisk, recorded' = recorded, NEW state, state # "none",
               RecordIs(row.disk, state, pvcs[row.disk].bound)
        PROVE  RecordedDisks'
    BY <1>3, OwnRecord, RecordedChange
  <1>4. CASE MarkReady \/ Idle
    <2>1. PICK state \in {"attached", "detaching"} :
            row.disk \in Disks /\ RecordIs(row.disk, state, pvcs[row.disk].bound)
      BY <1>4, ReadyTyped, IdleTyped DEF MovedTo
    <2>2. recorded' = recorded /\ row.disk # NoDisk /\ state # "none"
      BY <1>4, <2>1, RowFacts DEF MarkReady, Idle, bounds
    <2>3. QED
      BY <1>3, <2>1, <2>2
  <1>5. CASE Reap
    <2>1. row.disk # NoDisk /\ RecordIs(row.disk, "destroying", pvcs[row.disk].bound) /\ recorded' = recorded
      BY <1>5, ReapTyped, RowFacts DEF Reap, bounds
    <2>2. QED
      BY <1>3, <2>1
  <1>6. CASE Recover
    <2>1. Condemned /\ recorded' = recorded
      BY <1>6, RecoverFacts DEF Recover, bounds
    <2>2. CASE row.disk = NoDisk
      BY <1>1, <2>1, <2>2 DEF Condemned
    <2>3. CASE row.disk # NoDisk
      BY <1>3, <2>1, <2>3 DEF Condemned
    <2>4. QED
      BY <2>2, <2>3
  <1>7. ASSUME NEW b \in builders, BuildRecord(b), Holds(b)
        PROVE  RecordedDisks'
    <2>1. Learned(b) /\ b.disk = row.disk /\ row.disk # NoDisk
      BY <1>7, LearnedFacts DEF BuildersSound, Building, Holds, RowAgrees
    <2>2. CASE b.stage # "disk"
      BY <1>1, <1>7, <2>1, <2>2 DEF Learned, BuildRecord
    <2>3. CASE b.stage = "disk"
      <3>1. /\ row.disk \in Disks /\ pvcs[row.disk].state # "none" /\ row.disk <= drawn
            /\ RecordIs(row.disk, pvcs[row.disk].state, TRUE) /\ recorded' = recorded \cup {row.disk}
            /\ disks[row.disk].phase = "up" /\ disks' = disks /\ drawn' = drawn
        BY <1>7, <2>1, <2>3, OwnRecord DEF Learned, BuildRecord, Intact, RowAgrees, cluster
      <3>2. pvcs'[row.disk].state # "none" /\ pvcs'[row.disk].bound
        BY <3>1 DEF RecordIs
      <3>3. ASSUME NEW d \in recorded, d # row.disk
            PROVE  /\ d <= drawn' /\ disks'[d].phase # "absent"
                   /\ pvcs'[d].state # "none" => pvcs'[d].bound
                   /\ pvcs'[d].state = "none" => disks'[d].phase = "gone"
        <4>1. pvcs'[d] = pvcs[d]
          BY <3>1, <3>3 DEF RecordIs, OnlyRecord, TypeOK
        <4>2. QED
          BY <4>1, RecordedStill
      <3>4. QED
        BY <3>1, <3>2, <3>3 DEF RecordedDisks
    <2>4. QED
      BY <2>2, <2>3
  <1>8. ASSUME NEW b \in builders, BuildFails(b), Holds(b)
        PROVE  RecordedDisks'
    <2>1. row.disk # NoDisk /\ row.disk = b.disk /\ recorded' = recorded
      BY <1>8 DEF BuildersSound, Building, Holds, RowAgrees, BuildFails
    <2>2. MovedTo("failed", "failed")
      BY <1>8, <2>1, MovedToFacts DEF BuildFails, Statuses, PvcStates
    <2>3. QED
      BY <1>3, <2>1, <2>2 DEF MovedTo
  <1>9. CASE \E b \in builders : BuildCreate(b) \/ BuilderDies(b) \/ (~Holds(b) /\ (BuildRecord(b) \/ BuildFails(b)))
    BY <1>1, <1>9 DEF BuildCreate, BuilderDies, BuildRecord, BuildFails, database, bounds
  <1>10. ASSUME NEW e \in execs, ExecEnd(e)
         PROVE  RecordedDisks'
    <2>1. recorded' = recorded
      BY <1>10 DEF ExecEnd, bounds
    <2>2. CASE pvcs' = pvcs
      BY <1>1, <2>1, <2>2
    <2>3. CASE EndedIdle(e)
      BY <1>3, <2>1, <2>3, RowFacts DEF EndedIdle
    <2>4. CASE Ended(e) /\ EndedReap(e)
      <3>1. row.disk \in Disks /\ RecordIs(row.disk, "none", FALSE) /\ e.left = {} /\ e.work.kind = "reap"
            /\ row.disk = e.work.disk
        BY <2>4 DEF Ended, EndedReap
      <3>2. disks[row.disk].phase = "gone"
        BY <3>1 DEF ExecsSound, ExecSound
      <3>3. QED
        BY <2>1, <3>1, <3>2, RecordedChange
    <2>5. QED
      BY <1>10, <2>2, <2>3, <2>4, EndTyped DEF Ended, EndedService, EndedOrphan
  <1>11. CASE RescueFinish
    <2>1. Rescued /\ recorded' = recorded /\ \A d \in Disks : pvcs[d].state # "none" => Proven(d)
      BY <1>11, RescueFacts DEF RescueFinish
    <2>2. \A d \in Disks \ {drawn + 1} : pvcs'[d].state = "none"
      BY <2>1 DEF Rescued
    <2>3. ASSUME NEW d \in recorded
          PROVE  pvcs'[d].state = "none" /\ (pvcs[d].state = "none" \/ disks[d].phase = "gone")
      <3>1. d \in Disks /\ d <= drawn /\ drawn \in Nat /\ (pvcs[d].state # "none" => pvcs[d].bound)
        BY DEF TypeOK, DisksSound, RecordedDisks
      <3>2. d # drawn + 1
        BY <3>1
      <3>3. CASE pvcs[d].state # "none"
        <4>1. PICK w \in Recoveries : \E t \in w.targets :
                t.part = "disk" /\ t.disk = d /\ t.cleaned /\ (pvcs[d].bound => t.uid # NoUid)
          BY <2>1, <3>1, <3>3 DEF Proven
        <4>2. PICK t \in w.targets : t.part = "disk" /\ t.disk = d /\ t.cleaned /\ t.uid # NoUid
          BY <3>1, <3>3, <4>1
        <4>3. CleanedIsGone(t)
          BY <4>1 DEF Recoveries, WorksSound, WorkSound
        <4>4. QED
          BY <2>2, <3>1, <3>2, <4>2, <4>3 DEF CleanedIsGone
      <3>4. QED
        BY <2>2, <3>1, <3>2, <3>3
    <2>4. QED
      BY <2>1, <2>3, RecordedStill DEF RecordedDisks
  <1>12. CASE \/ AdmitSighting \/ RescueFails \/ RescueDies
              \/ \E call \in landing : Land(call)
              \/ \E c \in Compute, g \in Gens : ComputeGone(c, g)
              \/ \E d \in Disks : DiskGone(d)
              \/ \E e \in execs : ExecCheck(e) \/ ExecAct(e) \/ ExecDies(e) \/ LockLost(e)
    BY <1>1, <1>12 DEF AdmitSighting, RescueFails, RescueDies, Land, ComputeGone, DiskGone, ExecCheck, ExecAct,
       ExecDies, LockLost, database, bounds
  <1>13. CASE \/ Condemn \/ Suspect \/ \E g \in Gens : Sight(g)
              \/ \E w \in works : PublishShutdown(w) \/ ExecStart(w)
              \/ \E t \in shutdowns : ShutdownAck(t)
              \/ RescueStart \/ RescueCheck \/ RescueAct \/ UNCHANGED vars
    BY <1>1, <1>13 DEF Condemn, Suspect, Sight, PublishShutdown, ExecStart, ShutdownAck, RescueStart, RescueCheck,
       RescueAct, vars, database, bounds
  <1>14. QED
    BY <1>2, <1>4, <1>5, <1>6, <1>7, <1>8, <1>9, <1>10, <1>11, <1>12, <1>13, NextCases

LEMMA DisksStep ==
    ASSUME IInv, [Next]_vars, TypeOK', Advances
    PROVE  DisksSound'
  BY DrawnStep, OwnDiskStep, RecordedStep DEF DisksSound

-----------------------------------------------------------------------------
(* The Deployments. *)

\* Objects only go, and those of a session that needs them stay.
Shrinks ==
    \A c \in Compute, g \in Gens :
        /\ objs'[<<c, g>>].uid = objs[<<c, g>>].uid
        /\ objs'[<<c, g>>].phase # "none" =>
            objs[<<c, g>>].phase # "none" /\ objs'[<<c, g>>].mounts = objs[<<c, g>>].mounts
Spares ==
    \A c \in Compute :
        row.status \in {"creating", "ready"} /\ objs[<<c, row.gen>>].phase = "up" => objs'[<<c, row.gen>>].phase = "up"

\* What may be deleted is no longer of use.
LEMMA DeleteSpares ==
    ASSUME TypeOK, NEW t \in Targets, IsCompute(t), objs' = Deleted(t), Harmless(t) \/ Past(t)
    PROVE  Shrinks /\ Spares
  <1>1. /\ t.part \in Compute /\ t.gen \in Gens
        /\ \A c \in Compute, g \in Gens :
             /\ objs'[<<c, g>>].uid = objs[<<c, g>>].uid /\ objs'[<<c, g>>].mounts = objs[<<c, g>>].mounts
             /\ \/ objs'[<<c, g>>].phase = objs[<<c, g>>].phase
                \/ /\ c = t.part /\ g = t.gen /\ t.uid = objs[<<c, g>>].uid
                   /\ objs[<<c, g>>].phase = "up" /\ objs'[<<c, g>>].phase = "ending"
    BY DeletedFacts
  <1>2. Shrinks
    BY <1>1 DEF Shrinks
  <1>3. t.part # "disk"
    BY DEF IsCompute, Compute
  <1>4. row.gen \in Gens /\ (Past(t) => t.gen # row.gen)
    BY <1>3, TargetNumbers, RowFacts DEF Past
  <1>5. ASSUME NEW c \in Compute, row.status \in {"creating", "ready"}, objs[<<c, row.gen>>].phase = "up"
        PROVE  objs'[<<c, row.gen>>].phase = "up"
    <2>1. ~(c = t.part /\ row.gen = t.gen /\ t.uid = objs[<<c, row.gen>>].uid)
      BY <1>3, <1>4, <1>5 DEF Harmless
    <2>2. QED
      BY <1>1, <1>4, <1>5, <2>1
  <1>6. QED
    BY <1>2, <1>5 DEF Spares

\* How the Deployments change.
LEMMA ObjsStep ==
    ASSUME IInv, [Next]_vars
    PROVE  \/ objs' = objs
           \/ row' = row /\ drawn' = drawn /\ Shrinks /\ Spares
           \/ \E call \in landing : Land(call) /\ call.part # "disk"
  <1> USE DEF IInv
  <1>1. ASSUME NEW c \in Compute, NEW g \in Gens, ComputeGone(c, g)
        PROVE  row' = row /\ drawn' = drawn /\ Shrinks /\ Spares
    <2>1. /\ objs[<<c, g>>].phase = "ending" /\ objs'[<<c, g>>].phase = "none" /\ objs'[<<c, g>>].uid = objs[<<c, g>>].uid
          /\ \A x \in Compute, y \in Gens : <<x, y>> # <<c, g>> => objs'[<<x, y>>] = objs[<<x, y>>]
      BY <1>1, ComputeGoneFacts
    <2>2. \A x \in Compute, y \in Gens : objs'[<<x, y>>] = objs[<<x, y>>] \/ (x = c /\ y = g)
      BY <2>1
    <2>3. Shrinks
      BY <2>1, <2>2 DEF Shrinks
    <2>4. row.gen \in Gens
      BY RowFacts
    <2>5. Spares
      BY <2>1, <2>2, <2>4 DEF Spares
    <2>6. QED
      BY <1>1, <2>3, <2>5 DEF ComputeGone, database, bounds
  <1>2. ASSUME NEW e \in execs, ExecAct(e)
        PROVE  objs' = objs \/ (row' = row /\ drawn' = drawn /\ Shrinks /\ Spares)
    <2>1. PICK t \in e.left : t \in Targets /\ Acted(t)
      BY <1>2, ActFacts
    <2>2. Harmless(t)
      BY <1>2, <2>1 DEF ExecsSound, ExecSound
    <2>3. CASE IsCompute(t) /\ objs' = Deleted(t)
      BY <1>2, <2>1, <2>2, <2>3, DeleteSpares DEF ExecAct, database, bounds
    <2>4. QED
      BY <2>1, <2>3 DEF Acted
  <1>3. CASE RescueAct
    <2>1. PICK t \in rescue.strike : t \in Targets /\ Struck(t)
      BY <1>3, RescueActFacts
    <2>2. Past(t)
      BY <2>1 DEF RescueSound
    <2>3. CASE IsCompute(t) /\ objs' = Deleted(t)
      BY <1>3, <2>1, <2>2, <2>3, DeleteSpares DEF RescueAct, bounds
    <2>4. QED
      BY <2>1, <2>3 DEF Struck
  <1>4. ASSUME NEW call \in landing, Land(call)
        PROVE  objs' = objs \/ call.part # "disk"
    BY <1>4 DEF Land
  <1>5. CASE \/ Provision \/ MarkReady \/ Idle \/ Reap \/ Recover \/ AdmitSighting
             \/ \E b \in builders : BuildCreate(b) \/ BuildRecord(b) \/ BuildFails(b) \/ BuilderDies(b)
             \/ \E d \in Disks : DiskGone(d)
    BY <1>5 DEF Provision, MarkReady, Idle, Reap, Recover, AdmitSighting, BuildCreate, BuildRecord,
       BuildFails, BuilderDies, DiskGone, cluster
  <1>6. CASE \/ Condemn \/ Suspect \/ \E g \in Gens : Sight(g)
             \/ \E w \in works : PublishShutdown(w) \/ ExecStart(w)
             \/ \E t \in shutdowns : ShutdownAck(t)
    BY <1>6 DEF Condemn, Suspect, Sight, PublishShutdown, ExecStart, ShutdownAck, cluster
  <1>7. CASE \/ \E e \in execs : ExecCheck(e) \/ ExecEnd(e) \/ ExecDies(e) \/ LockLost(e)
             \/ RescueStart \/ RescueCheck \/ RescueFinish \/ RescueFails \/ RescueDies
             \/ UNCHANGED vars
    BY <1>7 DEF ExecCheck, ExecEnd, ExecDies, LockLost, RescueStart, RescueCheck, RescueFinish,
       RescueFails, RescueDies, vars, cluster
  <1>8. QED
    BY <1>1, <1>2, <1>3, <1>4, <1>5, <1>6, <1>7, NextCases

\* An object that is there has its numbers.
LEMMA PlacedFacts ==
    ASSUME TypeOK, Placed, NEW c \in Compute, NEW g \in Gens
    PROVE  /\ objs[<<c, g>>].uid \in Nat /\ objs[<<c, g>>].mounts \in Nat
           /\ objs[<<c, g>>].phase # "none" => g <= row.gen /\ objs[<<c, g>>].uid # NoUid
           /\ objs[<<c, g>>].phase # "none" /\ objs[<<c, g>>].mounts # NoDisk => objs[<<c, g>>].mounts <= drawn
  <1>1. objs[<<c, g>>].uid \in Nat /\ objs[<<c, g>>].mounts \in MaybeDisk
    BY ObjectTyped
  <1>2. \A m \in MaybeDisk : m \in Nat
    BY ONLY Numbers DEF MaybeDisk, NoDisk
  <1>3. QED
    BY <1>1, <1>2 DEF Placed

\* The row moves on, the objects do not.
LEMMA PlacedStay ==
    ASSUME IInv, TypeOK', Advances, objs' = objs,
           row'.uid = NoUids \/ (row'.uid = row.uid /\ row'.gen = row.gen)
    PROVE  Placed'
  <1> USE DEF IInv, DeploymentsSound
  <1>1. row.gen \in Nat /\ row'.gen \in Nat /\ row'.gen \in Gens /\ drawn \in Nat /\ drawn' \in Nat
        /\ row.gen <= row'.gen /\ drawn <= drawn'
    BY RowFacts, Numbers DEF TypeOK, Rows, Advances, RowAdvances
  <1>2. ASSUME NEW c \in Compute, NEW g \in Gens, objs[<<c, g>>].phase # "none"
        PROVE  /\ g <= row'.gen /\ objs[<<c, g>>].uid # NoUid
               /\ objs[<<c, g>>].mounts # NoDisk => objs[<<c, g>>].mounts <= drawn'
    <2>1. PICK m \in Nat : m = objs[<<c, g>>].mounts
      BY PlacedFacts
    <2>2. g <= row.gen /\ objs[<<c, g>>].uid # NoUid /\ (m # NoDisk => m <= drawn)
      BY <1>2, <2>1, PlacedFacts
    <2>3. g \in Nat
      BY Numbers
    <2>4. g <= row'.gen
      BY <1>1, <2>2, <2>3
    <2>5. m # NoDisk => m <= drawn'
      BY <1>1, <2>2
    <2>6. QED
      BY <2>1, <2>2, <2>4, <2>5
  <1>3. ASSUME NEW c \in Compute
        PROVE  row'.uid[c] <= objs[<<c, row'.gen>>].uid
    <2>1. CASE row'.uid = row.uid /\ row'.gen = row.gen
      BY <2>1 DEF Placed
    <2>2. CASE row'.uid = NoUids
      <3>1. PICK uid \in Nat : uid = objs[<<c, row'.gen>>].uid
        BY <1>1, PlacedFacts
      <3>2. NoUids[c] = 0 /\ 0 <= uid
        BY DEF NoUids, NoUid
      <3>3. QED
        BY <2>2, <3>1, <3>2
    <2>3. QED
      BY <2>1, <2>2
  <1>4. QED
    BY <1>2, <1>3 DEF Placed

LEMMA TenantStays ==
    ASSUME IInv, TypeOK', Advances, objs' = objs, row'.gen = row.gen \/ row'.disk = NoDisk
    PROVE  OneTenant'
  <1> USE DEF IInv, DeploymentsSound
  <1>1. "guest" \in Compute /\ drawn \in Nat
    BY DEF Compute, TypeOK
  <1>2. ASSUME NEW g \in Gens, objs[<<"guest", g>>].phase # "none", objs[<<"guest", g>>].mounts = row'.disk,
               row'.disk # NoDisk
        PROVE  g = row'.gen
    <2>1. PICK m \in Nat : m = objs[<<"guest", g>>].mounts
      BY <1>1, PlacedFacts
    <2>2. m <= drawn
      BY <1>1, <1>2, <2>1, PlacedFacts
    <2>3. row'.disk # drawn + 1
      BY <1>1, <1>2, <2>1, <2>2
    <2>4. row'.disk = row.disk
      BY <1>2, <2>3 DEF Advances, RowAdvances
    <2>5. QED
      BY <1>2, <2>4 DEF OneTenant
  <1>3. QED
    BY <1>2 DEF OneTenant

\* A claim begins where nothing is left.
LEMMA DeploymentsClaimed ==
    ASSUME IInv, TypeOK', Advances, objs' = objs, row'.status = "creating", row'.gen = row.gen, row'.uid = NoUids,
           row.status \in {"none", "stopped", "recovering"}
    PROVE  DeploymentsSound'
  <1> USE DEF IInv, DeploymentsSound
  <1>1. "guest" \in Compute /\ \A c \in Compute : NoUids[c] = NoUid
    BY DEF Compute, NoUids
  <1>2. \A c \in Compute : objs[<<c, row.gen>>].phase = "none"
    BY DEF NoneAtRest
  <1>3. Placed' /\ OneTenant'
    BY PlacedStay, TenantStays
  <1>4. QED
    BY <1>1, <1>2, <1>3 DEF NoneAtRest, BuiltSoFar, Whole, UidsAgree

\* A session comes to rest where nothing is left.
LEMMA DeploymentsRest ==
    ASSUME IInv, TypeOK', Advances, objs' = objs, row'.status \notin {"creating", "ready", "shutting_down"},
           row'.uid = NoUids \/ (row'.uid = row.uid /\ row'.gen = row.gen), row'.gen = row.gen \/ row'.disk = NoDisk,
           row'.status # "failed" => \A c \in Compute : objs[<<c, row'.gen>>].phase = "none"
    PROVE  DeploymentsSound'
  <1>1. Placed' /\ OneTenant'
    BY PlacedStay, TenantStays
  <1>2. QED
    BY <1>1 DEF DeploymentsSound, NoneAtRest, BuiltSoFar, Whole, UidsAgree

LEMMA DeploymentsShrink ==
    ASSUME IInv, row' = row, drawn' = drawn, Shrinks, Spares
    PROVE  DeploymentsSound'
  <1> USE DEF IInv, DeploymentsSound
  <1>1. row.gen \in Gens /\ "guest" \in Compute
    BY RowFacts DEF Compute
  <1>2. \A c \in Compute :
          /\ objs'[<<c, row.gen>>].uid = objs[<<c, row.gen>>].uid
          /\ objs'[<<c, row.gen>>].phase # "none" =>
              objs[<<c, row.gen>>].phase # "none" /\ objs'[<<c, row.gen>>].mounts = objs[<<c, row.gen>>].mounts
    BY <1>1 DEF Shrinks
  <1>3. Placed'
    BY <1>2 DEF Placed, Shrinks
  <1>4. OneTenant'
    BY <1>1 DEF OneTenant, Shrinks
  <1>5. NoneAtRest'
    BY <1>2 DEF NoneAtRest
  <1>6. BuiltSoFar'
    BY <1>1, <1>2 DEF BuiltSoFar, Spares
  <1>7. Whole'
    <2>1. ASSUME row.status = "ready"
          PROVE  /\ \A c \in Compute : objs'[<<c, row.gen>>].phase = "up"
                 /\ objs'[<<"guest", row.gen>>].mounts = row.disk
      <3>1. \A c \in Compute : objs'[<<c, row.gen>>].phase = "up"
        BY <2>1 DEF Whole, Spares
      <3>2. objs'[<<"guest", row.gen>>].phase # "none"
        BY <1>1, <3>1
      <3>3. QED
        BY <1>1, <1>2, <2>1, <3>1, <3>2 DEF Whole
    <2>2. QED
      BY <2>1 DEF Whole
  <1>8. UidsAgree'
    BY <1>2 DEF UidsAgree
  <1>9. QED
    BY <1>3, <1>4, <1>5, <1>6, <1>7, <1>8

\* A create lands where it is awaited, or beside the session.
LEMMA DeploymentsLand ==
    ASSUME IInv, TypeOK', NEW call \in landing, Land(call), call.part # "disk"
    PROVE  DeploymentsSound'
  <1> USE DEF IInv, DeploymentsSound
  <1>1. /\ call.part \in Compute /\ call.gen \in Gens /\ call.disk \in Disks /\ call.disk \in Nat /\ CallSound(call)
    BY CallNumbers DEF LandingSound
  <1>2. row' = row /\ drawn' = drawn
    BY DEF Land, database, bounds
  <1>3. CASE objs' = objs
    BY <1>2, <1>3 DEF Placed, OneTenant, NoneAtRest, BuiltSoFar, Whole, UidsAgree
  <1>4. CASE objs[<<call.part, call.gen>>].phase = "none"
    <2> DEFINE p == call.part
               g == call.gen
    <2>1. /\ objs'[<<p, g>>].phase = "up" /\ objs'[<<p, g>>].uid = objs[<<p, g>>].uid + 1
          /\ objs'[<<p, g>>].mounts = IF p = "guest" THEN call.disk ELSE NoDisk
          /\ \A c \in Compute, x \in Gens : <<c, x>> # <<p, g>> => objs'[<<c, x>>] = objs[<<c, x>>]
      BY <1>4, LandFacts
    <2>2. PICK uid \in Nat : uid = objs[<<p, g>>].uid
      BY <1>1, PlacedFacts
    <2>3. objs'[<<p, g>>].uid # NoUid /\ uid <= uid + 1 /\ objs'[<<p, g>>].uid = uid + 1
      BY <2>1, <2>2 DEF NoUid
    <2>4. g <= row.gen /\ call.disk <= drawn /\ row.gen \in Gens
      BY <1>1, RowFacts DEF CallSound
    <2>5. \A c \in Compute, x \in Gens : (c = p /\ x = g) \/ objs'[<<c, x>>] = objs[<<c, x>>]
      BY <2>1
    <2>6. objs'[<<p, g>>].mounts # NoDisk => p = "guest" /\ objs'[<<p, g>>].mounts = call.disk
      BY <2>1
    <2>7. p = "guest" => objs'[<<p, g>>].mounts = call.disk
      BY <2>1
    <2> HIDE DEF p, g
    <2>8. ASSUME NEW c \in Compute, NEW x \in Gens, objs'[<<c, x>>].phase # "none"
          PROVE  /\ x <= row.gen /\ objs'[<<c, x>>].uid # NoUid
                 /\ objs'[<<c, x>>].mounts # NoDisk => objs'[<<c, x>>].mounts <= drawn
      <3>1. CASE c = p /\ x = g
        BY <2>3, <2>4, <2>6, <3>1
      <3>2. CASE objs'[<<c, x>>] = objs[<<c, x>>]
        BY <2>8, <3>2 DEF Placed
      <3>3. QED
        BY <2>5, <3>1, <3>2
    <2>9. ASSUME NEW c \in Compute
          PROVE  row.uid[c] <= objs'[<<c, row.gen>>].uid
      <3>1. CASE c = p /\ row.gen = g
        <4>1. PICK known \in Nat : known = row.uid[c]
          BY RowFacts
        <4>2. known <= uid
          BY <2>2, <3>1, <4>1 DEF Placed
        <4>3. known <= uid + 1
          BY <4>2
        <4>4. QED
          BY <2>3, <3>1, <4>1, <4>3
      <3>2. CASE objs'[<<c, row.gen>>] = objs[<<c, row.gen>>]
        BY <3>2 DEF Placed
      <3>3. QED
        BY <2>4, <2>5, <3>1, <3>2
    <2>10. Placed'
      BY <1>2, <2>8, <2>9 DEF Placed
    <2>11. OneTenant'
      <3>1. ASSUME NEW x \in Gens, objs'[<<"guest", x>>].phase # "none", objs'[<<"guest", x>>].mounts = row.disk,
                   row.disk # NoDisk
            PROVE  x = row.gen
        <4>1. CASE "guest" = p /\ x = g
          <5>1. call.part = "guest" /\ call.disk = row.disk
            BY <2>7, <3>1, <4>1 DEF p
          <5>2. QED
            BY <1>1, <4>1, <5>1 DEF CallSound, g
        <4>2. CASE objs'[<<"guest", x>>] = objs[<<"guest", x>>]
          BY <3>1, <4>2 DEF OneTenant
        <4>3. QED
          BY <2>5, <4>1, <4>2 DEF Compute
      <3>2. QED
        BY <1>2, <3>1 DEF OneTenant
    <2>12. row.status \notin {"creating", "failed"} =>
              \A c \in Compute : objs'[<<c, row.gen>>] = objs[<<c, row.gen>>]
      BY <1>1, <2>4, <2>5 DEF CallSound, g
    <2>13. NoneAtRest' /\ Whole' /\ UidsAgree'
      <3>1. NoneAtRest'
        BY <1>2, <2>12 DEF NoneAtRest
      <3>2. Whole'
        BY <1>2, <2>12 DEF Whole, Compute
      <3>3. UidsAgree'
        BY <1>2, <2>12 DEF UidsAgree
      <3>4. QED
        BY <3>1, <3>2, <3>3
    <2>14. BuiltSoFar'
      <3>1. ASSUME row.status = "creating"
            PROVE  /\ \A c \in Compute :
                        row.uid[c] # NoUid => objs'[<<c, row.gen>>].phase = "up" /\ objs'[<<c, row.gen>>].uid = row.uid[c]
                   /\ objs'[<<"guest", row.gen>>].phase # "none" => objs'[<<"guest", row.gen>>].mounts = row.disk
        <4>1. g = row.gen => row.uid[p] = NoUid /\ call.disk = row.disk
          BY <1>1, <3>1 DEF CallSound, g, p
        <4>2. ASSUME NEW c \in Compute, row.uid[c] # NoUid
              PROVE  objs'[<<c, row.gen>>].phase = "up" /\ objs'[<<c, row.gen>>].uid = row.uid[c]
          <5>1. objs'[<<c, row.gen>>] = objs[<<c, row.gen>>]
            BY <2>4, <2>5, <4>1, <4>2
          <5>2. QED
            BY <3>1, <4>2, <5>1 DEF BuiltSoFar
        <4>3. ASSUME objs'[<<"guest", row.gen>>].phase # "none"
              PROVE  objs'[<<"guest", row.gen>>].mounts = row.disk
          <5>1. CASE "guest" = p /\ row.gen = g
            BY <2>7, <4>1, <5>1
          <5>2. CASE objs'[<<"guest", row.gen>>] = objs[<<"guest", row.gen>>]
            BY <3>1, <4>3, <5>2 DEF BuiltSoFar
          <5>3. QED
            BY <2>4, <2>5, <5>1, <5>2 DEF Compute
        <4>4. QED
          BY <4>2, <4>3
      <3>2. QED
        BY <1>2, <3>1 DEF BuiltSoFar
    <2>15. QED
      BY <2>10, <2>11, <2>13, <2>14
  <1>5. QED
    BY <1>3, <1>4, LandFacts

LEMMA DeploymentsStep ==
    ASSUME IInv, [Next]_vars, TypeOK', Advances
    PROVE  DeploymentsSound'
  <1> USE DEF IInv
  <1>1. CASE row' = row /\ drawn' = drawn /\ Shrinks /\ Spares
    BY <1>1, DeploymentsShrink
  <1>2. CASE \E call \in landing : Land(call) /\ call.part # "disk"
    BY <1>2, DeploymentsLand
  <1>3. SUFFICES ASSUME objs' = objs
                 PROVE  DeploymentsSound'
    BY <1>1, <1>2, ObjsStep
  <1>4. CASE UNCHANGED <<row, drawn>>
    BY <1>3, <1>4 DEF DeploymentsSound, Placed, OneTenant, NoneAtRest, BuiltSoFar, Whole, UidsAgree
  <1>5. CASE Provision
    <2>1. /\ row'.status = "creating" /\ row'.gen = row.gen /\ row'.uid = NoUids
          /\ row.status \in {"none", "stopped"}
      BY <1>5, ProvisionFacts DEF Provision, Provisioned, RowIs
    <2>2. QED
      BY <1>3, <2>1, DeploymentsClaimed
  <1>6. CASE RescueFinish
    <2>1. row'.status = "creating" /\ row'.gen = row.gen /\ row'.uid = NoUids /\ row.status = "recovering"
      BY <1>6, RescueFacts DEF RescueFinish, Standing, Rescued, RowIs
    <2>2. QED
      BY <1>3, <2>1, DeploymentsClaimed
  <1>7. CASE MarkReady
    <2>1. /\ row'.status = "ready" /\ row'.gen = row.gen /\ row'.uid = row.uid /\ row'.disk = row.disk
          /\ row.status = "creating" /\ \A c \in Compute : row.uid[c] # NoUid
      BY <1>7, ReadyTyped DEF MarkReady, MovedTo, RowIs
    <2>2. \A c \in Compute : objs[<<c, row.gen>>].phase = "up" /\ objs[<<c, row.gen>>].uid = row.uid[c]
      BY <2>1 DEF DeploymentsSound, BuiltSoFar
    <2>3. objs[<<"guest", row.gen>>].mounts = row.disk
      BY <2>1, <2>2 DEF DeploymentsSound, BuiltSoFar, Compute
    <2>4. Placed' /\ OneTenant'
      BY <1>3, <2>1, PlacedStay, TenantStays
    <2>5. QED
      BY <1>3, <2>1, <2>2, <2>3, <2>4 DEF DeploymentsSound, NoneAtRest, BuiltSoFar, Whole, UidsAgree
  <1>8. CASE Idle
    <2>1. /\ row'.status = "shutting_down" /\ row'.gen = row.gen /\ row'.uid = row.uid /\ row'.disk = row.disk
          /\ row.status = "ready"
      BY <1>8, IdleTyped DEF Idle, MovedTo, RowIs
    <2>2. Placed' /\ OneTenant'
      BY <1>3, <2>1, PlacedStay, TenantStays
    <2>3. UidsAgree'
      BY <1>3, <2>1 DEF DeploymentsSound, UidsAgree
    <2>4. QED
      BY <2>1, <2>2, <2>3 DEF DeploymentsSound, NoneAtRest, BuiltSoFar, Whole
  <1>9. CASE Recover
    <2>1. row'.status = "recovering" /\ row'.gen = row.gen + 1 /\ row'.disk = NoDisk /\ row'.uid = NoUids
      BY <1>9, RecoverFacts DEF Condemned, RowIs
    <2>2. ~(row.gen + 1 <= row.gen) /\ row.gen + 1 \in Gens
      BY <2>1, RowFacts DEF TypeOK, Rows
    <2>3. \A c \in Compute : objs[<<c, row'.gen>>].phase = "none"
      BY <2>1, <2>2 DEF DeploymentsSound, Placed
    <2>4. QED
      BY <1>3, <2>1, <2>3, DeploymentsRest
  <1>10. CASE AdmitSighting
    <2>1. drawn' = drawn
      BY <1>10 DEF AdmitSighting, bounds
    <2>2. CASE Serviced
      <3>1. row'.status = "service" /\ row'.gen = row.gen /\ row'.uid = row.uid /\ row.status = "stopped"
        BY <2>2 DEF Serviced, RowIs
      <3>2. \A c \in Compute : objs[<<c, row'.gen>>].phase = "none"
        BY <3>1 DEF DeploymentsSound, NoneAtRest
      <3>3. QED
        BY <1>3, <3>1, <3>2, DeploymentsRest
    <2>3. CASE row' = row
      BY <1>4, <2>1, <2>3
    <2>4. QED
      BY <1>10, <2>2, <2>3, AdmitTyped DEF Orphaned
  <1>11. ASSUME NEW b \in builders, BuildCreate(b) \/ BuildRecord(b) \/ BuildFails(b) \/ BuilderDies(b)
         PROVE  DeploymentsSound'
    <2>1. drawn' = drawn
      BY <1>11 DEF BuildCreate, BuildRecord, BuildFails, BuilderDies, bounds
    <2>2. CASE row' = row
      BY <1>4, <2>1, <2>2
    <2>3. CASE BuildRecord(b) /\ Holds(b)
      <3>1. Learned(b) /\ b.gen = row.gen /\ row.status = "creating" /\ row.gen \in Gens
        BY <2>3, LearnedFacts, RowFacts DEF Holds
      <3>2. row'.status = "creating" /\ row'.gen = row.gen /\ row'.disk = row.disk
        BY <3>1 DEF Learned
      <3>3. OneTenant'
        BY <1>3, <3>2, TenantStays
      <3>4. ASSUME NEW c \in Compute
            PROVE  \/ row'.uid[c] = row.uid[c]
                   \/ row'.uid[c] = objs[<<c, row.gen>>].uid /\ objs[<<c, row.gen>>].phase = "up"
        <4>1. CASE b.stage = "disk" \/ c # b.stage
          BY <3>1, <4>1 DEF Learned
        <4>2. CASE b.stage # "disk" /\ c = b.stage
          BY <2>3, <3>1, <4>2 DEF Learned, BuildRecord, Intact
        <4>3. QED
          BY <4>1, <4>2
      <3>5. Placed'
        <4>1. ASSUME NEW c \in Compute
              PROVE  row'.uid[c] <= objs[<<c, row.gen>>].uid
          <5>1. PICK uid \in Nat : uid = objs[<<c, row.gen>>].uid
            BY <3>1, PlacedFacts DEF DeploymentsSound
          <5>2. row.uid[c] <= uid /\ uid <= uid
            BY <5>1 DEF DeploymentsSound, Placed
          <5>3. QED
            BY <3>4, <5>1, <5>2
        <4>2. QED
          BY <1>3, <2>1, <3>2, <4>1 DEF DeploymentsSound, Placed
      <3>6. BuiltSoFar'
        BY <1>3, <3>1, <3>2, <3>4 DEF DeploymentsSound, BuiltSoFar
      <3>7. QED
        BY <3>2, <3>3, <3>5, <3>6 DEF DeploymentsSound, NoneAtRest, Whole, UidsAgree
    <2>4. CASE BuildFails(b) /\ Holds(b)
      <3>1. row'.status = "failed" /\ row'.gen = row.gen /\ row'.uid = row.uid
        BY <2>4, MovedTyped DEF BuildFails, TypeOK, Statuses
      <3>2. QED
        BY <1>3, <3>1, DeploymentsRest
    <2>5. QED
      BY <1>11, <2>2, <2>3, <2>4 DEF BuildCreate, BuildRecord, BuildFails, BuilderDies, database
  <1>12. ASSUME NEW e \in execs, ExecEnd(e)
         PROVE  DeploymentsSound'
    <2>1. drawn' = drawn
      BY <1>12 DEF ExecEnd, bounds
    <2>2. CASE row' = row
      BY <1>4, <2>1, <2>2
    <2>3. CASE Ended(e) /\ EndedIdle(e)
      <3>1. /\ row'.status = "stopped" /\ row'.gen = row.gen /\ row'.uid = NoUids
            /\ e.left = {} /\ ~e.pending /\ e.work.kind = "idle" /\ e.work.at = row.at
        BY <2>3 DEF Ended, EndedIdle, Stopped, RowIs
      <3>2. \A c \in Compute : objs[<<c, row'.gen>>].phase = "none"
        BY <3>1 DEF ExecsSound, ExecSound
      <3>3. QED
        BY <1>3, <3>1, <3>2, DeploymentsRest
    <2>4. CASE EndedReap(e) \/ EndedService(e)
      <3>1. /\ row'.status = "stopped" /\ row'.gen = row.gen /\ row'.uid \in {NoUids, row.uid}
            /\ row.status \in {"stopped", "service"}
        BY <2>4 DEF EndedReap, EndedService, Stopped, RowIs
      <3>2. \A c \in Compute : objs[<<c, row'.gen>>].phase = "none"
        BY <3>1 DEF DeploymentsSound, NoneAtRest
      <3>3. QED
        BY <1>3, <3>1, <3>2, DeploymentsRest
    <2>5. QED
      BY <1>12, <2>2, <2>3, <2>4, EndTyped DEF Ended, EndedOrphan
  <1>13. CASE RescueFails \/ RescueDies
    <2>1. drawn' = drawn
      BY <1>13 DEF RescueFails, RescueDies
    <2>2. CASE row' = row
      BY <1>4, <2>1, <2>2
    <2>3. CASE GivenUp
      <3>1. row'.status = "failed" /\ row'.gen = row.gen /\ row'.uid = row.uid
        BY <2>3 DEF GivenUp, RowIs
      <3>2. QED
        BY <1>3, <3>1, DeploymentsRest
    <2>4. QED
      BY <1>13, <2>2, <2>3, RescueEndsTyped
  <1>14. CASE \/ Reap \/ Condemn \/ Suspect \/ \E g \in Gens : Sight(g)
              \/ \E call \in landing : Land(call)
              \/ \E c \in Compute, g \in Gens : ComputeGone(c, g)
              \/ \E d \in Disks : DiskGone(d)
              \/ \E e \in execs : ExecCheck(e) \/ ExecAct(e) \/ ExecDies(e) \/ LockLost(e)
    BY <1>4, <1>14 DEF Reap, Condemn, Suspect, Sight, Land, ComputeGone, DiskGone, ExecCheck, ExecAct,
       ExecDies, LockLost, database, bounds
  <1>15. CASE \/ \E w \in works : PublishShutdown(w) \/ ExecStart(w)
              \/ \E t \in shutdowns : ShutdownAck(t)
              \/ RescueStart \/ RescueCheck \/ RescueAct \/ UNCHANGED vars
    BY <1>4, <1>15 DEF PublishShutdown, ExecStart, ShutdownAck, RescueStart, RescueCheck, RescueAct,
       vars, database, bounds
  <1>16. QED
    BY <1>5, <1>6, <1>7, <1>8, <1>9, <1>10, <1>11, <1>12, <1>13, <1>14, <1>15, NextCases

-----------------------------------------------------------------------------
(* The invariant, and what the runs check. *)

LEMMA InitInv == Init => IInv
  <1> SUFFICES ASSUME Init PROVE IInv
    OBVIOUS
  <1>1. NoUids \in [Compute -> Nat] /\ \A c \in Compute : NoUids[c] = 0
    BY DEF NoUids, NoUid
  <1>2. /\ row.status = "none" /\ row.gen = 1 /\ row.at = 0 /\ row.disk = NoDisk /\ row.bound = FALSE
        /\ row.uid = NoUids /\ row \in Rows
    <2>1. PICK no \in BOOLEAN : no = FALSE
      OBVIOUS
    <2>2. row = [status |-> "none", gen |-> 1, at |-> 0, disk |-> NoDisk, bound |-> no, uid |-> NoUids]
      BY <2>1 DEF Init
    <2> HIDE <2>1
    <2>3. row \in Rows
      BY <1>1, <2>2, Numbers DEF Rows, Statuses, MaybeDisk
    <2> USE <2>1
    <2>4. QED
      BY <2>1, <2>2, <2>3
  <1>3. \A c \in Compute, g \in Gens : objs[<<c, g>>].phase = "none" /\ objs[<<c, g>>].uid = 0
    BY DEF Init, NoUid
  <1>4. objs \in [Compute \X Gens -> Objects]
    <2>1. [phase |-> "none", uid |-> NoUid, mounts |-> NoDisk] \in Objects
      BY DEF Objects, MaybeDisk, NoUid
    <2>2. QED
      BY <2>1 DEF Init
  <1>5. disks \in [Disks -> Volumes] /\ \A d \in Disks : disks[d].phase = "absent"
    BY DEF Init, Volumes
  <1>6. pvcs \in [Disks -> Records]
    BY FreshTyped DEF Init
  <1>7. /\ works = {} /\ landing = {} /\ builders = {} /\ execs = {} /\ rescue = NoRescue
        /\ verdicts = {} /\ sighting = NoSighting /\ recorded = {} /\ drawn = 0 /\ faults = 0 /\ resumes = 0
    BY DEF Init
  <1>8. rescue \in [at : Nat, strike : SUBSET Targets, pending : SUBSET Targets]
        /\ rescue.strike \cup rescue.pending = {}
    BY <1>7 DEF NoRescue
  <1>9. sighting \in [gen : Nat, seen : SUBSET Targets] /\ sighting.seen = {}
    BY <1>7 DEF NoSighting
  <1>10. TypeOK
    BY <1>2, <1>4, <1>5, <1>6, <1>7, <1>8, <1>9 DEF TypeOK
  <1>11. RowAgrees
    BY <1>2 DEF RowAgrees
  <1>12. WithinBounds
    <2>1. ~Spent
      BY <1>2, <1>7 DEF Spent, Lost
    <2>2. Ordinary \in Nat
      BY <1>10, OrdinaryGrows, LifecycleAssumption DEF Ordinary, TypeOK, LifecycleAssumption
    <2>3. faults <= MaxFaults + MaxRescueFaults /\ resumes <= MaxResumes
      BY <1>7, Numbers
    <2>4. row.gen <= faults + 1 /\ drawn <= 1 + resumes + Ordinary
      BY <1>2, <1>7, <2>2
    <2>5. QED
      BY <1>2, <1>7, <2>1, <2>3, <2>4 DEF WithinBounds
  <1>13. BuildersSound /\ LandingSound /\ WorksSound /\ ExecsSound
    BY <1>7 DEF BuildersSound, LandingSound, WorksSound, ExecsSound
  <1>14. DeploymentsSound
    <2>1. "guest" \in Compute /\ 1 \in Gens /\ \A c \in Compute : row.uid[c] = 0
      BY <1>1, <1>2, Numbers DEF Compute
    <2>2. \A c \in Compute : row.uid[c] <= objs[<<c, row.gen>>].uid
      BY <1>2, <1>3, <2>1
    <2>3. Placed
      BY <1>3, <2>2 DEF Placed
    <2>4. QED
      BY <1>2, <1>3, <2>1, <2>3 DEF DeploymentsSound, OneTenant, NoneAtRest, BuiltSoFar, Whole, UidsAgree
  <1>15. DisksSound
    BY <1>2, <1>5, <1>7 DEF DisksSound, DrawnDisks, OwnDisk, RecordedDisks
  <1>16. RescueSound /\ SightingSound
    BY <1>8, <1>9 DEF RescueSound, SightingSound
  <1>17. QED
    BY <1>10, <1>11, <1>12, <1>13, <1>14, <1>15, <1>16 DEF IInv

LEMMA InvStep == IInv /\ [Next]_vars => IInv'
  <1> SUFFICES ASSUME IInv, [Next]_vars PROVE IInv'
    OBVIOUS
  <1>1. TypeOK' /\ Advances
    BY TypeStep, StepAdvances
  <1>2. RowAgrees' /\ WithinBounds' /\ BuildersSound' /\ LandingSound'
    BY <1>1, RowAgreesStep, BoundsStep, BuildersStep, LandingStep
  <1>3. DeploymentsSound' /\ DisksSound'
    BY <1>1, DeploymentsStep, DisksStep
  <1>4. WorksSound' /\ ExecsSound' /\ RescueSound' /\ SightingSound'
    BY <1>1, WorksStep, ExecsStep, RescueStep, SightingStep
  <1>5. QED
    BY <1>1, <1>2, <1>3, <1>4 DEF IInv

LEMMA Invariance == Spec => []IInv
  BY InitInv, InvStep, PTL DEF Spec

\* The row, the records, the works and what the cluster holds are of their types
\* in every reachable state, and no sandbox id or disk is drawn that a failure or
\* a resume has not paid for.
THEOREM LifecycleTypes == Spec => [](TypeOK /\ WithinBounds)
  <1>1. IInv => TypeOK /\ WithinBounds
    BY DEF IInv
  <1>2. QED
    BY <1>1, Invariance, PTL

\* The row moves with its disk record (SessionRepository turns both
\* in one transaction), and a session that runs or rests with a disk
\* knows that disk by its UID.
THEOREM RowAndRecordAgree == Spec => []RowAgrees
  <1>1. IInv => RowAgrees
    BY DEF IInv
  <1>2. QED
    BY <1>1, Invariance, PTL

\* The workspace a session is mapped to, and one an idle work is to keep, is
\* never deleted outside a reaping: late verdicts, stale executors and orphan
\* sweeps all meet an ownership check that still covers it.
THEOREM WorkspaceStaysKept == Spec => []WorkspaceKept
  <1>1. IInv => WorkspaceKept
    <2> SUFFICES ASSUME IInv PROVE WorkspaceKept
      OBVIOUS
    <2> USE DEF IInv
    <2>1. row.disk # NoDisk /\ row.bound /\ PvcState # "destroying" => disks[row.disk].phase = "up"
      BY DEF DisksSound, OwnDisk
    <2>2. ASSUME NEW w \in works, NEW t \in w.targets, t.retain
          PROVE  disks[t.disk].phase = "up"
      <3>1. t.disk = row.disk /\ row.status = "shutting_down"
        BY <2>2 DEF WorksSound, WorkSound
      <3>2. row.disk # NoDisk /\ row.bound /\ PvcState = "detaching"
        BY <3>1 DEF RowAgrees, DiskStates
      <3>3. QED
        BY <2>1, <3>1, <3>2
    <2>3. QED
      BY <2>1, <2>2 DEF WorkspaceKept
  <1>2. QED
    BY <1>1, Invariance, PTL

\* A ready session has all it runs on: mark_ready finds both Deployments as
\* recorded and the session's own disk under the guest, and no delete that was
\* decided before reaches them afterwards.
THEOREM ReadySessionIsWhole == Spec => []ReadyIsWhole
  <1>1. IInv => ReadyIsWhole
    <2> SUFFICES ASSUME IInv, row.status = "ready"
                 PROVE  /\ \A c \in Compute : objs[<<c, row.gen>>].phase = "up" /\ objs[<<c, row.gen>>].uid = row.uid[c]
                        /\ objs[<<"guest", row.gen>>].mounts = row.disk
                        /\ disks[row.disk].phase = "up"
      BY DEF ReadyIsWhole
    <2> USE DEF IInv
    <2>1. row.disk # NoDisk /\ row.bound /\ PvcState = "attached"
      BY DEF RowAgrees, DiskStates
    <2>2. disks[row.disk].phase = "up"
      BY <2>1 DEF DisksSound, OwnDisk
    <2>3. QED
      BY <2>2 DEF DeploymentsSound, Whole, UidsAgree
  <1>2. QED
    BY <1>1, Invariance, PTL

\* A stopped session's disk is free to be mounted again: nothing of the old
\* sandbox exists or is about to; and no record is dropped before its disk is gone.
THEOREM DisksAreAccounted == Spec => []DiskAccounted
  <1>1. IInv => DiskAccounted
    <2> SUFFICES ASSUME IInv PROVE DetachedIsUnused /\ RecordOutlivesDisk
      BY DEF DiskAccounted
    <2> USE DEF IInv
    <2>1. ASSUME row.status = "stopped", PvcState = "detached"
          PROVE  /\ \A c \in Compute : objs[<<c, row.gen>>].phase = "none"
                 /\ \A call \in landing : call.gen # row.gen
                 /\ ~Mounted(row.disk)
      <3>1. \A c \in Compute : objs[<<c, row.gen>>].phase = "none"
        BY <2>1 DEF DeploymentsSound, NoneAtRest
      <3>2. row.disk # NoDisk
        BY <2>1 DEF PvcState
      <3>3. ~Mounted(row.disk)
        BY <3>1, <3>2 DEF Mounted, DeploymentsSound, OneTenant, Compute
      <3>4. QED
        BY <2>1, <3>1, <3>3, NothingComes
    <2>2. RecordOutlivesDisk
      BY DEF DisksSound, RecordedDisks, RecordOutlivesDisk
    <2>3. QED
      BY <2>1, <2>2 DEF DetachedIsUnused
  <1>2. QED
    BY <1>1, Invariance, PTL
=============================================================================
