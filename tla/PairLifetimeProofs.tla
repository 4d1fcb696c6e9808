------------------------- MODULE PairLifetimeProofs -------------------------
(***************************************************************************)
(* Machine-checked safety of the paired resources of a session, for any    *)
(* number of generations, failures and idle shutdowns: a retired generation *)
(* is quiet, a teardown leaves what it must, and the resources implement   *)
(* the one-tenant promise of DiskTenancy.                                  *)
(***************************************************************************)
EXTENDS PairLifetime, TLAPS

Statuses == {"none", "creating", "ready", "failed", "shutting_down", "stopped", "recovering"}
Volume == {"none", "attaching", "attached", "detaching", "detached", "destroying"}
Disps == [Members -> {"unissued", "inflight", "settled"}]
Uids == [Objects -> Gens \cup {NoUid}]
Rows == [status : Statuses, sb : Nat, gen : Gens \cup {NoGen}, pvc : Volume]
Intents ==
    [born : BOOLEAN, sb : Nat, from : Gens \cup {NoGen}, fenced : BOOLEAN, retired : BOOLEAN,
     validated : BOOLEAN, disp : Disps, uid : Uids]
Works ==
    [kind : {"idle", "recovery", "reap"}, sb : Nat, gen : Gens \cup {NoGen}, acked : BOOLEAN,
     sealed : BOOLEAN, disp : Disps, uid : Uids]
Builders == [gen : Gens \cup {NoGen}, resume : BOOLEAN, at : 0..13, waits : BOOLEAN]
Writes == [m : Members, gen : Gens, done : BOOLEAN]

TypeOK ==
    /\ row \in Rows
    /\ intents \in [Gens -> Intents]
    /\ disposals \subseteq Gens
    /\ works \subseteq Works
    /\ objs \subseteq [m : Objects, sb : Nat, gen : Gens]
    /\ writes \subseteq Writes
    /\ wire \subseteq [m : Members, gen : Gens]
    /\ builder \in Builders
    /\ rebuilt \subseteq Nat

Resumed(g) == intents[g].from # NoGen
Inherits(g, m) == Resumed(g) /\ m \in Kept

ClaimsInOrder ==
    /\ row.status # "none" => row.gen \in Gens
    /\ row.status = "none" => row.pvc = "none"
    /\ \A g \in Gens : intents[g].born => g <= row.gen
    /\ \A g \in Gens : Live(g) => g = row.gen
    /\ \A g \in Gens : intents[g].retired => intents[g].born
    /\ row.status \in {"creating", "failed"} => ~intents[row.gen].retired
    /\ row.status \in {"ready", "shutting_down"} => Live(row.gen)
    /\ row.status \in {"none", "stopped"} => \A g \in Gens : ~Live(g)
    /\ row.status = "stopped" /\ row.pvc # "none" => intents[row.gen].born
    /\ builder.gen = NoGen => builder = NoBuilder
    /\ builder.gen # NoGen =>
        /\ row.status = "creating" /\ builder.gen = row.gen
        /\ (builder.at = 0) <=> ~intents[row.gen].born
        /\ builder.waits => builder.at \in 1..Len(Plan) /\ ~Inherits(row.gen, Member)
                    /\ intents[row.gen].disp[Member] # "unissued"

SandboxesInOrder ==
    /\ \A g \in Gens : intents[g].born => intents[g].sb <= row.sb
    /\ row.status = "recovering" => \A g \in Gens : intents[g].born => intents[g].sb < row.sb
    /\ row.status \in {"creating", "ready", "failed", "shutting_down"}
            \/ (row.status = "stopped" /\ row.pvc # "none") =>
        (intents[row.gen].born => intents[row.gen].sb = row.sb)
    /\ builder.gen # NoGen /\ builder.at = 0 /\ ~builder.resume =>
        \A g \in Gens : intents[g].born => intents[g].sb # row.sb
    /\ builder.gen # NoGen /\ builder.at = 0 /\ builder.resume =>
        /\ row.gen - 1 \in Gens /\ intents[row.gen - 1].retired
        /\ intents[row.gen - 1].sb = row.sb
    /\ \A g, h \in Gens :
        Live(g) /\ intents[h].retired /\ intents[g].sb = intents[h].sb => Resumed(g)

LedgerSound ==
    \A g \in Gens :
        /\ \A m \in Objects : intents[g].uid[m] # NoUid => intents[g].disp[m] = "settled"
        /\ \A m \in Objects : ~Inherits(g, m) => intents[g].uid[m] \in {NoUid, g}
        /\ Resumed(g) => \A m \in Kept : intents[g].disp[m] = "settled"
        /\ Resumed(g) => intents[g].uid["workspace"] # NoUid
        /\ Live(g) /\ row.status \in {"ready", "shutting_down"} =>
            \A m \in Objects : intents[g].uid[m] # NoUid

WorkOf(w) ==
    /\ w.kind = "idle" => row.status = "shutting_down" /\ w.sb = row.sb /\ w.gen = row.gen
    /\ w.kind = "recovery" =>
        /\ row.status = "recovering" /\ w.sb < row.sb
        /\ w.gen # NoGen => Live(w.gen)
    /\ w.kind = "reap" =>
        /\ row.status = "stopped" /\ row.pvc = "destroying" /\ w.sb = row.sb /\ w.gen # NoGen
        /\ disposals # {} /\ w.uid = intents[w.gen].uid
WorksSound ==
    /\ disposals # {} => row.status = "stopped" /\ row.pvc = "destroying" /\ disposals = {row.gen}
    /\ \A v, w \in works : v.sb = w.sb => v = w
    /\ \A w \in works :
        /\ WorkOf(w)
        /\ w.gen # NoGen =>
            /\ intents[w.gen].born /\ w.sb = intents[w.gen].sb
            /\ \A m \in Objects : w.uid[m] \in {NoUid, w.gen, intents[w.gen].uid[m]}
            /\ w.sealed => intents[w.gen].fenced /\ WritersSettled(w)

CallsSound ==
    /\ \A c \in writes \cup wire : Live(c.gen) /\ intents[c.gen].disp[c.m] = "inflight"
    /\ \A c, d \in writes : c.m = d.m => c = d
    /\ \A c \in writes, d \in wire : c.m # d.m
    /\ \A c \in writes : c.m \in Objects => (c.done <=> Object(c.m, c.gen) \in objs)
    /\ \A c \in wire : c.m \in Objects => Object(c.m, c.gen) \notin objs

ObjectsSound ==
    \A o \in objs :
        /\ intents[o.gen].born /\ o.sb = intents[o.gen].sb /\ ~Inherits(o.gen, o.m)
        /\ intents[o.gen].disp[o.m] # "unissued"
        /\ intents[o.gen].retired => o.m \in Kept

Retained == IF row.sb \in rebuilt THEN {"workspace"} ELSE Kept
StorageStands ==
    /\ row.status \in {"creating", "ready"} =>
        \A m \in Objects :
            intents[row.gen].born /\ intents[row.gen].disp[m] = "settled" /\ ~Inherits(row.gen, m)
            => Object(m, row.gen) \in objs
    /\ row.status \in {"creating", "ready"} /\ intents[row.gen].born /\ Resumed(row.gen)
        => \A m \in Retained : Standing(m, row.gen)
    /\ row.status = "shutting_down" \/ (row.status = "stopped" /\ row.pvc = "detached")
        => \A m \in Retained : Standing(m, row.gen)
    /\ builder.gen # NoGen /\ builder.at = 0 /\ builder.resume
        => \A m \in Retained : Standing(m, row.gen - 1)

Disks == {o \in objs : o.m = "workspace"}
DiskOf(g) == IF Resumed(g) THEN intents[g].uid["workspace"] ELSE g
OneDisk ==
    /\ \A g \in Gens : Live(g) => \A o \in Disks : o.sb = intents[g].sb /\ o.gen = DiskOf(g)
    /\ \A g, h \in Gens :
        intents[g].retired /\ intents[h].born /\ intents[g].sb = row.sb /\ intents[h].sb = row.sb
        => intents[h].uid["workspace"] = intents[g].uid["workspace"] /\ intents[g].uid["workspace"] # NoUid
    /\ (\A g \in Gens : ~Live(g)) /\ row.status # "recovering" =>
        \A o \in Disks : o.sb = row.sb /\ \E h \in Gens :
            intents[h].retired /\ intents[h].sb = row.sb /\ o.gen = intents[h].uid["workspace"]
    /\ (\A g \in Gens : ~Live(g)) /\ row.status = "recovering" /\ Disks # {} =>
        \E w \in works : w.gen = NoGen /\ Lifetime(w.sb) # {}

IInv == TypeOK /\ ClaimsInOrder /\ SandboxesInOrder /\ LedgerSound /\ WorksSound /\ CallsSound
     /\ ObjectsSound /\ StorageStands /\ OneDisk

\* Of the sandbox of the latest claim that claim is the newest generation.
LEMMA NewestIsLatest ==
    ASSUME TypeOK, ClaimsInOrder, row.gen \in Gens, intents[row.gen].born,
           intents[row.gen].sb = row.sb
    PROVE  Newest(row.sb) = row.gen
<1>1. row.gen \in Lifetime(row.sb) /\ \A g \in Lifetime(row.sb) : g <= row.gen
  BY DEF Lifetime, ClaimsInOrder
<1>2. Newest(row.sb) \in Lifetime(row.sb) /\ \A g \in Lifetime(row.sb) : g <= Newest(row.sb)
  BY <1>1 DEF Newest
<1>3. QED
  BY <1>1, <1>2 DEF Lifetime, Gens

LEMMA PlanFacts ==
    /\ Len(Plan) = 12 /\ \A i \in 1..12 : Plan[i] \in Members
    /\ Members = {"control", "workspace", "clone", "topics", "compute", "custody", "input",
                  "key", "state", "egress", "ipcvol", "ipcpod"}
  BY DEF Plan, Members, Range
LEMMA MemberFacts ==
    /\ Objects = Members \ {"topics"} /\ Kept \subseteq Objects
    /\ Pods \subseteq Objects /\ Volumes \subseteq Objects
    /\ Pods \cap Kept = {} /\ "workspace" \in Kept
    /\ OwnNamed \subseteq Objects
  BY PlanFacts DEF Objects, Kept, Pods, Volumes, OwnNamed

LEMMA EmptyTyped == NoIntent \in Intents
  BY PlanFacts, MemberFacts DEF NoIntent, Intents, Disps, Uids, NoGen, NoUid

LEMMA RowTyped ==
    ASSUME NEW r \in Rows, NEW s \in Statuses, NEW p \in Volume
    PROVE  /\ [r EXCEPT !.status = s] \in Rows
           /\ [r EXCEPT !.status = s, !.pvc = p] \in Rows
           /\ [r EXCEPT !.pvc = p] \in Rows
           /\ [r EXCEPT !.sb = @ + 1, !.pvc = p] \in Rows
           /\ [r EXCEPT !.status = s, !.sb = @ + 1, !.pvc = p] \in Rows
<1>1. r.sb + 1 \in Nat
  BY DEF Rows
<1>2. QED
  BY <1>1 DEF Rows

LEMMA ClaimTyped ==
    ASSUME NEW r \in Rows, r.gen < MaxGen
    PROVE  /\ Claimed(r, "creating") \in Rows /\ r.gen + 1 \in Gens
           /\ Claimed(r, "creating").status = "creating" /\ Claimed(r, "creating").sb = r.sb
           /\ Claimed(r, "creating").gen = r.gen + 1 /\ Claimed(r, "creating").pvc = "attaching"
<1>1. r.gen + 1 \in Gens
  BY BoundAssumption DEF Rows, Gens, NoGen
<1>2. QED
  BY <1>1 DEF Claimed, Rows, Statuses, Volume

LEMMA IntentTyped ==
    ASSUME NEW i \in [Gens -> Intents], NEW g \in Gens
    PROVE  /\ [i EXCEPT ![g].retired = TRUE] \in [Gens -> Intents]
           /\ [i EXCEPT ![g].fenced = TRUE] \in [Gens -> Intents]
           /\ [i EXCEPT ![g].validated = TRUE] \in [Gens -> Intents]
           /\ \A m \in Members, d \in {"unissued", "inflight", "settled"} :
                [i EXCEPT ![g].disp[m] = d] \in [Gens -> Intents]
           /\ \A m \in Objects : [i EXCEPT ![g].uid[m] = g] \in [Gens -> Intents]
<1>1. \A m \in Members, d \in {"unissued", "inflight", "settled"} :
                [i EXCEPT ![g].disp[m] = d] \in [Gens -> Intents]
  BY DEF Intents, Disps
<1>2. ASSUME NEW m \in Objects PROVE [i EXCEPT ![g].uid[m] = g] \in [Gens -> Intents]
  BY DEF Intents, Uids
<1>3. /\ [i EXCEPT ![g].retired = TRUE] \in [Gens -> Intents]
      /\ [i EXCEPT ![g].fenced = TRUE] \in [Gens -> Intents]
      /\ [i EXCEPT ![g].validated = TRUE] \in [Gens -> Intents]
  BY DEF Intents
<1>4. QED
  BY <1>1, <1>2, <1>3

LEMMA WorkTyped ==
    ASSUME TypeOK, NEW kind \in {"idle", "recovery", "reap"}, NEW sb \in Nat, NEW g \in Gens \cup {NoGen}
    PROVE  Work(kind, sb, g) \in Works
<1>1. NoIntent.disp \in Disps /\ NoIntent.uid \in Uids
  BY EmptyTyped DEF Intents
<1>2. CASE g = NoGen
  BY <1>1, <1>2 DEF Work, Works
<1>3. CASE g # NoGen
  <2>1. intents[g] \in Intents
    BY <1>3 DEF TypeOK
  <2>2. intents[g].disp \in Disps /\ intents[g].uid \in Uids
    BY <2>1 DEF Intents
  <2>3. QED
    BY <1>3, <2>2 DEF Work, Works
<1>4. QED
  BY <1>2, <1>3

\* Every publication is a reservation or a binding of the current member.
LEMMA PublishingFacts == Publishing => Publish(Members)
  BY PlanFacts DEF Publishing, Publish, Building, Member, PublishControls, PublishVolumes, PublishTopics,
     PublishCompute, PublishKeys, PublishInputs, PublishStateKey, PublishState, PublishEgress, PublishIpc

LEMMA BuilderTyped ==
    /\ NoBuilder \in Builders
    /\ \A g \in Gens, resume \in BOOLEAN : Builder(g, resume) \in Builders
    /\ \A b \in Builders :
        /\ [b EXCEPT !.at = 1] \in Builders /\ [b EXCEPT !.waits = TRUE] \in Builders
        /\ b.at \in 1..12 =>
            [b EXCEPT !.at = @ + 1] \in Builders /\ [b EXCEPT !.at = @ + 1, !.waits = FALSE] \in Builders
<1>1. NoBuilder \in Builders /\ \A g \in Gens, resume \in BOOLEAN : Builder(g, resume) \in Builders
  BY DEF Builders, Builder, NoBuilder
<1>2. ASSUME NEW b \in Builders
      PROVE  /\ [b EXCEPT !.at = 1] \in Builders /\ [b EXCEPT !.waits = TRUE] \in Builders
             /\ b.at \in 1..12 =>
                [b EXCEPT !.at = @ + 1] \in Builders /\ [b EXCEPT !.at = @ + 1, !.waits = FALSE] \in Builders
  <2>1. [b EXCEPT !.waits = TRUE] \in Builders
    BY DEF Builders
  <2>2. ASSUME NEW k \in 0..13
        PROVE  [b EXCEPT !.at = k] \in Builders /\ [b EXCEPT !.at = k, !.waits = FALSE] \in Builders
    BY DEF Builders
  <2>3. ASSUME b.at \in 1..12
        PROVE  [b EXCEPT !.at = @ + 1] \in Builders /\ [b EXCEPT !.at = @ + 1, !.waits = FALSE] \in Builders
    <3> DEFINE k == b.at + 1
    <3>1. k \in 0..13
      BY <2>3
    <3> HIDE DEF k
    <3>2. [b EXCEPT !.at = k] \in Builders /\ [b EXCEPT !.at = k, !.waits = FALSE] \in Builders
      BY <3>1, <2>2
    <3>3. QED
      BY <3>2 DEF k
  <2>4. 1 \in 0..13
    OBVIOUS
  <2>5. QED
    BY <2>1, <2>2, <2>3, <2>4
<1>3. QED
  BY <1>1, <1>2

LEMMA InitInv == Init => IInv
<1> USE PlanFacts, MemberFacts, BoundAssumption
<1> SUFFICES ASSUME Init PROVE IInv
  OBVIOUS
<1>1. \A g \in Gens : intents[g] = NoIntent
  BY DEF Init
<1>2. TypeOK
  BY EmptyTyped DEF Init, TypeOK, Builders, Rows, Statuses, Volume, NoBuilder, Gens, NoGen
<1>3. QED
  BY <1>1, <1>2 DEF Init, IInv, ClaimsInOrder, SandboxesInOrder, LedgerSound, WorksSound, CallsSound,
    ObjectsSound, StorageStands, OneDisk, Live, Resumed, NoIntent, NoBuilder, NoGen, NoUid, Inherits, Disks

LEMMA TypeStep == ASSUME TypeOK, [Next]_vars PROVE TypeOK'
<1> USE DEF ledger, cluster, calls
<1> USE BoundAssumption, PlanFacts, MemberFacts
<1>1. CASE Provision
  BY <1>1, ClaimTyped, BuilderTyped DEF Provision, TypeOK
<1>2. CASE Begin
  <2> DEFINE g == builder.gen
             prior == Newest(row.sb)
  <2>1. g \in Gens
    BY <1>2 DEF Begin, TypeOK, Builders, OwnsClaim
  <2>2. [NoIntent EXCEPT !.born = TRUE, !.sb = row.sb] \in Intents
    BY EmptyTyped DEF Intents, TypeOK, Rows
  <2>3. ASSUME prior \in Gens PROVE Inherited(g, prior) \in Intents
    <3>1. [m \in Objects |-> IF m \in Kept THEN intents[prior].uid[m] ELSE NoUid] \in Uids
      BY <2>3 DEF TypeOK, Intents, Uids
    <3>2. [m \in Members |-> IF m \in Kept \cup {"topics"} THEN "settled" ELSE "unissued"] \in Disps
      BY DEF Disps
    <3>3. QED
      BY <2>3, <3>1, <3>2, EmptyTyped DEF Inherited, Intents, TypeOK, Rows
  <2>4. builder.resume => prior \in Gens
    BY <1>2 DEF Begin, Available, Newest, Lifetime, Gens
  <2>5. intents' \in [Gens -> Intents]
    BY <1>2, <2>1, <2>2, <2>3, <2>4 DEF Begin, TypeOK
  <2>6. QED
    BY <1>2, <2>5, BuilderTyped DEF Begin, TypeOK
<1>3. CASE Validate
  BY <1>3, IntentTyped DEF Validate, TypeOK, Builders
<1>4. CASE Publish(Members)
  <2>1. builder.gen \in Gens /\ builder.at \in 1..12 /\ Member \in Members
    BY <1>4 DEF Publish, Building, TypeOK, Builders, NoGen
  <2>2. CASE Reserve
    <3>1. writes' \subseteq Writes
      <4>1. [m |-> Member, gen |-> builder.gen, done |-> FALSE] \in Writes
        BY <2>1 DEF Writes
      <4>2. writes' = writes \/ writes' = writes \cup {[m |-> Member, gen |-> builder.gen, done |-> FALSE]}
        BY <2>2 DEF Reserve
      <4>3. QED
        BY <4>1, <4>2 DEF TypeOK
    <3>2. [intents EXCEPT ![builder.gen].disp[Member] = "inflight"] \in [Gens -> Intents]
      BY <2>1, IntentTyped DEF TypeOK
    <3>5. intents' \in [Gens -> Intents]
      BY <2>2, <3>2 DEF Reserve, TypeOK
    <3>3. builder' \in Builders
      <4>1. [builder EXCEPT !.waits = TRUE] \in Builders /\ [builder EXCEPT !.at = @ + 1] \in Builders
        BY <2>1, BuilderTyped DEF TypeOK
      <4>2. QED
        BY <2>2, <4>1 DEF Reserve
    <3>4. QED
      BY <1>4, <3>1, <3>3, <3>5 DEF Publish, TypeOK
  <2>3. CASE Bind
    BY <1>4, <2>1, <2>3, IntentTyped, BuilderTyped DEF Bind, Publish, TypeOK
  <2>4. QED
    BY <1>4, <2>2, <2>3 DEF Publish
<1>5. CASE \E t \in writes : Settle(t)
  <2> PICK t \in writes : Settle(t)
    BY <1>5
  <2>1. t.m \in Members /\ t.gen \in Gens
    BY DEF TypeOK, Writes
  <2>2. [intents EXCEPT ![t.gen].disp[t.m] = "settled"] \in [Gens -> Intents]
    BY <2>1, IntentTyped DEF TypeOK
  <2>3. QED
    BY <2>2 DEF Settle, TypeOK
<1>6. CASE Ready \/ BuildFails
  <2>1. /\ [row EXCEPT !.status = "ready", !.pvc = "attached"] \in Rows
        /\ [row EXCEPT !.status = "failed"] \in Rows
    BY RowTyped DEF TypeOK, Statuses, Volume
  <2>2. QED
    BY <1>6, <2>1, BuilderTyped DEF Ready, BuildFails, TypeOK
<1>7. CASE Crash
  <2>1. wire' \subseteq [m : Members, gen : Gens]
    BY <1>7 DEF Crash, TypeOK, Writes
  <2>2. QED
    BY <1>7, <2>1, BuilderTyped DEF Crash, TypeOK
<1>8. CASE (\E t \in writes : Perform(t)) \/ (\E c \in wire : PerformLate(c))
  <2>1. ASSUME NEW c, c.m \in Members, c.gen \in Gens, Created(c)
        PROVE  objs' \subseteq [m : Objects, sb : Nat, gen : Gens]
    BY <2>1 DEF Created, Made, Object, TypeOK, Intents
  <2>2. objs' \subseteq [m : Objects, sb : Nat, gen : Gens]
    BY <1>8, <2>1 DEF Perform, PerformLate, TypeOK, Writes
  <2>3. ASSUME NEW t \in writes, Perform(t) PROVE writes' \subseteq Writes
    <3>1. t \in Writes
      BY DEF TypeOK
    <3>2. [t EXCEPT !.done = TRUE] \in Writes
      BY <3>1 DEF Writes
    <3>3. QED
      BY <2>3, <3>2 DEF Perform, TypeOK
  <2>4. QED
    BY <1>8, <2>2, <2>3 DEF Perform, PerformLate, TypeOK
<1>9. CASE \E t \in writes : TimesOut(t)
  BY <1>9 DEF TimesOut, TypeOK, Writes
<1>10. CASE Idle
  <2>1. [row EXCEPT !.status = "shutting_down", !.pvc = "detaching"] \in Rows
    BY RowTyped DEF TypeOK, Statuses, Volume
  <2>2. Work("idle", row.sb, row.gen) \in Works
    BY WorkTyped DEF TypeOK, Rows
  <2>3. QED
    BY <1>10, <2>1, <2>2 DEF Idle, TypeOK
<1>11. CASE Recover
  <2>1. Snapshot \in Gens \cup {NoGen}
    BY DEF Snapshot, LiveHere, Lifetime
  <2>2. Work("recovery", row.sb, Snapshot) \in Works
    BY <2>1, WorkTyped DEF TypeOK, Rows
  <2>3. [row EXCEPT !.status = "recovering", !.sb = @ + 1, !.pvc = "none"] \in Rows
    BY RowTyped DEF TypeOK, Statuses, Volume
  <2>4. QED
    BY <1>11, <2>2, <2>3, BuilderTyped DEF Recover, TypeOK
<1>12. CASE Reap
  <2>1. Lifetime(row.sb) \subseteq Gens /\ Newest(row.sb) \in Gens
    BY <1>12 DEF Reap, Available, Newest, Lifetime, Gens
  <2>2. PICK history \in Lifetime(row.sb) : works' = works \cup {Condemned(history)}
    BY <1>12 DEF Reap
  <2>3. Condemned(history) \in Works
    BY <2>1, WorkTyped DEF Condemned, TypeOK, Rows
  <2>4. [row EXCEPT !.pvc = "destroying"] \in Rows
    BY RowTyped DEF TypeOK, Volume, Statuses
  <2>5. QED
    BY <1>12, <2>1, <2>2, <2>3, <2>4 DEF Reap, TypeOK
<1>13. CASE \E g \in Gens : Reconcile(g)
  <2> PICK g \in Gens : Reconcile(g)
    BY <1>13
  <2> DEFINE kind == ReconcileKind(g)
             w == Work(kind, intents[g].sb, g)
  <2>1. kind \in {"idle", "recovery", "reap"}
    BY DEF Reconcile, ReconcileKind
  <2>2. w \in Works
    BY <2>1, WorkTyped DEF TypeOK, Intents
  <2>3. [w EXCEPT !.acked = kind # "idle" \/ Bound(g, "topics")] \in Works
    BY <2>2 DEF Works, Bound
  <2>4. row.sb \in Nat
    BY DEF TypeOK, Rows
  <2>5. QED
    BY <2>3, <2>4 DEF Reconcile, TypeOK
<1>14. CASE \E w \in works : ShutdownAck(w)
  BY <1>14 DEF ShutdownAck, TypeOK, Works
<1>15. CASE \E w \in works : Capture(w)
  <2> PICK w \in works : Capture(w)
    BY <1>15
  <2>1. w \in Works /\ w.gen \in Gens
    BY DEF Capture, Claims, TypeOK, Works
  <2>2. [m \in Objects |-> Seen(w, m)] \in Uids
    BY <2>1 DEF Seen, Uids, Works
  <2>3. Captured(w) \in Works
    BY <2>1, <2>2 DEF Captured, Recorded, Works
  <2>4. Fenced(intents, w.gen) \in [Gens -> Intents]
    BY <2>1, IntentTyped DEF Fenced, TypeOK
  <2>5. QED
    BY <2>3, <2>4 DEF Capture, TypeOK
<1>16. CASE \E w \in works : Seal(w)
  BY <1>16 DEF Seal, TypeOK, Works
<1>17. CASE \E w \in works : LoseWork(w)
  BY <1>17 DEF LoseWork, Fault, TypeOK
<1>18. CASE \E w \in works : FinishIdle(w)
  <2> PICK w \in works : FinishIdle(w)
    BY <1>18
  <2>1. w.gen \in Gens
    BY DEF FinishIdle, TornDown, Claims, TypeOK, Works
  <2>2. Retired(intents, w.gen) \in [Gens -> Intents]
    BY <2>1, IntentTyped DEF Retired, TypeOK
  <2>3. QED
    BY <2>2, RowTyped DEF FinishIdle, TypeOK, Statuses, Volume
<1>19. CASE \E w \in works : FinishDisposal(w)
  <2>1. [row EXCEPT !.sb = @ + 1, !.pvc = "none"] \in Rows
    BY RowTyped DEF TypeOK, Statuses, Volume
  <2>2. QED
    BY <1>19, <2>1 DEF FinishDisposal, TypeOK
<1>20. CASE \E w \in works, o \in objs : Delete(w, o)
  BY <1>20 DEF Delete, TypeOK
<1>21. CASE FinishRecovery
  <2>1. \A i \in Intents : [i EXCEPT !.retired = TRUE] \in Intents
    BY DEF Intents
  <2>2. \A ws : AllRetired(ws) \in [Gens -> Intents]
    BY <2>1 DEF AllRetired, TypeOK
  <2>3. QED
    BY <1>21, <2>2, ClaimTyped, BuilderTyped DEF FinishRecovery, TypeOK
<1>22. CASE (\E v \in attached : Detach(v)) \/ UNCHANGED vars
  BY <1>22 DEF Detach, TypeOK, vars
<1>23. QED
  BY <1>1, <1>2, <1>3, <1>4, <1>5, <1>6, <1>7, <1>8, <1>9, <1>10, <1>11, <1>12, <1>13, <1>14, <1>15,
     <1>16, <1>17, <1>18, <1>19, <1>20, <1>21, <1>22, PublishingFacts
  DEF Next, Admission, Build, Calls, Storage, Cleanup

\* The actions, one by one.
LEMMA NextCases ==
    ASSUME [Next]_vars
    PROVE  \/ Provision \/ Begin \/ Validate \/ Publish(Members) \/ Ready \/ BuildFails \/ Crash
           \/ \E t \in writes : Perform(t) \/ TimesOut(t) \/ Settle(t)
           \/ \E c \in wire : PerformLate(c)
           \/ Idle \/ Recover \/ Reap \/ FinishRecovery
           \/ \E g \in Gens : Reconcile(g)
           \/ \E w \in works : \/ ShutdownAck(w) \/ Capture(w) \/ Seal(w) \/ LoseWork(w)
                               \/ FinishIdle(w) \/ FinishDisposal(w)
           \/ \E w \in works, o \in objs : Delete(w, o)
           \/ UNCHANGED <<ledger, objs, calls, builder, rebuilt>>
  BY PublishingFacts DEF Next, Admission, Build, Calls, Storage, Cleanup, Detach, vars, cluster

\* What the first transaction of a claim writes.
Begun ==
    /\ row.gen \in Gens /\ builder.gen = row.gen /\ builder.at = 0 /\ row.status = "creating"
    /\ ~intents[row.gen].born
    /\ UNCHANGED <<row, disposals, works, objs, writes, wire, rebuilt>>
    /\ builder' = [builder EXCEPT !.at = 1]
    /\ \A h \in Gens \ {row.gen} : intents'[h] = intents[h]
    /\ intents'[row.gen].born /\ intents'[row.gen].sb = row.sb
    /\ ~intents'[row.gen].retired /\ ~intents'[row.gen].fenced
    /\ builder.resume =>
         /\ row.gen - 1 \in Gens /\ intents[row.gen - 1].retired
         /\ intents[row.gen - 1].sb = row.sb
         /\ intents'[row.gen].from = row.gen - 1
         /\ \A m \in Members : intents'[row.gen].disp[m] =
                 IF m \in Kept \cup {"topics"} THEN "settled" ELSE "unissued"
         /\ \A m \in Objects : intents'[row.gen].uid[m] =
                 IF m \in Kept THEN intents[row.gen - 1].uid[m] ELSE NoUid
    /\ ~builder.resume =>
         /\ intents'[row.gen].from = NoGen
         /\ \A m \in Members : intents'[row.gen].disp[m] = "unissued"
         /\ \A m \in Objects : intents'[row.gen].uid[m] = NoUid
LEMMA BeginFacts == ASSUME IInv, Begin PROVE Begun
<1> USE DEF Begun
<1> USE BoundAssumption, MemberFacts DEF NoGen, NoUid, ledger, cluster, calls
<1>1. /\ row.gen \in Gens /\ builder.gen = row.gen /\ builder.at = 0 /\ row.status = "creating"
      /\ ~intents[row.gen].born
      /\ UNCHANGED <<row, disposals, works, objs, writes, wire, rebuilt>>
      /\ builder' = [builder EXCEPT !.at = 1]
  BY DEF Begin, OwnsClaim, IInv, TypeOK, ClaimsInOrder
<1>2. intents \in [Gens -> Intents] /\ row.sb \in Nat
  BY DEF IInv, TypeOK, Rows
<1>3. CASE builder.resume
  <2>1. row.gen - 1 \in Gens /\ intents[row.gen - 1].retired /\ intents[row.gen - 1].sb = row.sb
    BY <1>1, <1>3 DEF IInv, SandboxesInOrder, Gens
  <2>2. row.gen - 1 \in Lifetime(row.sb)
    BY <2>1 DEF Lifetime, IInv, ClaimsInOrder
  <2>3. \A h \in Lifetime(row.sb) : h <= row.gen - 1
    BY <1>1 DEF Lifetime, IInv, ClaimsInOrder, TypeOK, Rows, Gens
  <2>4. Newest(row.sb) = row.gen - 1
    <3>1. Newest(row.sb) \in Lifetime(row.sb) /\ \A h \in Lifetime(row.sb) : h <= Newest(row.sb)
      BY <2>2, <2>3 DEF Newest
    <3>2. QED
      BY <2>2, <2>3, <3>1 DEF Lifetime, Gens
  <2>5. intents' = [intents EXCEPT ![row.gen] = Inherited(row.gen, row.gen - 1)]
    BY <1>1, <1>3, <2>4 DEF Begin
  <2>6. /\ \A h \in Gens \ {row.gen} : intents'[h] = intents[h]
        /\ intents'[row.gen] = Inherited(row.gen, row.gen - 1)
    BY <1>1, <1>2, <2>5
  <2>7. QED
    BY <1>1, <1>3, <2>1, <2>6 DEF Inherited, NoIntent
<1>4. CASE ~builder.resume
  <2>1. intents' = [intents EXCEPT ![row.gen] = [NoIntent EXCEPT !.born = TRUE, !.sb = row.sb]]
    BY <1>1, <1>4 DEF Begin
  <2>2. /\ \A h \in Gens \ {row.gen} : intents'[h] = intents[h]
        /\ intents'[row.gen] = [NoIntent EXCEPT !.born = TRUE, !.sb = row.sb]
    BY <1>1, <1>2, <2>1
  <2>3. QED
    BY <1>1, <1>4, <2>2 DEF NoIntent
<1>5. QED
  BY <1>3, <1>4

\* What a reservation or a binding writes: one entry of the ledger of the claim.
Published ==
    /\ row.gen \in Gens /\ builder.gen = row.gen /\ Live(row.gen) /\ row.status = "creating"
    /\ Member \in Members /\ builder.at \in 1..12
    /\ UNCHANGED <<row, disposals, works, objs, wire, rebuilt>>
    /\ \A h \in Gens \ {row.gen} : intents'[h] = intents[h]
    /\ /\ intents'[row.gen].born = intents[row.gen].born
       /\ intents'[row.gen].sb = intents[row.gen].sb
       /\ intents'[row.gen].from = intents[row.gen].from
       /\ intents'[row.gen].fenced = intents[row.gen].fenced /\ ~intents[row.gen].fenced
       /\ intents'[row.gen].retired = intents[row.gen].retired
    /\ builder'.gen = row.gen /\ builder'.at \in 1..13 /\ builder'.resume = builder.resume
    /\ \/ /\ intents[row.gen].disp[Member] = "unissued"
          /\ intents'[row.gen].disp = [intents[row.gen].disp EXCEPT ![Member] = "inflight"]
          /\ intents'[row.gen].uid = intents[row.gen].uid
          /\ writes' = writes \cup {[m |-> Member, gen |-> row.gen, done |-> FALSE]}
          /\ builder' = [builder EXCEPT !.waits = TRUE]
       \/ /\ intents' = intents /\ writes' = writes
          /\ builder'.waits = FALSE
       \/ /\ intents[row.gen].disp[Member] = "settled" /\ Member \in Objects
          /\ ~Inherits(row.gen, Member)
          /\ intents'[row.gen].disp = intents[row.gen].disp
          /\ intents'[row.gen].uid = [intents[row.gen].uid EXCEPT ![Member] = row.gen]
          /\ writes' = writes /\ builder'.waits = FALSE
LEMMA PublishFacts == ASSUME IInv, Publish(Members) PROVE Published
<1> USE DEF Published
<1> USE MemberFacts DEF NoGen, NoUid, ledger, cluster, calls
<1>1. /\ row.gen \in Gens /\ builder.gen = row.gen /\ Live(row.gen) /\ row.status = "creating"
      /\ Member \in Members /\ builder.at \in 1..12 /\ ~intents[row.gen].fenced
      /\ UNCHANGED <<row, disposals, works, objs, wire, rebuilt>>
  BY PlanFacts DEF Publish, Building, Owned, OwnsClaim, Live, IInv, TypeOK, ClaimsInOrder
<1>2. intents \in [Gens -> Intents] /\ builder \in Builders
  BY DEF IInv, TypeOK
<1>3. intents[row.gen] \in Intents
  BY <1>1, <1>2
<1>4. CASE Reserve /\ intents[row.gen].disp[Member] = "unissued"
  <2>1. /\ intents' = [intents EXCEPT ![row.gen].disp[Member] = "inflight"]
        /\ writes' = writes \cup {[m |-> Member, gen |-> row.gen, done |-> FALSE]}
        /\ builder' = [builder EXCEPT !.waits = TRUE]
    BY <1>1, <1>4 DEF Reserve
  <2>2. /\ \A h \in Gens \ {row.gen} : intents'[h] = intents[h]
        /\ intents'[row.gen] = [intents[row.gen] EXCEPT !.disp = [@ EXCEPT ![Member] = "inflight"]]
    BY <1>1, <1>2, <2>1
  <2>3. builder'.gen = builder.gen /\ builder'.at = builder.at /\ builder'.resume = builder.resume
    BY <1>2, <2>1 DEF Builders
  <2>4. QED
    BY <1>1, <1>3, <1>4, <2>1, <2>2, <2>3 DEF Intents
<1>5. CASE Reserve /\ intents[row.gen].disp[Member] # "unissued"
  <2>1. intents' = intents /\ writes' = writes /\ builder' = [builder EXCEPT !.at = @ + 1] /\ ~builder.waits
    BY <1>1, <1>5 DEF Reserve
  <2>2. QED
    BY <1>1, <1>2, <2>1 DEF Builders
<1>6. CASE Bind /\ Member \in Objects
  <2>1. /\ intents' = [intents EXCEPT ![row.gen].uid[Member] = row.gen] /\ writes' = writes
        /\ builder' = [builder EXCEPT !.at = @ + 1, !.waits = FALSE]
        /\ intents[row.gen].disp[Member] = "settled" /\ builder.waits
    BY <1>1, <1>6 DEF Bind
  <2>2. ~Inherits(row.gen, Member)
    BY <1>1, <2>1 DEF IInv, ClaimsInOrder, Live, Gens
  <2>3. /\ \A h \in Gens \ {row.gen} : intents'[h] = intents[h]
        /\ intents'[row.gen] = [intents[row.gen] EXCEPT !.uid = [@ EXCEPT ![Member] = row.gen]]
    BY <1>1, <1>2, <2>1
  <2>4. builder'.gen = builder.gen /\ builder'.at = builder.at + 1 /\ builder'.resume = builder.resume
        /\ builder'.waits = FALSE
    BY <1>2, <2>1 DEF Builders
  <2>5. QED
    BY <1>1, <1>3, <1>6, <2>1, <2>2, <2>3, <2>4 DEF Intents
<1>7. CASE Bind /\ Member \notin Objects
  <2>1. intents' = intents /\ writes' = writes /\ builder' = [builder EXCEPT !.at = @ + 1, !.waits = FALSE]
    BY <1>1, <1>7 DEF Bind
  <2>2. QED
    BY <1>1, <1>2, <2>1 DEF Builders
<1>8. QED
  BY <1>4, <1>5, <1>6, <1>7 DEF Publish

\* A finished recovery retires every generation of the session and claims afresh.
Recovered ==
    /\ \A w \in works : w.kind = "recovery" => NeverCreated(w) \/ (TornDown(w) /\ WritersSettled(w))
    /\ row.status = "recovering" /\ row.gen < MaxGen
    /\ row'.status = "creating" /\ row'.sb = row.sb /\ row'.gen = row.gen + 1 /\ row'.pvc = "attaching"
    /\ row'.gen \in Gens
    /\ \A g \in Gens :
        /\ intents'[g].retired <=> intents[g].born
        /\ intents'[g].born = intents[g].born /\ intents'[g].sb = intents[g].sb
        /\ intents'[g].from = intents[g].from /\ intents'[g].fenced = intents[g].fenced
        /\ intents'[g].disp = intents[g].disp /\ intents'[g].uid = intents[g].uid
    /\ \A g \in Gens : intents[g].born => intents[g].sb # row.sb
    /\ \A g \in Gens : Live(g) => \E w \in works : w.gen = g /\ w.kind = "recovery"
    /\ works' = {}
    /\ builder' = [gen |-> row'.gen, resume |-> FALSE, at |-> 0, waits |-> FALSE]
    /\ UNCHANGED <<disposals, objs, writes, wire, rebuilt>>
LEMMA RecoveryFacts == ASSUME IInv, FinishRecovery PROVE Recovered
<1> DEFINE ws == {w \in works : w.kind = "recovery"}
<1> USE DEF NoGen
<1>1. /\ row.status = "recovering" /\ row.gen < MaxGen /\ works' = works \ ws
      /\ \A w \in ws : NeverCreated(w) \/ (TornDown(w) /\ WritersSettled(w))
      /\ intents' = AllRetired(ws) /\ DestroyedHistory(intents', row.sb)
      /\ row' = Claimed(row, "creating") /\ builder' = Builder(row.gen + 1, FALSE)
      /\ UNCHANGED <<disposals, objs, writes, wire, rebuilt>>
  BY DEF FinishRecovery, cluster, calls
<1>2. row'.status = "creating" /\ row'.sb = row.sb /\ row'.gen = row.gen + 1 /\ row'.pvc = "attaching" /\ row'.gen \in Gens
  BY <1>1, ClaimTyped DEF IInv, TypeOK
<1>3. \A g \in Gens : intents[g] \in Intents
  BY DEF IInv, TypeOK
<1>4. \A w \in ws : w.gen # NoGen => intents[w.gen].born
  BY DEF IInv, WorksSound
<1>5. ASSUME NEW g \in Gens
      PROVE  /\ intents'[g].born = intents[g].born /\ intents'[g].sb = intents[g].sb
             /\ intents'[g].from = intents[g].from /\ intents'[g].fenced = intents[g].fenced
             /\ intents'[g].disp = intents[g].disp /\ intents'[g].uid = intents[g].uid
             /\ (intents'[g].retired <=> (intents[g].retired \/ \E w \in ws : w.gen = g))
  <2>1. intents'[g] = IF \E w \in ws : w.gen = g THEN [intents[g] EXCEPT !.retired = TRUE] ELSE intents[g]
    BY <1>1 DEF AllRetired
  <2>2. CASE \E w \in ws : w.gen = g
    BY <1>3, <2>1, <2>2 DEF Intents
  <2>3. CASE ~\E w \in ws : w.gen = g
    BY <1>3, <2>1, <2>3 DEF Intents
  <2>4. QED
    BY <2>2, <2>3
<1>d. \A g \in Gens : intents'[g].born => intents'[g].retired /\ intents'[g].sb # row.sb
  BY <1>1 DEF DestroyedHistory
<1>6. \A g \in Gens : intents'[g].retired <=> intents[g].born
  <2> TAKE g \in Gens
  <2>1. intents'[g].retired => intents[g].born
    <3>1. intents[g].retired => intents[g].born
      BY DEF IInv, ClaimsInOrder
    <3>2. QED
      BY <1>4, <1>5, <3>1 DEF Gens
  <2>2. intents[g].born => intents'[g].retired
    BY <1>5, <1>d
  <2>3. QED
    BY <2>1, <2>2
<1>7. \A g \in Gens : intents[g].born => intents[g].sb # row.sb
  <2> TAKE g \in Gens
  <2>1. intents'[g].born = intents[g].born /\ intents'[g].sb = intents[g].sb
    BY <1>5
  <2>2. QED
    BY <1>d, <2>1
<1>8. \A g \in Gens : Live(g) => \E w \in ws : w.gen = g
  BY <1>5, <1>6 DEF Live
<1>9. \A w \in works : w.kind = "recovery"
  <2>1. works \subseteq Works /\ \A w \in works : WorkOf(w)
    BY DEF IInv, TypeOK, WorksSound
  <2>2. QED
    BY <1>1, <2>1 DEF WorkOf, Works
<1>10. works' = {}
  BY <1>1, <1>9
<1>11. /\ \A w \in works : w.kind = "recovery" => NeverCreated(w) \/ (TornDown(w) /\ WritersSettled(w))
       /\ \A g \in Gens : Live(g) => \E w \in works : w.gen = g /\ w.kind = "recovery"
  BY <1>1, <1>8
<1>12. builder' = [gen |-> row'.gen, resume |-> FALSE, at |-> 0, waits |-> FALSE]
  BY <1>1, <1>2 DEF Builder
<1>13. /\ row.status = "recovering" /\ row.gen < MaxGen
       /\ UNCHANGED <<disposals, objs, writes, wire, rebuilt>>
  BY <1>1
<1> HIDE DEF ws
<1>14. QED
  BY <1>2, <1>5, <1>6, <1>7, <1>10, <1>11, <1>12, <1>13 DEF Recovered

LEMMA ClaimsStep == ASSUME IInv, [Next]_vars PROVE ClaimsInOrder'
<1>r. FinishRecovery => Recovered
  BY RecoveryFacts
<1>b. Begin => Begun
  BY BeginFacts
<1>p. Publish(Members) => Published
  BY PublishFacts
<1> USE BoundAssumption, PlanFacts, MemberFacts
<1> USE DEF IInv, TypeOK, Rows, Builders, Gens, NoGen, NoUid, ClaimsInOrder, Live, Inherits, Resumed,
        NoBuilder, ledger, cluster, calls
<1>1. CASE Provision
  <2>1. /\ row'.gen = row.gen + 1 /\ row'.gen \in Gens /\ row.gen \in Int
        /\ row'.status = "creating" /\ row'.pvc = "attaching"
    BY <1>1, ClaimTyped DEF Provision
  <2>2. intents' = intents /\ builder'.gen = row'.gen /\ builder'.at = 0 /\ ~builder'.waits
    BY <1>1, <2>1 DEF Provision, Builder
  <2>3. \A g \in Gens : ~Live(g) /\ (intents[g].born => g <= row.gen)
                        /\ (intents[g].retired => intents[g].born)
    BY <1>1 DEF Provision
  <2>4. ~intents[row'.gen].born
    BY <2>1, <2>3
  <2> HIDE DEF TypeOK, IInv
  <2>5. QED
    BY <2>1, <2>2, <2>3, <2>4
<1>2. CASE Begin
  <2>1. builder'.gen = row.gen /\ builder'.at = 1 /\ ~builder'.waits
    <3>1. builder' = [builder EXCEPT !.at = 1] /\ builder.gen = row.gen /\ builder.at = 0
          /\ row.gen \in Gens
      BY <1>2, <1>b DEF Begun
    <3>2. builder \in Builders /\ ~builder.waits
      BY <3>1
    <3> HIDE DEF TypeOK, IInv, ClaimsInOrder
    <3>3. QED
      BY <3>1, <3>2
  <2>2. /\ row.gen \in Gens /\ row' = row /\ row.status = "creating" /\ ~intents[row.gen].born
        /\ \A h \in Gens \ {row.gen} : intents'[h] = intents[h]
        /\ intents'[row.gen].born /\ ~intents'[row.gen].retired
    BY <1>2, <1>b DEF Begun
  <2>3. ClaimsInOrder
    OBVIOUS
  <2>4. \A h \in Gens : h # row.gen => ~Live(h)'
    BY <2>2, <2>3
  <2> HIDE DEF TypeOK, IInv
  <2>5. QED
    BY <2>1, <2>2, <2>3, <2>4
<1>3. CASE Validate
  BY <1>3 DEF Validate, Member, Intents
<1>4. CASE Publish(Members)
  <2>1. Member' = Member \/ ~builder'.waits
    BY <1>4, <1>p DEF Published, Member
  <2>2. builder'.waits => /\ intents[row.gen].disp[Member] = "unissued"
                         /\ intents'[row.gen].disp[Member] = "inflight" /\ builder'.at \in 1..12
    BY <1>4, <1>p DEF Published, Intents, Disps
  <2>3. builder'.waits => ~Inherits(row.gen, Member)
    BY <1>4, <1>p, <2>2 DEF Published, LedgerSound
  <2>4. \A g \in Gens : /\ intents'[g].born = intents[g].born /\ intents'[g].retired = intents[g].retired
                        /\ intents'[g].from = intents[g].from
    BY <1>4, <1>p DEF Published
  <2>5. /\ row' = row /\ builder'.gen = row.gen /\ builder.gen = row.gen /\ builder'.at \in 1..13
        /\ row.gen \in Gens /\ row.status = "creating" /\ Live(row.gen)
    BY <1>4, <1>p DEF Published
  <2>6. ClaimsInOrder
    OBVIOUS
  <2>7. QED
    <3> HIDE DEF TypeOK, IInv
    <3>1. QED
      BY <2>1, <2>2, <2>3, <2>4, <2>5, <2>6
<1>5a. CASE Ready
  BY <1>5a DEF Ready, Owned, OwnsClaim
<1>5b. CASE BuildFails
  BY <1>5b DEF BuildFails, OwnsClaim
<1>5c. CASE Crash
  BY <1>5c DEF Crash
<1>7. CASE \E t \in writes : Settle(t)
  <2> PICK t \in writes : Settle(t)
    BY <1>7
  <2>1. /\ \A g \in Gens : /\ intents'[g].born = intents[g].born /\ intents'[g].from = intents[g].from
                            /\ intents'[g].retired = intents[g].retired
        /\ UNCHANGED <<row, builder>>
    BY DEF Settle, Intents
  <2>2. \A g \in Gens, m \in Members :
            intents[g].disp[m] # "unissued" => intents'[g].disp[m] # "unissued"
    BY DEF Settle, Intents, Disps
  <2>3. builder'.waits /\ builder'.gen # NoGen => Member' = Member /\ Member \in Members
    BY <2>1 DEF Member
  <2>4. ClaimsInOrder
    OBVIOUS
  <2> HIDE DEF TypeOK, IInv
  <2>5. QED
    BY <2>1, <2>2, <2>3, <2>4
<1>8a. CASE Idle
  BY <1>8a DEF Idle, Intents
<1>8b. CASE Recover
  BY <1>8b DEF Recover, Intents
<1>8c. CASE Reap
  BY <1>8c DEF Reap, Intents, Available, Newest, Lifetime
<1>9. CASE FinishRecovery
  <2>0. /\ row.gen \in Int /\ row'.gen = row.gen + 1 /\ \A g \in Gens : g \in Int /\ (intents[g].born => g <= row.gen)
    BY <1>9, <1>r DEF Recovered
  <2> HIDE DEF TypeOK, IInv
  <2> USE <1>9, <1>r, <2>0 DEF Recovered
  <2>1. \A g \in Gens : ~Live(g)'
    OBVIOUS
  <2>2. ~intents'[row'.gen].born /\ ~intents'[row'.gen].retired /\ row'.gen \in Gens
    OBVIOUS
  <2>3. /\ \A g \in Gens : intents'[g].born => g <= row'.gen
        /\ \A g \in Gens : intents'[g].retired => intents'[g].born
    OBVIOUS
  <2>4. /\ row'.status = "creating" /\ builder'.gen = row'.gen /\ builder'.at = 0
        /\ builder'.waits = FALSE
    OBVIOUS
  <2>5. QED
    BY <2>1, <2>2, <2>3, <2>4
<1>10. CASE \E w \in works : Capture(w)
  BY <1>10 DEF Capture, Fenced, Claims, Member, Intents
<1>11. CASE \E w \in works : FinishIdle(w)
  BY <1>11 DEF FinishIdle, TornDown, Claims, Retired, WorksSound, WorkOf, Intents
<1>12. CASE \E w \in works : FinishDisposal(w)
  BY <1>12 DEF FinishDisposal, TornDown, Claims
<1>13. CASE UNCHANGED <<row, intents, builder>>
  BY <1>13 DEF Member
<1>14. QED
  BY <1>1, <1>2, <1>3, <1>4, <1>5a, <1>5b, <1>5c, <1>7, <1>8a, <1>8b, <1>8c, <1>9, <1>10, <1>11, <1>12, <1>13, NextCases
  DEF Perform, TimesOut, PerformLate, Reconcile, ShutdownAck, Seal, LoseWork, Delete

LEMMA SandboxesStep == ASSUME IInv, [Next]_vars PROVE SandboxesInOrder'
<1>r. FinishRecovery => Recovered
  BY RecoveryFacts
<1>b. Begin => Begun
  BY BeginFacts
<1>p. Publish(Members) => Published
  BY PublishFacts
<1> USE BoundAssumption
<1> USE DEF IInv, TypeOK, Rows, Builders, Gens, NoGen, ClaimsInOrder, SandboxesInOrder, Live,
        Resumed, NoBuilder, ledger, cluster, calls
<1>1. CASE Provision
  BY <1>1 DEF Provision, Claimed, Builder, DestroyedHistory, Intents
<1>2. CASE Begin
  <2> USE <1>2, <1>b DEF Begun
  <2>1. builder'.gen = row.gen /\ builder'.at = 1
    OBVIOUS
  <2>2. CASE builder.resume
    BY <2>1, <2>2
  <2>3. CASE ~builder.resume
    BY <2>1, <2>3
  <2>4. QED
    BY <2>2, <2>3
<1>3. CASE Validate
  BY <1>3 DEF Validate, Intents
<1>4. CASE Publish(Members)
  <2>1. /\ builder'.gen = row.gen /\ builder'.at \in 1..13 /\ row' = row
        /\ row.gen \in Gens /\ row.status = "creating" /\ Live(row.gen)
    BY <1>4, <1>p DEF Published
  <2>2. \A g \in Gens : /\ intents'[g].born = intents[g].born /\ intents'[g].sb = intents[g].sb
                        /\ intents'[g].from = intents[g].from /\ intents'[g].retired = intents[g].retired
    BY <1>4, <1>p DEF Published
  <2>3. SandboxesInOrder
    OBVIOUS
  <2>4. QED
    <3> HIDE DEF TypeOK, IInv
    <3>1. QED
      BY <2>1, <2>2, <2>3
<1>5a. CASE Ready
  BY <1>5a DEF Ready
<1>5b. CASE BuildFails
  BY <1>5b DEF BuildFails
<1>5c. CASE Crash
  BY <1>5c DEF Crash
<1>7. CASE \E t \in writes : Settle(t)
  BY <1>7 DEF Settle, Intents
<1>8a. CASE Idle
  BY <1>8a DEF Idle, Intents
<1>8b. CASE Recover
  BY <1>8b DEF Recover, Intents
<1>8c. CASE Reap
  BY <1>8c DEF Reap, Intents
<1>9. CASE FinishRecovery
  <2>0. /\ row.gen \in Int /\ row'.gen = row.gen + 1
        /\ \A g \in Gens : g \in Int /\ (intents[g].born => g <= row.gen /\ intents[g].sb <= row.sb)
    BY <1>9, <1>r DEF Recovered
  <2> HIDE DEF TypeOK, IInv, SandboxesInOrder, ClaimsInOrder
  <2> USE <1>9, <1>r, <2>0 DEF Recovered
  <2>1. \A g \in Gens : ~Live(g)'
    OBVIOUS
  <2>2. ~intents'[row'.gen].born /\ row'.status = "creating" /\ builder'.resume = FALSE
    OBVIOUS
  <2>3. \A g \in Gens : intents'[g].born => intents'[g].sb <= row'.sb /\ intents'[g].sb # row'.sb
    OBVIOUS
  <2> HIDE <1>9, <1>r, <2>0 DEF Recovered, Live
  <2>4. QED
    BY <2>1, <2>2, <2>3 DEF SandboxesInOrder
<1>10. CASE \E w \in works : Capture(w)
  BY <1>10 DEF Capture, Fenced, Claims, Intents
<1>11. CASE \E w \in works : FinishIdle(w)
  BY <1>11 DEF FinishIdle, TornDown, Claims, Retired, Intents, WorksSound, WorkOf
<1>12. CASE \E w \in works : FinishDisposal(w)
  BY <1>12 DEF FinishDisposal, TornDown, Claims, Intents
<1>13. CASE UNCHANGED <<row, intents, builder>>
  BY <1>13
<1>14. QED
  BY <1>1, <1>2, <1>3, <1>4, <1>5a, <1>5b, <1>5c, <1>7, <1>8a, <1>8b, <1>8c, <1>9, <1>10, <1>11, <1>12, <1>13, NextCases
  DEF Perform, TimesOut, PerformLate, Reconcile, ShutdownAck, Seal, LoseWork, Delete

LEMMA LedgerStep == ASSUME IInv, [Next]_vars PROVE LedgerSound'
<1>r. FinishRecovery => Recovered
  BY RecoveryFacts
<1>b. Begin => Begun
  BY BeginFacts
<1>p. Publish(Members) => Published
  BY PublishFacts
<1> USE BoundAssumption, MemberFacts
<1> USE DEF IInv, TypeOK, Rows, Gens, NoGen, NoUid, ClaimsInOrder, LedgerSound, Live, Inherits, Resumed,
        ledger, cluster, calls
<1>1. CASE Provision
  BY <1>1 DEF Provision, Claimed
<1>2. CASE Begin
  <2> USE <1>2, <1>b DEF Begun
  <2>1. CASE builder.resume
    <3>1. intents[row.gen - 1].uid["workspace"] # NoUid
      BY <2>1 DEF OneDisk
    <3>2. QED
      BY <2>1, <3>1
  <2>2. CASE ~builder.resume
    BY <2>2
  <2>3. QED
    BY <2>1, <2>2
<1>3. CASE Validate
  BY <1>3 DEF Validate, Intents
<1>4. CASE Publish(Members)
  <2> USE <1>4, <1>p DEF Published
  <2>1. intents[row.gen].disp \in Disps /\ intents[row.gen].uid \in Uids
    BY DEF Intents
  <2>2. \A m \in Members : intents[row.gen].disp[m] = "settled" => intents'[row.gen].disp[m] = "settled"
    BY <2>1 DEF Disps
  <2>3. \A m \in Objects : /\ intents'[row.gen].uid[m] = intents[row.gen].uid[m]
                              \/ (m = Member /\ intents'[row.gen].uid[m] = row.gen
                                     /\ intents[row.gen].disp[m] = "settled" /\ ~Inherits(row.gen, m))
    BY <2>1 DEF Uids
  <2>4. QED
    BY <2>2, <2>3
<1>5a. CASE Ready
  BY <1>5a DEF Ready, Whole, Bound
<1>5b. CASE BuildFails
  BY <1>5b DEF BuildFails
<1>5c. CASE Crash
  BY <1>5c DEF Crash
<1>7. CASE \E t \in writes : Settle(t)
  BY <1>7 DEF Settle, Intents, Disps, Writes
<1>8a. CASE Idle
  BY <1>8a DEF Idle, Intents
<1>8b. CASE Recover
  BY <1>8b DEF Recover, Intents
<1>8c. CASE Reap
  BY <1>8c DEF Reap, Intents
<1>9. CASE FinishRecovery
  <2>1. /\ row'.status = "creating" /\ \A g \in Gens :
            /\ intents'[g].from = intents[g].from
            /\ intents'[g].disp = intents[g].disp /\ intents'[g].uid = intents[g].uid
    BY <1>9, <1>r DEF Recovered
  <2>2. LedgerSound
    OBVIOUS
  <2> HIDE DEF TypeOK, IInv
  <2>3. QED
    BY <2>1, <2>2
<1>10. CASE \E w \in works : Capture(w)
  BY <1>10 DEF Capture, Fenced, Claims, Intents
<1>11. CASE \E w \in works : FinishIdle(w)
  BY <1>11 DEF FinishIdle, TornDown, Claims, Retired, Intents
<1>12. CASE \E w \in works : FinishDisposal(w)
  BY <1>12 DEF FinishDisposal, TornDown, Claims
<1>13. CASE UNCHANGED <<row, intents, builder>>
  BY <1>13
<1>14. QED
  BY <1>1, <1>2, <1>3, <1>4, <1>5a, <1>5b, <1>5c, <1>7, <1>8a, <1>8b, <1>8c, <1>9, <1>10, <1>11, <1>12, <1>13, NextCases
  DEF Perform, TimesOut, PerformLate, Reconcile, ShutdownAck, Seal, LoseWork, Delete

\* Works are told apart by their sandbox, so one may be replaced in its own place.
LEMMA WorkReplaced ==
    ASSUME TypeOK, WorksSound, NEW w \in works, NEW x \in Works, works' = (works \ {w}) \cup {x},
           x.kind = w.kind, x.sb = w.sb, x.gen = w.gen, w.gen # NoGen,
           \A m \in Objects : x.uid[m] \in {NoUid, w.gen, intents[w.gen].uid[m]},
           w.kind = "reap" => x.uid = w.uid,
           x.sealed => intents'[w.gen].fenced /\ WritersSettled(x)',
           UNCHANGED <<row, disposals>>,
           \A g \in Gens : /\ intents'[g].born = intents[g].born /\ intents'[g].sb = intents[g].sb
                           /\ intents'[g].retired = intents[g].retired
                           /\ intents[g].fenced => intents'[g].fenced
                           /\ intents'[g].uid = intents[g].uid /\ intents'[g].disp = intents[g].disp
    PROVE  WorksSound'
<1> USE DEF WorksSound, WorkOf, Live, NoGen
<1>1. \A v \in works : v.gen # NoGen => v.gen \in Gens
  BY DEF TypeOK, Works
<1>2. \A v \in works : v.gen # NoGen /\ WritersSettled(v) => WritersSettled(v)'
  BY <1>1 DEF WritersSettled
<1> HIDE DEF TypeOK
<1>3. \A v \in works \ {w} : v.sb # w.sb
  OBVIOUS
<1>4. \A v \in works' : v = x \/ v \in works \ {w}
  OBVIOUS
<1>5. ASSUME NEW u \in works', NEW v \in works', u.sb = v.sb PROVE u = v
  BY <1>3, <1>4, <1>5
<1>6. ASSUME NEW v \in works' PROVE WorkOf(v)'
  BY <1>1, <1>4
<1>7. ASSUME NEW v \in works', v.gen # NoGen
      PROVE  /\ intents'[v.gen].born /\ v.sb = intents'[v.gen].sb
             /\ \A m \in Objects : v.uid[m] \in {NoUid, v.gen, intents'[v.gen].uid[m]}
             /\ v.sealed => intents'[v.gen].fenced /\ WritersSettled(v)'
  BY <1>1, <1>2, <1>4, <1>7
<1>8. QED
  BY <1>5, <1>6, <1>7

\* A work that is added is the first of its sandbox.
LEMMA WorkAdded ==
    ASSUME TypeOK, WorksSound, NEW x \in Works, works' = works \cup {x},
           \A v \in works : v.sb # x.sb,
           WorkOf(x)', ~x.sealed,
           x.gen # NoGen => /\ intents[x.gen].born /\ x.sb = intents[x.gen].sb
                            /\ x.uid = intents[x.gen].uid,
           disposals' # {} => /\ row'.status = "stopped" /\ row'.pvc = "destroying"
                              /\ disposals' = {row'.gen},
           \A v \in works : WorkOf(v)', intents' = intents
    PROVE  WorksSound'
<1> USE DEF WorksSound, NoGen
<1>1. \A v \in works : WritersSettled(v) => WritersSettled(v)'
  BY DEF WritersSettled
<1>2. \A v \in works' : v = x \/ v \in works
  OBVIOUS
<1> HIDE DEF TypeOK
<1>3. QED
  BY <1>1, <1>2

LEMMA WorksStep == ASSUME IInv, [Next]_vars PROVE WorksSound'
<1>i. TypeOK /\ ClaimsInOrder /\ SandboxesInOrder /\ WorksSound /\ LedgerSound /\ CallsSound
  BY DEF IInv
<1>r. FinishRecovery => Recovered
  BY RecoveryFacts
<1>b. Begin => Begun
  BY BeginFacts
<1>p. Publish(Members) => Published
  BY PublishFacts
<1>g. \A w \in works : w \in Works /\ (w.gen # NoGen => w.gen \in Gens)
  BY <1>i DEF TypeOK, Works
<1> USE MemberFacts DEF Live, NoGen, NoUid, ledger, cluster, calls
<1>1. CASE Provision
  <2>1. works = {} /\ works' = {} /\ disposals' = {}
    BY <1>1, <1>i, <1>g DEF Provision, WorksSound, WorkOf, Works
  <2>2. QED
    BY <2>1 DEF WorksSound
<1>2. CASE Begin
  <2>1. works = {} /\ works' = {} /\ disposals' = {}
    BY <1>2, <1>b, <1>i, <1>g DEF Begun, WorksSound, WorkOf, Works
  <2>2. QED
    BY <2>1 DEF WorksSound
<1>4. CASE Publish(Members) \/ Validate \/ Ready \/ BuildFails
  <2>1. row.status = "creating"
    BY <1>4, <1>p DEF Published, Validate, Ready, BuildFails, Owned, OwnsClaim
  <2>2. works = {} /\ works' = {} /\ disposals' = {}
    BY <1>4, <1>p, <1>i, <1>g, <2>1 DEF Published, Validate, Ready, BuildFails, WorksSound, WorkOf, Works
  <2>3. QED
    BY <2>2 DEF WorksSound
<1>5. CASE \E t \in writes : Settle(t)
  <2> PICK t \in writes : Settle(t)
    BY <1>5
  <2>1. /\ t.gen \in Gens /\ t.m \in Members /\ t.gen # NoGen
        /\ intents[t.gen].disp[t.m] = "inflight" /\ intents[t.gen] \in Intents
    BY <1>i DEF TypeOK, Writes, CallsSound, Gens
  <2>2. \A w \in works : w.gen = t.gen => ~w.sealed
    BY <1>i, <2>1 DEF WorksSound, WritersSettled
  <2>3. /\ \A g \in Gens \ {t.gen} : intents'[g] = intents[g]
        /\ intents'[t.gen] = [intents[t.gen] EXCEPT !.disp = [@ EXCEPT ![t.m] = "settled"]]
        /\ UNCHANGED <<row, works, disposals>>
    BY <1>i, <2>1 DEF Settle, TypeOK
  <2>4. \A g \in Gens : /\ intents'[g].born = intents[g].born /\ intents'[g].sb = intents[g].sb
                        /\ intents'[g].retired = intents[g].retired
                        /\ intents'[g].fenced = intents[g].fenced
                        /\ intents'[g].uid = intents[g].uid
                        /\ g # t.gen => intents'[g].disp = intents[g].disp
    BY <2>1, <2>3 DEF Intents
  <2>5. \A w \in works : w.gen # NoGen /\ w.sealed => WritersSettled(w)'
    BY <1>i, <1>g, <2>2, <2>3, <2>4 DEF WorksSound, WritersSettled
  <2>6. QED
    BY <1>i, <1>g, <2>3, <2>4, <2>5 DEF WorksSound, WorkOf
<1>6. CASE Idle
  <2>1. works = {} /\ disposals = {} /\ row.gen \in Gens /\ row.gen # NoGen
    BY <1>6, <1>i, <1>g DEF Idle, WorksSound, WorkOf, Works, ClaimsInOrder, Gens
  <2>2. row'.status = "shutting_down" /\ row'.sb = row.sb /\ row'.gen = row.gen
    BY <1>6, <1>i DEF Idle, TypeOK, Rows
  <2>3. Work("idle", row.sb, row.gen) \in Works
    BY <1>i, WorkTyped DEF TypeOK, Rows
  <2>4. intents[row.gen].born /\ intents[row.gen].sb = row.sb
    BY <1>6, <1>i DEF Idle, ClaimsInOrder, SandboxesInOrder
  <2>5. QED
    BY <1>6, <1>i, <2>1, <2>2, <2>3, <2>4, WorkAdded DEF Idle, Work, WorkOf
<1>7. CASE Recover
  <2> PICK x : x = Work("recovery", row.sb, Snapshot)
    OBVIOUS
  <2>1. \A w \in works : w.kind = "recovery" /\ w.sb < row.sb
    BY <1>7, <1>i, <1>g DEF Recover, WorksSound, WorkOf, Works
  <2>2. row'.status = "recovering" /\ row'.sb = row.sb + 1 /\ row.sb \in Nat
    BY <1>7, <1>i DEF Recover, TypeOK, Rows
  <2>3. Snapshot = NoGen \/ (Snapshot \in Gens /\ Live(Snapshot) /\ intents[Snapshot].sb = row.sb)
    BY DEF Snapshot, LiveHere, Lifetime
  <2>4. x \in Works
    BY <1>i, <2>3, WorkTyped DEF TypeOK, Rows
  <2>5. x.kind = "recovery" /\ x.sb = row.sb /\ x.gen = Snapshot /\ ~x.sealed
        /\ (x.gen # NoGen => x.uid = intents[x.gen].uid)
    BY DEF Work
  <2>6. works' = works \cup {x} /\ intents' = intents /\ disposals' = {}
    BY <1>7 DEF Recover
  <2>7. \A w \in works : w.sb \in Nat
    BY <1>g DEF Works
  <2>8. WorkOf(x)' /\ \A w \in works : WorkOf(w)'
    BY <1>i, <2>1, <2>2, <2>3, <2>5, <2>6, <2>7 DEF WorkOf, WorksSound
  <2>9. \A w \in works : w.sb # x.sb
    BY <2>1, <2>2, <2>5, <2>7
  <2>10. QED
    BY <1>i, <2>3, <2>4, <2>5, <2>6, <2>8, <2>9, WorkAdded
<1>8. CASE Reap
  <2>1. Lifetime(row.sb) \subseteq Gens /\ Newest(row.sb) \in Gens
    BY <1>8 DEF Reap, Available, Newest, Lifetime, Gens
  <2> PICK history \in Lifetime(row.sb) : works' = works \cup {Condemned(history)}
    BY <1>8 DEF Reap
  <2> PICK x : x = Condemned(history)
    OBVIOUS
  <2>2. history \in Gens /\ history # NoGen /\ intents[history].born /\ intents[history].sb = row.sb
    BY <2>1 DEF Lifetime, Gens
  <2>3. x \in Works
    BY <1>i, <2>2, WorkTyped DEF TypeOK, Rows, Condemned
  <2>4. x.kind = "reap" /\ x.sb = row.sb /\ x.gen = history /\ ~x.sealed /\ x.uid = intents[history].uid
    BY <2>2 DEF Work, Condemned
  <2>5. works = {} /\ works' = works \cup {x} /\ intents' = intents /\ disposals' # {}
    BY <1>8, <1>i, <1>g DEF Reap, WorksSound, WorkOf, Works
  <2>6. row'.status = "stopped" /\ row'.pvc = "destroying" /\ row'.sb = row.sb /\ row'.gen = row.gen
    BY <1>8, <1>i DEF Reap, TypeOK, Rows
  <2>9. disposals' = {row.gen}
    <3>1. row.gen \in Gens /\ intents[row.gen].born /\ intents[row.gen].sb = row.sb
      BY <1>8, <1>i DEF Reap, ClaimsInOrder, SandboxesInOrder
    <3>2. QED
      BY <1>8, <1>i, <3>1, NewestIsLatest DEF Reap
  <2>7. WorkOf(x)'
    BY <2>2, <2>4, <2>5, <2>6 DEF WorkOf
  <2>8. QED
    BY <1>i, <2>2, <2>3, <2>4, <2>5, <2>6, <2>7, <2>9, WorkAdded
<1>9. CASE FinishRecovery
  BY <1>9, <1>r, <1>i DEF Recovered, WorksSound
<1>10. CASE \E g \in Gens : Reconcile(g)
  <2> PICK g \in Gens : Reconcile(g)
    BY <1>10
  <2> PICK kind, x :
        /\ kind = ReconcileKind(g)
        /\ x = [Work(kind, intents[g].sb, g) EXCEPT !.acked = kind # "idle" \/ Bound(g, "topics")]
    OBVIOUS
  <2>1. kind \in {"idle", "recovery", "reap"} /\ intents[g].born /\ works' = works \cup {x}
        /\ UNCHANGED <<row, intents, disposals>> /\ \A w \in works : w.sb # intents[g].sb
    BY DEF Reconcile, ReconcileKind
  <2>2. Work(kind, intents[g].sb, g) \in Works
    BY <1>i, <2>1, WorkTyped DEF TypeOK, Intents
  <2>3. x \in Works /\ x.kind = kind /\ x.sb = intents[g].sb /\ x.gen = g /\ ~x.sealed /\ x.uid = intents[g].uid
    <3>1. g # NoGen
      BY DEF Gens
    <3>2. QED
      BY <2>2, <3>1 DEF Works, Bound, Work
  <2>4. /\ kind = "idle" => row.status = "shutting_down" /\ row.sb = intents[g].sb /\ ~intents[g].retired
        /\ kind = "recovery" => row.status = "recovering" /\ ~intents[g].retired
        /\ kind = "reap" => intents[g].retired /\ g \in disposals /\ row.pvc = "destroying"
    BY DEF ReconcileKind
  <2>5. WorkOf(x)
    <3>1. kind = "idle" => g = row.gen
      BY <1>i, <2>1, <2>4 DEF ClaimsInOrder
    <3>2. kind = "recovery" => Live(g) /\ x.sb < row.sb
      BY <1>i, <2>1, <2>3, <2>4 DEF SandboxesInOrder
    <3>3. kind = "reap" => row.status = "stopped" /\ x.sb = row.sb /\ disposals # {}
      BY <1>i, <2>1, <2>3, <2>4 DEF WorksSound, ClaimsInOrder, SandboxesInOrder
    <3>4. g # NoGen
      BY DEF Gens
    <3>5. QED
      BY <2>3, <2>4, <3>1, <3>2, <3>3, <3>4 DEF WorkOf
  <2>6. WorkOf(x)' /\ \A w \in works : WorkOf(w)'
    BY <1>i, <2>1, <2>5 DEF WorkOf, WorksSound
  <2>7. disposals # {} => row.status = "stopped" /\ row.pvc = "destroying" /\ disposals = {row.gen}
    BY <1>i DEF WorksSound
  <2>8. /\ works' = works \cup {x} /\ (\A w \in works : w.sb # x.sb) /\ intents' = intents
        /\ intents[x.gen].born /\ x.sb = intents[x.gen].sb /\ x.uid = intents[x.gen].uid
    BY <2>1, <2>3
  <2>9. disposals' # {} => row'.status = "stopped" /\ row'.pvc = "destroying" /\ disposals' = {row'.gen}
    BY <2>1, <2>7
  <2>10. /\ x \in Works /\ ~x.sealed /\ WorkOf(x)' /\ (\A w \in works : WorkOf(w)')
         /\ intents' = intents
    BY <2>1, <2>3, <2>6
  <2>11. TypeOK /\ WorksSound
    BY <1>i
  <2>12. QED
    BY <2>8, <2>9, <2>10, <2>11, WorkAdded
<1>11. CASE \E w \in works : ShutdownAck(w)
  <2> PICK w \in works : ShutdownAck(w)
    BY <1>11
  <2> PICK x : x = [w EXCEPT !.acked = TRUE]
    OBVIOUS
  <2>1. /\ x \in Works /\ x.kind = w.kind /\ x.sb = w.sb /\ x.gen = w.gen
        /\ x.disp = w.disp /\ x.uid = w.uid /\ x.sealed = w.sealed
    BY <1>g DEF Works
  <2>2. works' = (works \ {w}) \cup {x} /\ UNCHANGED <<row, intents, disposals>> /\ w.kind = "idle"
    BY DEF ShutdownAck
  <2>3. w.gen # NoGen
    BY <1>i, <2>2 DEF WorksSound, WorkOf, ClaimsInOrder, Gens
  <2>4. x.sealed => intents[w.gen].fenced /\ WritersSettled(x)'
    BY <1>i, <2>1, <2>2, <2>3 DEF WorksSound, WritersSettled
  <2>5. \A m \in Objects : x.uid[m] \in {NoUid, w.gen, intents[w.gen].uid[m]}
    BY <1>i, <2>1, <2>3 DEF WorksSound
  <2>6. QED
    BY <1>i, <2>1, <2>2, <2>3, <2>4, <2>5, WorkReplaced
<1>12. CASE \E w \in works : Capture(w)
  <2> PICK w \in works : Capture(w)
    BY <1>12
  <2> PICK x : x = Captured(w)
    OBVIOUS
  <2>1. w \in Works /\ w.gen \in Gens /\ w.gen # NoGen /\ w.kind # "reap" /\ ~w.sealed
    BY <1>g DEF Capture, Claims
  <2>2. [m \in Objects |-> Seen(w, m)] \in Uids
    BY <2>1 DEF Seen, Uids, Works
  <2>3. /\ x \in Works /\ x.kind = w.kind /\ x.sb = w.sb /\ x.gen = w.gen /\ ~x.sealed
        /\ \A m \in Objects : x.uid[m] = Seen(w, m)
    BY <2>1, <2>2 DEF Captured, Recorded, Works
  <2>4. works' = (works \ {w}) \cup {x} /\ UNCHANGED <<row, disposals>>
        /\ intents' = [intents EXCEPT ![w.gen].fenced = TRUE]
    BY DEF Capture, Fenced
  <2>5. \A g \in Gens : /\ intents'[g].born = intents[g].born /\ intents'[g].sb = intents[g].sb
                        /\ intents'[g].retired = intents[g].retired
                        /\ intents[g].fenced => intents'[g].fenced
                        /\ intents'[g].uid = intents[g].uid /\ intents'[g].disp = intents[g].disp
    BY <1>i, <2>1, <2>4 DEF TypeOK, Intents
  <2>6. \A m \in Objects : x.uid[m] \in {NoUid, w.gen, intents[w.gen].uid[m]}
    BY <1>i, <2>1, <2>3 DEF WorksSound, Seen
  <2>7. QED
    BY <1>i, <2>1, <2>3, <2>4, <2>5, <2>6, WorkReplaced
<1>13. CASE \E w \in works : Seal(w)
  <2> PICK w \in works : Seal(w)
    BY <1>13
  <2> PICK x : x = [w EXCEPT !.sealed = TRUE]
    OBVIOUS
  <2>1. /\ x \in Works /\ x.kind = w.kind /\ x.sb = w.sb /\ x.gen = w.gen
        /\ x.disp = w.disp /\ x.uid = w.uid
    BY <1>g DEF Works
  <2>2. works' = (works \ {w}) \cup {x} /\ UNCHANGED <<row, intents, disposals>>
        /\ w.gen # NoGen /\ intents[w.gen].fenced /\ WritersSettled(w)
    BY DEF Seal, Claims
  <2>3. WritersSettled(x)'
    BY <2>1, <2>2 DEF WritersSettled
  <2>4. \A m \in Objects : x.uid[m] \in {NoUid, w.gen, intents[w.gen].uid[m]}
    BY <1>i, <2>1, <2>2 DEF WorksSound
  <2>5. QED
    BY <1>i, <2>1, <2>2, <2>3, <2>4, WorkReplaced
<1>14. CASE \E w \in works : FinishIdle(w)
  <2>1. PICK w \in works : FinishIdle(w)
    BY <1>14
  <2>2. works' = {} /\ disposals' = {}
    BY <1>i, <1>g, <2>1 DEF FinishIdle, TornDown, Claims, WorksSound, WorkOf, Works
  <2>3. QED
    BY <2>2 DEF WorksSound
<1>15. CASE \E w \in works : FinishDisposal(w)
  <2>1. PICK w \in works : FinishDisposal(w)
    BY <1>15
  <2>2. works' = {} /\ disposals' = {}
    BY <1>i, <1>g, <2>1 DEF FinishDisposal, TornDown, Claims, WorksSound, WorkOf, Works
  <2>3. QED
    BY <2>2 DEF WorksSound
<1>16. CASE works' \subseteq works /\ UNCHANGED <<row, intents, disposals>>
  <2>1. \A w \in works : WritersSettled(w) => WritersSettled(w)'
    BY <1>16 DEF WritersSettled
  <2>2. QED
    BY <1>16, <1>i, <2>1 DEF WorksSound, WorkOf
<1>17. QED
  BY <1>1, <1>2, <1>4, <1>5, <1>6, <1>7, <1>8, <1>9, <1>10, <1>11, <1>12, <1>13, <1>14, <1>15, <1>16, NextCases
  DEF Crash, Perform, TimesOut, PerformLate, LoseWork, Delete

\* A work that names a generation: that of the latest claim, and with settled
\* writers none of its calls is outstanding.
LEMMA WorkFacts ==
    ASSUME IInv, NEW w \in works, w.gen # NoGen
    PROVE  /\ w \in Works /\ w.gen \in Gens /\ intents[w.gen].born /\ w.sb = intents[w.gen].sb
           /\ w.kind # "reap" => Live(w.gen) /\ w.gen = row.gen
           /\ w.kind = "reap" => \A g \in Gens : ~Live(g)
           /\ w.sealed => WritersSettled(w)
           /\ WritersSettled(w) => \A c \in writes \cup wire : c.gen # w.gen
<1>i. TypeOK /\ ClaimsInOrder /\ WorksSound /\ CallsSound
  BY DEF IInv
<1>1. /\ w \in Works /\ w.gen \in Gens /\ intents[w.gen].born /\ w.sb = intents[w.gen].sb
      /\ w.sealed => WritersSettled(w) /\ WorkOf(w)
  BY <1>i DEF TypeOK, Works, WorksSound
<1>2. w.kind \in {"idle", "recovery", "reap"} /\ WorkOf(w)
  BY <1>i, <1>1 DEF Works, WorksSound
<1>3. w.kind # "reap" => Live(w.gen) /\ w.gen = row.gen
  BY <1>i, <1>1, <1>2 DEF WorkOf, ClaimsInOrder
<1>4. w.kind = "reap" => \A g \in Gens : ~Live(g)
  BY <1>i, <1>2 DEF WorkOf, ClaimsInOrder
<1>5. ASSUME WritersSettled(w), NEW c \in writes \cup wire PROVE c.gen # w.gen
  <2>1. c.m \in Members /\ intents[c.gen].disp[c.m] = "inflight"
    BY <1>i DEF TypeOK, Writes, CallsSound
  <2>2. QED
    BY <1>5, <2>1, MemberFacts DEF WritersSettled
<1>6. QED
  BY <1>1, <1>3, <1>4, <1>5

\* What a complete teardown of a live generation leaves: of its own objects those the
\* work keeps, and of its disk nothing unless the session is to rest.
LEMMA TornDownFacts ==
    ASSUME IInv, NEW w \in works, w.kind # "reap", TornDown(w), WritersSettled(w)
    PROVE  /\ \A o \in objs : o.gen = w.gen => o.m \in Keeps(w)
           /\ w.kind = "recovery" => Disks = {}
<1>i. TypeOK /\ LedgerSound /\ ObjectsSound /\ OneDisk /\ WorksSound
  BY DEF IInv
<1>1. w.gen # NoGen /\ \A o \in objs : ~IsTarget(w, o)
  BY DEF TornDown, Claims, Targets
<1>2. w \in Works /\ w.gen \in Gens /\ Live(w.gen) /\ w.sb = intents[w.gen].sb
  BY <1>1, WorkFacts
<1>3. intents[w.gen].uid \in Uids
  BY <1>i, <1>2 DEF TypeOK, Intents
<1>4. \A m \in Objects : w.uid[m] \in {NoUid, w.gen, intents[w.gen].uid[m]}
  BY <1>i, <1>1 DEF WorksSound
<1>5. ASSUME NEW o \in objs, o.gen = w.gen PROVE o.m \in Keeps(w)
  <2>1. o.m \in Objects /\ o.sb = w.sb /\ ~Inherits(w.gen, o.m) /\ intents[w.gen].disp[o.m] # "unissued"
    BY <1>i, <1>2, <1>5 DEF TypeOK, ObjectsSound
  <2>2. w.uid[o.m] # NoUid
    BY <2>1 DEF WritersSettled
  <2>3. intents[w.gen].uid[o.m] \in {NoUid, w.gen}
    BY <1>i, <1>2, <2>1 DEF LedgerSound
  <2>4. w.uid[o.m] = o.gen
    BY <1>4, <1>5, <2>1, <2>2, <2>3
  <2>5. QED
    BY <1>1, <2>1, <2>4 DEF IsTarget
<1>6. ASSUME w.kind = "recovery", NEW o \in Disks PROVE FALSE
  <2>1. o \in objs /\ o.m = "workspace" /\ o.sb = w.sb /\ o.gen = DiskOf(w.gen)
    BY <1>i, <1>2 DEF OneDisk, Disks
  <2>2. CASE ~Resumed(w.gen)
    BY <1>5, <1>6, <2>1, <2>2 DEF DiskOf, Keeps
  <2>3. CASE Resumed(w.gen)
    <3>1. intents[w.gen].uid["workspace"] # NoUid /\ intents[w.gen].disp["workspace"] = "settled"
      BY <1>i, <1>2, <2>3, MemberFacts DEF LedgerSound
    <3>2. w.uid["workspace"] = o.gen
      BY <2>1, <2>3, <3>1, MemberFacts DEF WritersSettled, DiskOf
    <3>3. QED
      BY <1>1, <1>6, <2>1, <3>2 DEF IsTarget, Keeps
  <2>4. QED
    BY <2>2, <2>3
<1>7. QED
  BY <1>5, <1>6

\* A performed call adds at most the object it names.
LEMMA CreatedFacts ==
    ASSUME NEW c, Created(c)
    PROVE  \/ objs' = objs
           \/ /\ c.m \in Objects /\ Named(c.m, c.gen) = {}
              /\ objs' = objs \cup {Object(c.m, c.gen)}
  BY DEF Created, Made

\* One call of the living publisher: what becomes of it and of the objects.
LEMMA PerformFacts ==
    ASSUME IInv, NEW t \in writes, Perform(t)
    PROVE  /\ UNCHANGED <<ledger, wire, builder, rebuilt>> /\ ~t.done
           /\ \/ objs' = objs /\ writes' = writes \ {t}
              \/ /\ t.m \notin Objects /\ objs' = objs
                 /\ writes' = (writes \ {t}) \cup {[t EXCEPT !.done = TRUE]}
              \/ /\ t.m \in Objects /\ Named(t.m, t.gen) = {}
                 /\ objs' = objs \cup {Object(t.m, t.gen)}
                 /\ writes' = (writes \ {t}) \cup {[t EXCEPT !.done = TRUE]}
<1>1. CASE Dependencies(t) /\ Named(t.m, t.gen) = {}
  BY <1>1 DEF Perform, Created, Made
<1>2. CASE ~(Dependencies(t) /\ Named(t.m, t.gen) = {})
  BY <1>2 DEF Perform, Created, cluster
<1>3. QED
  BY <1>1, <1>2 DEF Perform

LEMMA CallsStep == ASSUME IInv, [Next]_vars PROVE CallsSound'
<1>i. TypeOK /\ ClaimsInOrder /\ LedgerSound /\ CallsSound /\ ObjectsSound
  BY DEF IInv
<1>r. FinishRecovery => Recovered
  BY RecoveryFacts
<1>b. Begin => Begun
  BY BeginFacts
<1>p. Publish(Members) => Published
  BY PublishFacts
<1>t. /\ \A c \in writes : c \in Writes /\ c.gen \in Gens /\ c.m \in Members /\ c.done \in BOOLEAN
      /\ \A c \in wire : c.gen \in Gens /\ c.m \in Members /\ c = [m |-> c.m, gen |-> c.gen]
  BY <1>i DEF TypeOK, Writes
<1>l. \A c \in writes \cup wire : c.gen = row.gen /\ Live(row.gen) /\ row.gen \in Gens
  BY <1>i, <1>t DEF CallsSound, ClaimsInOrder
<1> USE DEF ledger, cluster, calls
<1>1. CASE /\ UNCHANGED <<objs, writes, wire>>
           /\ \A g \in Gens : Live(g) =>
                /\ Live(g)' /\ intents'[g].sb = intents[g].sb /\ intents'[g].disp = intents[g].disp
  BY <1>1, <1>i, <1>t DEF CallsSound, Object
<1>2. CASE Begin
  <2>1. \A g \in Gens : Live(g) => intents'[g] = intents[g]
    BY <1>2, <1>b DEF Begun, Live
  <2>2. QED
    BY <1>1, <1>2, <1>b, <2>1 DEF Begun, Live
<1>3. CASE Validate
  <2>1. \A g \in Gens : /\ Live(g) => Live(g)'
                        /\ intents'[g].sb = intents[g].sb /\ intents'[g].disp = intents[g].disp
    BY <1>3, <1>i DEF Validate, TypeOK, Intents, Live
  <2>2. QED
    BY <1>1, <1>3, <2>1 DEF Validate
<1>4. CASE Publish(Members)
  <2> USE <1>4, <1>p DEF Published
  <2>0. /\ intents[row.gen].disp \in Disps /\ Live(row.gen) /\ row.gen \in Gens
        /\ UNCHANGED <<objs, wire>> /\ Member \in Members
        /\ \A g \in Gens : (Live(g)' <=> Live(g)) /\ intents'[g].sb = intents[g].sb
    BY <1>i DEF TypeOK, Intents, Live
  <2>1. CASE intents'[row.gen].disp = intents[row.gen].disp /\ writes' = writes
    <3>1. \A g \in Gens : Live(g) =>
                /\ Live(g)' /\ intents'[g].sb = intents[g].sb /\ intents'[g].disp = intents[g].disp
      <4>1. \A g \in Gens : Live(g) => g = row.gen
        BY <1>i DEF ClaimsInOrder
      <4>2. QED
        BY <2>0, <2>1, <4>1
    <3>2. QED
      BY <1>1, <2>0, <2>1, <3>1
  <2>2. CASE /\ intents[row.gen].disp[Member] = "unissued"
             /\ intents'[row.gen].disp = [intents[row.gen].disp EXCEPT ![Member] = "inflight"]
             /\ writes' = writes \cup {[m |-> Member, gen |-> row.gen, done |-> FALSE]}
    <3> PICK x : x = [m |-> Member, gen |-> row.gen, done |-> FALSE]
      OBVIOUS
    <3>1. /\ writes' = writes \cup {x} /\ intents[row.gen].disp[Member] = "unissued"
          /\ intents'[row.gen].disp = [intents[row.gen].disp EXCEPT ![Member] = "inflight"]
      BY <2>2
    <3>2. \A c \in writes \cup wire : c.gen = row.gen /\ c.m # Member
      BY <1>i, <1>l, <3>1 DEF CallsSound
    <3>3. x.m = Member /\ x.gen = row.gen /\ x.done = FALSE
      OBVIOUS
    <3>4. Member \in Objects => Object(Member, row.gen) \notin objs
      BY <1>i, <3>1 DEF ObjectsSound, Object
    <3>5. \A m \in Objects, g \in Gens : Object(m, g)' = Object(m, g)
      BY <2>0 DEF Object
    <3>6. \A m \in Members : m # Member => intents'[row.gen].disp[m] = intents[row.gen].disp[m]
      BY <2>0, <3>1 DEF Disps
    <3>7. intents'[row.gen].disp[Member] = "inflight"
      BY <2>0, <3>1 DEF Disps
    <3> HIDE <1>4, <1>p DEF Published
    <3>8. \A c \in writes' : c \in writes \/ c = x
      BY <3>1
    <3>9. \A c \in writes' \cup wire' : Live(c.gen)' /\ intents'[c.gen].disp[c.m] = "inflight"
      <4>1. \A c \in writes \cup wire : c.gen = row.gen /\ intents[row.gen].disp[c.m] = "inflight"
                /\ c.m \in Members
        BY <1>i, <1>t, <3>2 DEF CallsSound
      <4>2. \A c \in writes' \cup wire' : c.gen = row.gen /\ intents'[row.gen].disp[c.m] = "inflight"
        BY <2>0, <3>2, <3>3, <3>6, <3>7, <3>8, <4>1
      <4>3. QED
        BY <2>0, <4>2
    <3>10. /\ \A c, d \in writes' : c.m = d.m => c = d
           /\ \A c \in writes', d \in wire' : c.m # d.m
      BY <1>i, <2>0, <3>2, <3>3, <3>8 DEF CallsSound
    <3>11. /\ \A c \in writes' : c.m \in Objects => (c.done <=> Object(c.m, c.gen)' \in objs')
           /\ \A c \in wire' : c.m \in Objects => Object(c.m, c.gen)' \notin objs'
      <4>1. \A c \in writes \cup wire : c.m \in Objects => Object(c.m, c.gen)' = Object(c.m, c.gen)
        BY <1>t, <3>5
      <4>2. x.m \in Objects => Object(x.m, x.gen)' \notin objs'
        BY <2>0, <3>3, <3>4, <3>5
      <4>3. QED
        BY <1>i, <2>0, <3>3, <3>8, <4>1, <4>2 DEF CallsSound
    <3>12. QED
      BY <3>9, <3>10, <3>11 DEF CallsSound
  <2>3. QED
    BY <2>1, <2>2
<1>5. CASE \E t \in writes : Settle(t)
  <2> PICK t \in writes : Settle(t)
    BY <1>5
  <2>1. /\ \A g \in Gens \ {t.gen} : intents'[g] = intents[g]
        /\ intents'[t.gen] = [intents[t.gen] EXCEPT !.disp = [@ EXCEPT ![t.m] = "settled"]]
        /\ writes' = writes \ {t} /\ UNCHANGED <<objs, wire>> /\ t.gen \in Gens
        /\ intents[t.gen] \in Intents
    BY <1>i, <1>t DEF Settle, TypeOK
  <2>2. /\ intents'[t.gen].born = intents[t.gen].born /\ intents'[t.gen].sb = intents[t.gen].sb
        /\ intents'[t.gen].retired = intents[t.gen].retired
        /\ \A m \in Members : m # t.m => intents'[t.gen].disp[m] = intents[t.gen].disp[m]
    BY <2>1 DEF Intents, Disps
  <2>3. \A c \in writes' \cup wire : c.m # t.m /\ c.gen = t.gen /\ c.m \in Members
    BY <1>i, <1>l, <1>t, <2>1 DEF CallsSound
  <2>4. \A m \in Objects : Object(m, t.gen)' = Object(m, t.gen)
    BY <2>2 DEF Object
  <2>5. \A c \in writes' \cup wire' : Live(c.gen)' /\ intents'[c.gen].disp[c.m] = "inflight"
    <3>1. \A c \in writes' \cup wire' : c \in writes \cup wire
      BY <2>1
    <3>2. \A c \in writes' \cup wire' : Live(c.gen) /\ intents[c.gen].disp[c.m] = "inflight"
      BY <1>i, <3>1 DEF CallsSound
    <3>3. Live(t.gen) => Live(t.gen)'
      BY <2>2 DEF Live
    <3>4. ASSUME NEW c \in writes' \cup wire'
          PROVE  Live(c.gen)' /\ intents'[c.gen].disp[c.m] = "inflight"
      <4>1. c.gen = t.gen /\ c.m # t.m /\ c.m \in Members
        BY <2>3, <2>1
      <4>2. Live(c.gen) /\ intents[c.gen].disp[c.m] = "inflight"
        BY <3>2
      <4>3. QED
        BY <2>2, <3>3, <4>1, <4>2
    <3>5. QED
      BY <3>4
  <2>6. \A c \in writes' \cup wire' : c.m \in Objects => Object(c.m, c.gen)' = Object(c.m, c.gen)
    BY <2>3, <2>4, <2>1
  <2>7. QED
    BY <1>i, <2>1, <2>5, <2>6 DEF CallsSound
<1>6. CASE \E t \in writes : Perform(t)
  <2> PICK t \in writes : Perform(t)
    BY <1>6
  <2> PICK x : x = [t EXCEPT !.done = TRUE]
    OBVIOUS
  <2>1. x.m = t.m /\ x.gen = t.gen /\ x.done = TRUE
    BY <1>t DEF Writes
  <2>2. UNCHANGED <<intents, wire>> /\ \A m, g : Object(m, g)' = Object(m, g)
    BY PerformFacts DEF Object
  <2>3. \A g \in Gens : Live(g)' <=> Live(g)
    BY <2>2 DEF Live
  <2>4. \A c \in (writes \ {t}) \cup wire : c.m # t.m
    BY <1>i DEF CallsSound
  <2>5. CASE objs' = objs /\ writes' = writes \ {t}
    BY <1>i, <1>t, <2>2, <2>3, <2>4, <2>5 DEF CallsSound
  <2>6. ASSUME writes' = (writes \ {t}) \cup {x},
               t.m \in Objects => Object(t.m, t.gen) \in objs',
               \A c \in (writes \ {t}) \cup wire :
                    c.m \in Objects => (Object(c.m, c.gen) \in objs' <=> Object(c.m, c.gen) \in objs)
        PROVE  CallsSound'
    <3>1. \A c \in writes' : c \in writes \ {t} \/ c = x
      BY <2>6
    <3>2. \A c \in writes' \cup wire' : Live(c.gen)' /\ intents'[c.gen].disp[c.m] = "inflight"
      <4>1. \A c \in writes \cup wire : Live(c.gen)' /\ intents'[c.gen].disp[c.m] = "inflight"
        BY <1>i, <1>t, <2>2, <2>3 DEF CallsSound
      <4>2. Live(x.gen)' /\ intents'[x.gen].disp[x.m] = "inflight"
        BY <2>1, <4>1 DEF Live
      <4>3. QED
        BY <2>2, <3>1, <4>1, <4>2
    <3>3. /\ \A c, d \in writes' : c.m = d.m => c = d
          /\ \A c \in writes', d \in wire' : c.m # d.m
      BY <1>i, <2>1, <2>2, <2>4, <3>1 DEF CallsSound
    <3>4. /\ \A c \in writes' : c.m \in Objects => (c.done <=> Object(c.m, c.gen)' \in objs')
          /\ \A c \in wire' : c.m \in Objects => Object(c.m, c.gen)' \notin objs'
      BY <1>i, <2>1, <2>2, <2>6, <3>1 DEF CallsSound
    <3>5. QED
      BY <3>2, <3>3, <3>4 DEF CallsSound
  <2>7. CASE objs' = objs \cup {Object(t.m, t.gen)} /\ writes' = (writes \ {t}) \cup {x}
    <3>1. \A c \in (writes \ {t}) \cup wire :
            Object(c.m, c.gen) \in objs' <=> Object(c.m, c.gen) \in objs
      BY <2>4, <2>7 DEF Object
    <3>2. QED
      BY <2>6, <2>7, <3>1
  <2>8. CASE t.m \notin Objects /\ objs' = objs /\ writes' = (writes \ {t}) \cup {x}
    BY <2>6, <2>8
  <2>9. QED
    BY <2>5, <2>7, <2>8, PerformFacts
<1>7. CASE \E c \in wire : PerformLate(c)
  <2> PICK t \in wire : PerformLate(t)
    BY <1>7
  <2>1. UNCHANGED <<intents, writes>> /\ wire' = wire \ {t} /\ \A m, g : Object(m, g)' = Object(m, g)
    BY DEF PerformLate, Object
  <2>2. \A g \in Gens : Live(g)' <=> Live(g)
    BY <2>1 DEF Live
  <2>3. \A c \in writes \cup wire' : c.m # t.m
    <3>1. \A c \in wire' : c.m # t.m
      BY <1>l, <1>t, <2>1
    <3>2. QED
      BY <1>i, <3>1 DEF CallsSound
  <2>4. \A c \in writes \cup wire' : Object(c.m, c.gen) \in objs' <=> Object(c.m, c.gen) \in objs
    BY <2>3, CreatedFacts DEF PerformLate, Object
  <2>5. QED
    BY <1>i, <1>t, <2>1, <2>2, <2>3, <2>4 DEF CallsSound
<1>8. CASE Crash
  <2>1. /\ writes' = {} /\ UNCHANGED <<objs, intents>> /\ \A m, g : Object(m, g)' = Object(m, g)
        /\ wire' = wire \cup {[m |-> t.m, gen |-> t.gen] : t \in {u \in writes : ~u.done}}
    BY <1>8 DEF Crash, Object
  <2>2. \A c \in wire' : c \in wire \/ \E t \in writes : ~t.done /\ c.m = t.m /\ c.gen = t.gen
    BY <2>1
  <2>3. \A g \in Gens : Live(g)' <=> Live(g)
    BY <2>1 DEF Live
  <2>4. QED
    BY <1>i, <1>t, <2>1, <2>2, <2>3 DEF CallsSound
<1>9. CASE \E t \in writes : TimesOut(t)
  <2> PICK t \in writes : TimesOut(t)
    BY <1>9
  <2>1. /\ writes' = writes \ {t} /\ ~t.done
        /\ UNCHANGED <<objs, intents>> /\ \A m, g : Object(m, g)' = Object(m, g)
        /\ wire' = wire \cup {[m |-> t.m, gen |-> t.gen]}
    BY DEF TimesOut, Object
  <2>2. \A c \in wire' : c \in wire \/ (c.m = t.m /\ c.gen = t.gen)
    BY <2>1
  <2>3. \A g \in Gens : Live(g)' <=> Live(g)
    BY <2>1 DEF Live
  <2>4. QED
    BY <1>i, <1>t, <2>1, <2>2, <2>3 DEF CallsSound
<1>10. CASE \E w \in works, o \in objs : Delete(w, o)
  <2> PICK w \in works, o \in objs : Delete(w, o)
    BY <1>10
  <2>1. w.gen # NoGen /\ (w.sealed \/ w.kind = "reap") /\ UNCHANGED <<intents, writes, wire>>
    BY DEF Delete, Claims
  <2>2. writes \cup wire = {}
    <3>1. CASE w.kind = "reap"
      BY <1>l, <2>1, <3>1, WorkFacts
    <3>2. CASE w.kind # "reap"
      BY <1>l, <2>1, <3>2, WorkFacts
    <3>3. QED
      BY <3>1, <3>2
  <2>3. QED
    BY <2>1, <2>2 DEF CallsSound
<1>11. CASE \E w \in works : FinishIdle(w)
  <2> PICK w \in works : FinishIdle(w)
    BY <1>11
  <2>1. w.gen # NoGen /\ WritersSettled(w) /\ w.kind # "reap" /\ UNCHANGED <<writes, wire>>
    BY DEF FinishIdle, TornDown, Claims
  <2>2. writes \cup wire = {}
    BY <1>l, <2>1, WorkFacts
  <2>3. QED
    BY <2>1, <2>2 DEF CallsSound
<1>12. CASE FinishRecovery
  <2>1. UNCHANGED <<writes, wire>>
    BY <1>12, <1>r DEF Recovered
  <2>2. writes \cup wire = {}
    <3> SUFFICES ASSUME NEW c \in writes \cup wire PROVE FALSE
      OBVIOUS
    <3>1. Live(row.gen) /\ row.gen \in Gens /\ c.gen = row.gen
      BY <1>l
    <3>2. PICK w \in works : w.gen = row.gen /\ w.kind = "recovery"
      BY <3>1, <1>12, <1>r DEF Recovered
    <3>3. w.gen # NoGen /\ intents[w.gen].born /\ w.sb = intents[w.gen].sb
      BY <3>1, <3>2, WorkFacts DEF Gens, NoGen
    <3>4. WritersSettled(w)
      BY <3>2, <3>3, <1>12, <1>r DEF Recovered, NeverCreated
    <3>5. QED
      BY <3>1, <3>2, <3>3, <3>4, WorkFacts
  <2>3. QED
    BY <2>1, <2>2 DEF CallsSound
<1>13. CASE \E w \in works : Capture(w)
  <2>1. /\ UNCHANGED <<objs, writes, wire>>
        /\ \A g \in Gens : Live(g) => /\ Live(g)' /\ intents'[g].sb = intents[g].sb
                                      /\ intents'[g].disp = intents[g].disp
    BY <1>13, <1>i DEF Capture, Fenced, TypeOK, Intents, Live
  <2>2. QED
    BY <1>1, <2>1
<1>14. CASE UNCHANGED <<intents, objs, writes, wire>>
  BY <1>1, <1>14 DEF Live
<1>15. QED
  BY <1>2, <1>3, <1>4, <1>5, <1>6, <1>7, <1>8, <1>9, <1>10, <1>11, <1>12, <1>13, <1>14, NextCases
  DEF Provision, Ready, BuildFails, Idle, Recover, Reap, Reconcile, ShutdownAck, Seal, LoseWork, FinishDisposal

\* A recovery that finishes leaves no disk, and nothing that is not kept.
LEMMA RecoveryLeaves ==
    ASSUME IInv, FinishRecovery
    PROVE  Disks = {} /\ \A o \in objs : o.m \in Kept
<1>i. TypeOK /\ ClaimsInOrder /\ WorksSound /\ ObjectsSound /\ OneDisk
  BY DEF IInv
<1>r. /\ row.status = "recovering"
      /\ \A w \in works : w.kind = "recovery" => NeverCreated(w) \/ (TornDown(w) /\ WritersSettled(w))
      /\ \A g \in Gens : Live(g) => \E w \in works : w.gen = g /\ w.kind = "recovery"
  BY RecoveryFacts DEF Recovered
<1>1. ASSUME NEW g \in Gens, Live(g)
      PROVE  \E w \in works : w.gen = g /\ w.kind = "recovery" /\ TornDown(w) /\ WritersSettled(w)
  <2>1. PICK w \in works : w.gen = g /\ w.kind = "recovery"
    BY <1>1, <1>r
  <2>2. w.gen # NoGen
    BY <2>1 DEF Gens, NoGen
  <2>3. QED
    BY <1>r, <2>1, <2>2 DEF NeverCreated
<1>2. ASSUME NEW o \in objs PROVE o.m \in Kept
  <2>1. CASE intents[o.gen].retired
    BY <1>i, <2>1 DEF ObjectsSound
  <2>2. CASE ~intents[o.gen].retired
    <3>1. Live(o.gen) /\ o.gen \in Gens
      BY <1>i, <2>2 DEF ObjectsSound, Live, TypeOK
    <3>2. PICK w \in works : w.gen = o.gen /\ w.kind = "recovery" /\ TornDown(w) /\ WritersSettled(w)
      BY <3>1, <1>1
    <3>3. QED
      BY <3>2, TornDownFacts DEF Keeps
  <2>3. QED
    BY <2>1, <2>2
<1>3. CASE \E g \in Gens : Live(g)
  <2>1. PICK w \in works : w.kind = "recovery" /\ TornDown(w) /\ WritersSettled(w)
    BY <1>1, <1>3
  <2>2. QED
    BY <1>2, <2>1, TornDownFacts
<1>4. CASE \A g \in Gens : ~Live(g)
  <2>1. \A w \in works : w.kind = "recovery"
    BY <1>i, <1>r DEF WorksSound, WorkOf, TypeOK, Works
  <2>2. SUFFICES ASSUME Disks # {} PROVE FALSE
    BY <1>2
  <2>3. PICK w \in works : w.gen = NoGen /\ Lifetime(w.sb) # {}
    BY <1>i, <1>r, <1>4, <2>2 DEF OneDisk
  <2>4. QED
    BY <1>r, <2>1, <2>3 DEF NeverCreated, TornDown, Claims
<1>5. QED
  BY <1>3, <1>4

\* A disposal that finishes leaves no disk.
LEMMA DisposalLeaves ==
    ASSUME IInv, NEW w \in works, w.kind = "reap", TornDown(w)
    PROVE  Disks = {} /\ \A g \in Gens : ~Live(g)
<1>i. TypeOK /\ WorksSound /\ OneDisk
  BY DEF IInv
<1>1. /\ w.gen # NoGen /\ row.status = "stopped" /\ row.sb = w.sb
      /\ \A o \in objs : ~IsTarget(w, o)
  BY <1>i DEF TornDown, Claims, Targets
<1>2. /\ w.gen \in Gens /\ intents[w.gen].born /\ w.sb = intents[w.gen].sb
      /\ w.uid = intents[w.gen].uid /\ \A g \in Gens : ~Live(g)
  BY <1>i, <1>1, WorkFacts DEF WorksSound, WorkOf
<1>3. ASSUME NEW o \in Disks PROVE FALSE
  <2>1. o \in objs /\ o.m = "workspace" /\ o.sb = row.sb
    BY <1>i, <1>1, <1>2 DEF OneDisk, Disks
  <2>2. PICK h \in Gens : intents[h].retired /\ intents[h].sb = row.sb /\ o.gen = intents[h].uid["workspace"]
    BY <1>i, <1>1, <1>2 DEF OneDisk
  <2>3. o.gen = intents[w.gen].uid["workspace"]
    BY <1>i, <1>1, <1>2, <2>2 DEF OneDisk
  <2>4. QED
    BY <1>1, <1>2, <2>1, <2>3 DEF IsTarget, Keeps
<1>4. QED
  BY <1>2, <1>3

LEMMA ObjectsStep == ASSUME IInv, [Next]_vars PROVE ObjectsSound'
<1>i. TypeOK /\ ClaimsInOrder /\ LedgerSound /\ CallsSound /\ ObjectsSound
  BY DEF IInv
<1>r. FinishRecovery => Recovered
  BY RecoveryFacts
<1>b. Begin => Begun
  BY BeginFacts
<1>p. Publish(Members) => Published
  BY PublishFacts
<1>t. \A o \in objs : o.gen \in Gens /\ o.m \in Objects
  BY <1>i DEF TypeOK
<1>u. \A g \in Gens : intents[g] \in Intents
  BY <1>i DEF TypeOK
<1> USE DEF ledger, cluster, calls
\* Nothing is retired, and a member that was sent stays sent.
<1>1. ASSUME objs' \subseteq objs,
             \A g \in Gens : intents[g].born =>
                /\ intents'[g].born /\ intents'[g].sb = intents[g].sb
                /\ intents'[g].from = intents[g].from
                /\ intents'[g].retired => intents[g].retired
                /\ \A m \in Objects :
                    intents[g].disp[m] # "unissued" => intents'[g].disp[m] # "unissued"
      PROVE  ObjectsSound'
  BY <1>1, <1>i, <1>t DEF ObjectsSound, Inherits, Resumed
<1>2. CASE Begin
  <2>1. objs' = objs /\ \A g \in Gens : intents[g].born => intents'[g] = intents[g]
    BY <1>2, <1>b DEF Begun
  <2>2. QED
    BY <1>1, <2>1
<1>3. CASE Publish(Members)
  <2> USE <1>3, <1>p DEF Published
  <2>1. \A m \in Members :
            intents[row.gen].disp[m] # "unissued" => intents'[row.gen].disp[m] # "unissued"
    <3>1. intents[row.gen].disp \in Disps
      BY <1>u DEF Intents
    <3>2. QED
      BY <3>1 DEF Disps
  <2>2. objs' = objs /\ \A g \in Gens :
            /\ intents'[g].born = intents[g].born /\ intents'[g].sb = intents[g].sb
            /\ intents'[g].from = intents[g].from /\ intents'[g].retired = intents[g].retired
            /\ g # row.gen => intents'[g] = intents[g]
    OBVIOUS
  <2> HIDE <1>3, <1>p DEF Published
  <2>3. QED
    BY <1>1, <2>1, <2>2, MemberFacts
<1>4. CASE \E t \in writes : Settle(t)
  <2>1. objs' = objs /\ \A g \in Gens :
            /\ intents'[g].born = intents[g].born /\ intents'[g].sb = intents[g].sb
            /\ intents'[g].from = intents[g].from /\ intents'[g].retired = intents[g].retired
    BY <1>4, <1>i, <1>u DEF Settle, Intents, TypeOK
  <2>2. \A g \in Gens, m \in Members :
            intents[g].disp[m] # "unissued" => intents'[g].disp[m] # "unissued"
    <3> PICK t \in writes : Settle(t)
      BY <1>4
    <3>1. /\ \A g \in Gens \ {t.gen} : intents'[g] = intents[g]
          /\ intents'[t.gen] = [intents[t.gen] EXCEPT !.disp = [@ EXCEPT ![t.m] = "settled"]]
          /\ t.gen \in Gens
      BY <1>i DEF Settle, TypeOK, Writes
    <3>2. intents'[t.gen].disp = [intents[t.gen].disp EXCEPT ![t.m] = "settled"]
      BY <1>u, <3>1 DEF Intents
    <3>3. intents[t.gen].disp \in Disps
      BY <1>u, <3>1 DEF Intents
    <3>4. QED
      BY <3>1, <3>2, <3>3 DEF Disps
  <2>3. QED
    BY <1>1, <2>1, <2>2, MemberFacts
<1>5. CASE Validate \/ \E w \in works : Capture(w)
  <2>1. objs' = objs /\ \A g \in Gens :
            /\ intents'[g].born = intents[g].born /\ intents'[g].sb = intents[g].sb
            /\ intents'[g].from = intents[g].from /\ intents'[g].retired = intents[g].retired
            /\ intents'[g].disp = intents[g].disp
    <3>1. CASE Validate
      BY <3>1, <1>i, <1>u DEF Validate, Intents, TypeOK
    <3>2. CASE \E w \in works : Capture(w)
      BY <3>2, <1>i, <1>u DEF Capture, Fenced, Intents, TypeOK
    <3>3. QED
      BY <1>5, <3>1, <3>2
  <2>2. QED
    BY <1>1, <2>1
\* A call creates an object of a live generation that inherits nothing of its name.
<1>6. ASSUME NEW c, c \in writes \cup wire, c.m \in Objects, UNCHANGED intents,
             objs' = objs \cup {Object(c.m, c.gen)}
      PROVE  ObjectsSound'
  <2>1. c.gen \in Gens /\ Live(c.gen) /\ intents[c.gen].disp[c.m] = "inflight"
    BY <1>i, <1>6 DEF TypeOK, Writes, CallsSound
  <2>2. ~Inherits(c.gen, c.m)
    BY <1>i, <2>1 DEF LedgerSound, Inherits
  <2> PICK x : x = Object(c.m, c.gen)
    OBVIOUS
  <2>3. x.m = c.m /\ x.gen = c.gen /\ x.sb = intents[c.gen].sb
    BY DEF Object
  <2>4. \A o \in objs' : o \in objs \/ o = x
    BY <1>6
  <2>5. QED
    BY <1>6, <1>i, <2>1, <2>2, <2>3, <2>4 DEF ObjectsSound, Inherits, Resumed, Live
<1>7. CASE \E t \in writes : Perform(t)
  <2> PICK t \in writes : Perform(t)
    BY <1>7
  <2>1. CASE objs' = objs
    BY <1>1, <2>1, PerformFacts
  <2>2. CASE t.m \in Objects /\ objs' = objs \cup {Object(t.m, t.gen)}
    BY <1>6, <2>2, PerformFacts
  <2>3. QED
    BY <2>1, <2>2, PerformFacts
<1>8. CASE \E c \in wire : PerformLate(c)
  <2> PICK c \in wire : PerformLate(c)
    BY <1>8
  <2>1. CASE objs' = objs
    BY <1>1, <2>1 DEF PerformLate
  <2>2. CASE c.m \in Objects /\ objs' = objs \cup {Object(c.m, c.gen)}
    BY <1>6, <2>2 DEF PerformLate
  <2>3. QED
    BY <2>1, <2>2, CreatedFacts DEF PerformLate
<1>9. CASE \E w \in works : FinishIdle(w)
  <2> PICK w \in works : FinishIdle(w)
    BY <1>9
  <2>1. /\ w.kind = "idle" /\ TornDown(w) /\ WritersSettled(w) /\ w.gen # NoGen
        /\ intents' = [intents EXCEPT ![w.gen].retired = TRUE] /\ objs' = objs
    BY DEF FinishIdle, TornDown, Claims, Retired
  <2>2. w.gen \in Gens /\ \A o \in objs : o.gen = w.gen => o.m \in Kept
    BY <2>1, WorkFacts, TornDownFacts, MemberFacts DEF Keeps
  <2>3. \A g \in Gens :
            /\ intents'[g].born = intents[g].born /\ intents'[g].sb = intents[g].sb
            /\ intents'[g].from = intents[g].from /\ intents'[g].disp = intents[g].disp
            /\ intents'[g].retired => intents[g].retired \/ g = w.gen
    BY <1>i, <1>u, <2>1, <2>2 DEF Intents, TypeOK
  <2>4. QED
    BY <1>i, <1>t, <2>1, <2>2, <2>3 DEF ObjectsSound, Inherits, Resumed
<1>10. CASE FinishRecovery
  <2>1. objs' = objs /\ \A g \in Gens :
            /\ intents'[g].born = intents[g].born /\ intents'[g].sb = intents[g].sb
            /\ intents'[g].from = intents[g].from /\ intents'[g].disp = intents[g].disp
    BY <1>10, <1>r DEF Recovered
  <2>2. \A o \in objs : o.m \in Kept
    BY <1>10, RecoveryLeaves
  <2>3. QED
    BY <1>i, <1>t, <2>1, <2>2 DEF ObjectsSound, Inherits, Resumed
<1>11. CASE UNCHANGED intents /\ objs' \subseteq objs
  BY <1>1, <1>11
<1>12. QED
  BY <1>2, <1>3, <1>4, <1>5, <1>7, <1>8, <1>9, <1>10, <1>11, NextCases
  DEF Provision, Ready, BuildFails, Crash, TimesOut, Idle, Recover, Reap, Reconcile, ShutdownAck, Seal,
      LoseWork, FinishDisposal, Delete

LEMMA StorageStep == ASSUME IInv, [Next]_vars PROVE StorageStands'
<1>i. /\ TypeOK /\ ClaimsInOrder /\ SandboxesInOrder /\ LedgerSound /\ WorksSound /\ CallsSound
      /\ StorageStands
  BY DEF IInv
<1>r. FinishRecovery => Recovered
  BY RecoveryFacts
<1>b. Begin => Begun
  BY BeginFacts
<1>p. Publish(Members) => Published
  BY PublishFacts
<1>u. \A g \in Gens : intents[g] \in Intents
  BY <1>i DEF TypeOK
<1>k. Retained \subseteq Kept /\ Kept \subseteq Objects
  BY MemberFacts DEF Retained
<1>n. row.status \in {"creating", "ready", "failed", "shutting_down", "stopped", "recovering"} =>
        row.gen \in Gens
  BY <1>i DEF ClaimsInOrder
<1> USE DEF ledger, cluster, calls
\* Nothing is taken from the cluster, and the claim stays what it is.
<1>1. ASSUME objs \subseteq objs', row' = row, rebuilt \subseteq rebuilt',
             builder' = builder \/ builder' = NoBuilder,
             \A g \in Gens :
                /\ intents'[g].born = intents[g].born /\ intents'[g].sb = intents[g].sb
                /\ intents'[g].from = intents[g].from /\ intents'[g].uid = intents[g].uid
                /\ \A m \in Objects : intents'[g].disp[m] = "settled" =>
                    intents[g].disp[m] = "settled" \/ Object(m, g) \in objs
      PROVE  StorageStands'
  <2>1. Retained' \subseteq Retained
    BY <1>1, MemberFacts DEF Retained
  <2>2. \A g \in Gens, m \in Objects :
            /\ Object(m, g) \in objs => Object(m, g)' \in objs'
            /\ Standing(m, g) => Standing(m, g)'
    BY <1>1 DEF Object, Standing
  <2>3. row.status \in {"creating", "ready"} =>
            \A m \in Objects : intents'[row.gen].born /\ intents'[row.gen].disp[m] = "settled"
                                /\ ~Inherits(row.gen, m) => Object(m, row.gen) \in objs
    BY <1>1, <1>i, <1>n DEF StorageStands
  <2>4. \A m : row.gen \in Gens => (Inherits(row.gen, m)' <=> Inherits(row.gen, m))
    BY <1>1 DEF Inherits, Resumed
  <2>5. (row.status \in {"creating", "ready"} =>
            \A m \in Objects : intents[row.gen].born /\ intents[row.gen].disp[m] = "settled"
                                /\ ~Inherits(row.gen, m) => Object(m, row.gen) \in objs)'
    BY <1>1, <1>n, <2>2, <2>3, <2>4
  <2>6. builder'.gen # NoGen => builder' = builder
    BY <1>1 DEF NoBuilder
  <2>7. builder.gen # NoGen /\ builder.at = 0 /\ builder.resume => row.gen - 1 \in Gens
    BY <1>i DEF SandboxesInOrder
  <2>8. QED
    BY <1>1, <1>i, <1>k, <1>n, <2>1, <2>2, <2>5, <2>6, <2>7 DEF StorageStands, Resumed
<1>2. CASE Provision
  <2>1. /\ row.gen + 1 \in Gens /\ row'.gen = row.gen + 1 /\ row'.sb = row.sb
        /\ row'.status = "creating" /\ UNCHANGED <<intents, objs, rebuilt>> /\ row.gen \in Int
    BY <1>2, <1>i, ClaimTyped, BoundAssumption DEF Provision, TypeOK, Rows, Gens, NoGen
  <2>2. ~intents[row.gen + 1].born
    BY <1>i, <2>1 DEF ClaimsInOrder
  <2>3. builder' = Builder(row.gen + 1, row.pvc = "detached")
    BY <1>2 DEF Provision
  <2>4. builder'.resume => row.status = "stopped" /\ row.pvc = "detached"
    <3>1. builder'.resume <=> row.pvc = "detached"
      BY <2>3 DEF Builder
    <3>2. row.status \in {"none", "stopped"} /\ (row.status = "none" => row.pvc = "none")
      BY <1>2, <1>i DEF Provision, ClaimsInOrder
    <3>3. QED
      BY <3>1, <3>2
  <2>5. builder'.resume => \A m \in Retained : Standing(m, row.gen)
    BY <1>i, <2>4 DEF StorageStands
  <2>6. Retained' = Retained /\ row'.gen - 1 = row.gen
    BY <2>1 DEF Retained
  <2>7. \A m : [m |-> m, sb |-> intents'[row'.gen - 1].sb, gen |-> intents'[row'.gen - 1].uid[m]]
             = [m |-> m, sb |-> intents[row.gen].sb, gen |-> intents[row.gen].uid[m]]
    BY <2>1, <2>6
  <2>8. builder'.resume => \A m \in Retained' : Standing(m, row.gen - 1)'
    BY <2>1, <2>5, <2>6, <2>7 DEF Standing
  <2>9. QED
    BY <2>1, <2>2, <2>8 DEF StorageStands
<1>3. CASE Begin
  <2> USE <1>3, <1>b DEF Begun
  <2>1. /\ row' = row /\ objs' = objs /\ rebuilt' = rebuilt /\ row.status = "creating"
        /\ builder'.at = 1 /\ builder.at = 0 /\ builder.gen # NoGen /\ row.gen \in Gens
    BY <1>i DEF TypeOK, Builders, Gens, NoGen
  <2>2. Retained' = Retained
    BY <2>1 DEF Retained
  <2>3. CASE builder.resume
    <3>1. \A m \in Retained : Standing(m, row.gen - 1)
      BY <1>i, <2>1, <2>3 DEF StorageStands
    <3>2. \A m \in Kept : /\ intents'[row.gen].uid[m] = intents[row.gen - 1].uid[m]
                          /\ intents'[row.gen].sb = intents[row.gen - 1].sb
      BY <2>3, <1>k
    <3>3. \A m \in Retained : [m |-> m, sb |-> intents'[row.gen].sb, gen |-> intents'[row.gen].uid[m]] \in objs
      BY <3>1, <3>2, <1>k DEF Standing
    <3>4. intents'[row.gen].from # NoGen
      BY <2>3 DEF Gens, NoGen
    <3>5. \A m \in Objects : intents'[row.gen].disp[m] = "settled" => m \in Kept
      BY <2>3, MemberFacts
    <3> HIDE <1>3, <1>b DEF Begun
    <3>6. QED
      BY <2>1, <2>2, <3>3, <3>4, <3>5 DEF StorageStands, Standing, Inherits, Resumed
  <2>4. CASE ~builder.resume
    <3>1. intents'[row.gen].from = NoGen /\ \A m \in Objects : intents'[row.gen].disp[m] # "settled"
      BY <2>4, MemberFacts
    <3> HIDE <1>3, <1>b DEF Begun
    <3>2. QED
      BY <2>1, <3>1 DEF StorageStands, Resumed
  <2>5. QED
    BY <2>3, <2>4
<1>4. CASE Validate
  <2>1. \A g \in Gens :
                /\ intents'[g].born = intents[g].born /\ intents'[g].sb = intents[g].sb
                /\ intents'[g].from = intents[g].from /\ intents'[g].uid = intents[g].uid
                /\ intents'[g].disp = intents[g].disp
    BY <1>4, <1>i, <1>u DEF Validate, TypeOK, Intents
  <2>2. QED
    BY <1>1, <1>4, <2>1 DEF Validate
<1>5. CASE Publish(Members)
  <2> USE <1>5, <1>p DEF Published
  <2>1. /\ row' = row /\ objs' = objs /\ rebuilt' = rebuilt /\ row.status = "creating"
        /\ builder'.at \in 1..13 /\ row.gen \in Gens
        /\ intents'[row.gen].born = intents[row.gen].born /\ intents[row.gen].born
        /\ intents'[row.gen].sb = intents[row.gen].sb
        /\ intents'[row.gen].from = intents[row.gen].from
    BY DEF Live
  <2>2. \A m \in Objects : intents'[row.gen].disp[m] = "settled" => intents[row.gen].disp[m] = "settled"
    <3>1. intents[row.gen].disp \in Disps
      BY <1>u DEF Intents
    <3>2. QED
      BY <3>1, MemberFacts DEF Disps
  <2>3. \A m \in Kept : Resumed(row.gen) => intents'[row.gen].uid[m] = intents[row.gen].uid[m]
    <3>1. intents[row.gen].uid \in Uids
      BY <1>u DEF Intents
    <3>2. QED
      BY <3>1, <1>k DEF Uids, Inherits
  <2> HIDE <1>5, <1>p DEF Published
  <2>4. Retained' = Retained
    BY <2>1 DEF Retained
  <2>5. /\ \A m : Inherits(row.gen, m)' <=> Inherits(row.gen, m)
        /\ \A m : Object(m, row.gen)' = Object(m, row.gen)
    BY <2>1 DEF Inherits, Resumed, Object
  <2>6. Resumed(row.gen) => \A m \in Retained : Standing(m, row.gen)'
    BY <1>i, <1>k, <2>1, <2>3 DEF StorageStands, Standing
  <2>7. \A m \in Objects : intents'[row.gen].disp[m] = "settled" /\ ~Inherits(row.gen, m)
                             => Object(m, row.gen)' \in objs
    BY <1>i, <2>1, <2>2, <2>5 DEF StorageStands
  <2>8. builder'.at # 0 /\ (Resumed(row.gen)' <=> Resumed(row.gen))
    BY <2>1 DEF Resumed
  <2>9. QED
    BY <2>1, <2>4, <2>5, <2>6, <2>7, <2>8 DEF StorageStands
<1>6. CASE \E t \in writes : Settle(t)
  <2> PICK t \in writes : Settle(t)
    BY <1>6
  <2>1. /\ \A g \in Gens \ {t.gen} : intents'[g] = intents[g]
        /\ intents'[t.gen] = [intents[t.gen] EXCEPT !.disp = [@ EXCEPT ![t.m] = "settled"]]
        /\ t.gen \in Gens /\ t.done /\ UNCHANGED <<row, objs, rebuilt, builder>>
    BY <1>i DEF Settle, TypeOK, Writes
  <2>2. /\ intents'[t.gen].born = intents[t.gen].born /\ intents'[t.gen].sb = intents[t.gen].sb
        /\ intents'[t.gen].from = intents[t.gen].from /\ intents'[t.gen].uid = intents[t.gen].uid
        /\ \A m \in Members : m # t.m => intents'[t.gen].disp[m] = intents[t.gen].disp[m]
    BY <1>u, <2>1 DEF Intents, Disps
  <2>3. t.m \in Objects => Object(t.m, t.gen) \in objs
    BY <1>i, <2>1 DEF CallsSound
  <2>4. QED
    BY <1>1, <2>1, <2>2, <2>3, MemberFacts
<1>7. CASE Idle
  <2>1. /\ row'.gen = row.gen /\ row'.sb = row.sb /\ row'.status = "shutting_down"
        /\ row.status = "ready" /\ UNCHANGED <<intents, objs, rebuilt, builder>>
    BY <1>7, <1>i DEF Idle, TypeOK, Rows
  <2>2. /\ row.gen \in Gens /\ Live(row.gen)
        /\ builder.gen = NoGen
    BY <1>i, <1>n, <2>1 DEF ClaimsInOrder
  <2>3. ASSUME NEW m \in Retained PROVE Standing(m, row.gen)
    <3>1. CASE Resumed(row.gen)
      BY <1>i, <2>1, <2>2, <3>1 DEF StorageStands, Live
    <3>2. CASE ~Resumed(row.gen)
      <4>1. m \in Objects /\ ~Inherits(row.gen, m)
        BY <1>k, <3>2 DEF Inherits
      <4>2. intents[row.gen].uid[m] = row.gen /\ intents[row.gen].disp[m] = "settled"
        BY <1>i, <2>1, <2>2, <4>1 DEF LedgerSound
      <4>3. Object(m, row.gen) \in objs
        BY <1>i, <2>1, <2>2, <4>1, <4>2 DEF StorageStands, Live
      <4>4. QED
        BY <4>2, <4>3 DEF Object, Standing
    <3>3. QED
      BY <3>1, <3>2
  <2>4. QED
    BY <2>1, <2>2, <2>3 DEF StorageStands, Retained, Standing
<1>8. CASE Ready
  <2>1. /\ row'.gen = row.gen /\ row'.sb = row.sb /\ row'.status = "ready"
        /\ row.status = "creating" /\ UNCHANGED <<intents, objs, rebuilt>> /\ builder' = NoBuilder
    BY <1>8, <1>i DEF Ready, TypeOK, Rows
  <2>2. QED
    BY <1>i, <2>1 DEF StorageStands, Retained, Standing, Object, Inherits, Resumed, NoBuilder
<1>9. CASE Recover \/ BuildFails
  <2>1. row'.status \in {"recovering", "failed"} /\ builder' = NoBuilder
    BY <1>9, <1>i DEF Recover, BuildFails, TypeOK, Rows
  <2>2. QED
    BY <2>1 DEF StorageStands, NoBuilder
<1>10. CASE Reap \/ \E w \in works : FinishDisposal(w)
  <2>1. row.status = "stopped"
    BY <1>10, <1>i DEF Reap, FinishDisposal, TornDown, Claims
  <2>2. row'.status = "stopped" /\ row'.pvc # "detached" /\ builder' = builder
    BY <1>10, <1>i, <2>1 DEF Reap, FinishDisposal, TypeOK, Rows
  <2>3. builder.gen = NoGen
    BY <1>i, <2>1 DEF ClaimsInOrder
  <2>4. QED
    BY <2>2, <2>3 DEF StorageStands
<1>11. CASE FinishRecovery
  <2>1. /\ row'.gen = row.gen + 1 /\ row'.gen \in Gens /\ row.gen \in Int /\ row'.status = "creating"
        /\ builder'.resume = FALSE /\ intents'[row'.gen].born = intents[row'.gen].born
    BY <1>11, <1>r, <1>i, BoundAssumption DEF Recovered, TypeOK, Rows, Gens, NoGen
  <2>2. ~intents[row'.gen].born
    BY <1>i, <2>1 DEF ClaimsInOrder
  <2>3. QED
    BY <2>1, <2>2 DEF StorageStands
<1>12. CASE \E w \in works : Capture(w)
  <2>1. \A g \in Gens :
                /\ intents'[g].born = intents[g].born /\ intents'[g].sb = intents[g].sb
                /\ intents'[g].from = intents[g].from /\ intents'[g].uid = intents[g].uid
                /\ intents'[g].disp = intents[g].disp
    BY <1>12, <1>i, <1>u DEF Capture, Fenced, TypeOK, Intents
  <2>2. QED
    BY <1>1, <1>12, <2>1 DEF Capture
<1>13. CASE \E w \in works : FinishIdle(w)
  <2> PICK w \in works : FinishIdle(w)
    BY <1>13
  <2>1. /\ w.kind = "idle" /\ w.gen # NoGen /\ row.status = "shutting_down"
        /\ intents' = [intents EXCEPT ![w.gen].retired = TRUE]
        /\ UNCHANGED <<objs, rebuilt, builder>>
        /\ row'.gen = row.gen /\ row'.sb = row.sb /\ row'.status = "stopped"
    BY <1>i DEF FinishIdle, TornDown, Claims, Retired, TypeOK, Rows
  <2>2. \A g \in Gens : intents'[g].sb = intents[g].sb /\ intents'[g].uid = intents[g].uid
    BY <1>i, <1>u, <2>1 DEF TypeOK, Intents
  <2>3. builder.gen = NoGen /\ row.gen \in Gens
    BY <1>i, <1>n, <2>1 DEF ClaimsInOrder
  <2>4. QED
    BY <1>i, <2>1, <2>2, <2>3 DEF StorageStands, Retained, Standing
<1>14. CASE \E w \in works, o \in objs : Delete(w, o)
  <2> PICK w \in works, o \in objs : Delete(w, o)
    BY <1>14
  <2>1. /\ UNCHANGED <<row, intents, builder, rebuilt>> /\ objs' = objs \ {o}
        /\ w.gen # NoGen /\ IsTarget(w, o)
        /\ row.status = [idle |-> "shutting_down", recovery |-> "recovering", reap |-> "stopped"][w.kind]
        /\ w.kind # "recovery" => row.sb = w.sb
    BY DEF Delete, Claims
  <2>2. w.kind \in {"idle", "recovery", "reap"} /\ (w.kind = "reap" => row.pvc = "destroying")
    BY <1>i, <2>1, WorkFacts DEF WorksSound, WorkOf, Works
  <2>3. builder.gen = NoGen
    BY <1>i, <2>1, <2>2 DEF ClaimsInOrder
  <2>4. CASE w.kind = "idle"
    <3>1. Retained = Keeps(w) /\ row.status = "shutting_down"
      BY <2>1, <2>4 DEF Retained, Keeps
    <3>2. o.m \notin Retained
      BY <2>1, <3>1 DEF IsTarget
    <3>3. \A m \in Retained : Standing(m, row.gen)
      BY <1>i, <3>1 DEF StorageStands
    <3>4. \A m \in Retained : Standing(m, row.gen)'
      BY <2>1, <3>2, <3>3 DEF Standing
    <3>5. QED
      BY <2>1, <2>3, <3>1, <3>4 DEF StorageStands, Retained
  <2>5. CASE w.kind # "idle"
    BY <2>1, <2>2, <2>3, <2>5 DEF StorageStands
  <2>6. QED
    BY <2>4, <2>5
<1>15. CASE \E t \in writes : Perform(t)
  BY <1>1, <1>15, PerformFacts
<1>16. CASE \E c \in wire : PerformLate(c)
  <2>1. objs \subseteq objs' /\ UNCHANGED <<ledger, builder, rebuilt>>
    BY <1>16, CreatedFacts DEF PerformLate
  <2>2. QED
    BY <1>1, <2>1
<1>17. CASE /\ UNCHANGED <<row, intents, objs>> /\ rebuilt \subseteq rebuilt'
            /\ builder' = builder \/ builder' = NoBuilder
  BY <1>1, <1>17
<1>18. QED
  BY <1>2, <1>3, <1>4, <1>5, <1>6, <1>7, <1>8, <1>9, <1>10, <1>11, <1>12, <1>13, <1>14, <1>15, <1>16, <1>17,
     NextCases
  DEF Crash, TimesOut, Reconcile, ShutdownAck, Seal, LoseWork

LEMMA DiskStep == ASSUME IInv, [Next]_vars PROVE OneDisk'
<1>i. /\ TypeOK /\ ClaimsInOrder /\ SandboxesInOrder /\ LedgerSound /\ WorksSound /\ CallsSound
      /\ ObjectsSound /\ OneDisk
  BY DEF IInv
<1>r. FinishRecovery => Recovered
  BY RecoveryFacts
<1>b. Begin => Begun
  BY BeginFacts
<1>p. Publish(Members) => Published
  BY PublishFacts
<1>u. \A g \in Gens : intents[g] \in Intents
  BY <1>i DEF TypeOK
<1>k. Kept \subseteq Objects /\ "workspace" \in Kept
  BY MemberFacts
<1>w. \A w \in works : w.kind \in {"idle", "recovery", "reap"} /\ WorkOf(w)
  BY <1>i DEF TypeOK, Works, WorksSound
<1> USE DEF ledger, cluster, calls
\* No disk appears, and sandboxes and generations stay what they are.
<1>1. ASSUME Disks' \subseteq Disks, row'.sb = row.sb,
             row'.status = "recovering" <=> row.status = "recovering",
             row.status = "recovering" => \A w \in works : w.gen = NoGen => w \in works',
             \A g \in Gens :
                /\ intents'[g].born = intents[g].born /\ intents'[g].sb = intents[g].sb
                /\ intents'[g].from = intents[g].from
                /\ intents'[g].uid["workspace"] = intents[g].uid["workspace"]
                /\ intents'[g].retired = intents[g].retired
      PROVE  OneDisk'
  <2>1. \A g \in Gens : (Live(g)' <=> Live(g)) /\ DiskOf(g)' = DiskOf(g)
    BY <1>1 DEF Live, DiskOf, Resumed
  <2>2. \A sb : Lifetime(sb)' = Lifetime(sb)
    BY <1>1 DEF Lifetime
  <2>3. (\A g \in Gens : Live(g) => \A o \in Disks : o.sb = intents[g].sb /\ o.gen = DiskOf(g))'
    BY <1>1, <1>i, <2>1 DEF OneDisk
  <2>4. (\A g, h \in Gens :
            intents[g].retired /\ intents[h].born /\ intents[g].sb = row.sb /\ intents[h].sb = row.sb
            => intents[h].uid["workspace"] = intents[g].uid["workspace"] /\ intents[g].uid["workspace"] # NoUid)'
    BY <1>1, <1>i DEF OneDisk
  <2>5. ((\A g \in Gens : ~Live(g)) /\ row.status # "recovering" =>
            \A o \in Disks : o.sb = row.sb /\ \E h \in Gens :
                intents[h].retired /\ intents[h].sb = row.sb /\ o.gen = intents[h].uid["workspace"])'
    BY <1>1, <1>i, <2>1 DEF OneDisk
  <2>6. ((\A g \in Gens : ~Live(g)) /\ row.status = "recovering" /\ Disks # {} =>
            \E w \in works : w.gen = NoGen /\ Lifetime(w.sb) # {})'
    BY <1>1, <1>i, <2>1, <2>2 DEF OneDisk
  <2>7. QED
    BY <2>3, <2>4, <2>5, <2>6 DEF OneDisk
<1>2. CASE Begin
  <2>1. /\ row.gen \in Gens /\ ~intents[row.gen].born /\ row.status = "creating" /\ row' = row
        /\ objs' = objs /\ \A h \in Gens \ {row.gen} : intents'[h] = intents[h]
        /\ intents'[row.gen].born /\ intents'[row.gen].sb = row.sb /\ ~intents'[row.gen].retired
        /\ builder.gen # NoGen /\ builder.at = 0
    BY <1>2, <1>b DEF Begun, Gens, NoGen
  <2>2. /\ \A g \in Gens : ~Live(g) /\ (g # row.gen => ~Live(g)')
        /\ Disks' = Disks
    BY <1>i, <2>1 DEF ClaimsInOrder, Live, Disks
  <2>3. \A o \in Disks : o.sb = row.sb /\ \E h \in Gens :
            intents[h].retired /\ intents[h].sb = row.sb /\ o.gen = intents[h].uid["workspace"]
    BY <1>i, <2>1, <2>2 DEF OneDisk
  <2>4. CASE builder.resume
    <3>1. /\ row.gen - 1 \in Gens /\ intents[row.gen - 1].retired /\ intents[row.gen - 1].sb = row.sb
          /\ intents'[row.gen].from = row.gen - 1 /\ intents[row.gen - 1].born
          /\ intents'[row.gen].uid["workspace"] = intents[row.gen - 1].uid["workspace"]
      BY <1>2, <1>b, <1>i, <1>k, <2>4 DEF Begun, ClaimsInOrder
    <3>2. \A h \in Gens : intents[h].retired /\ intents[h].sb = row.sb =>
            intents[h].uid["workspace"] = intents[row.gen - 1].uid["workspace"]
      BY <1>i, <3>1 DEF OneDisk, ClaimsInOrder
    <3>3. DiskOf(row.gen)' = intents[row.gen - 1].uid["workspace"]
      BY <2>1, <3>1 DEF DiskOf, Resumed, Gens, NoGen
    <3>4. (\A g \in Gens : Live(g) => \A o \in Disks : o.sb = intents[g].sb /\ o.gen = DiskOf(g))'
      <4>1. \A o \in Disks : o.sb = row.sb /\ o.gen = intents[row.gen - 1].uid["workspace"]
        BY <2>3, <3>2
      <4>2. ASSUME NEW g \in Gens, Live(g)' PROVE g = row.gen /\ DiskOf(g)' = intents[row.gen - 1].uid["workspace"]
        BY <2>1, <2>2, <3>3, <4>2
      <4>3. QED
        BY <2>1, <2>2, <4>1, <4>2
    <3>5. (\A g, h \in Gens :
            intents[g].retired /\ intents[h].born /\ intents[g].sb = row.sb /\ intents[h].sb = row.sb
            => intents[h].uid["workspace"] = intents[g].uid["workspace"] /\ intents[g].uid["workspace"] # NoUid)'
      <4> SUFFICES ASSUME NEW g \in Gens, NEW h \in Gens, intents'[g].retired, intents'[h].born,
                          intents'[g].sb = row.sb, intents'[h].sb = row.sb
                   PROVE  /\ intents'[h].uid["workspace"] = intents'[g].uid["workspace"]
                          /\ intents'[g].uid["workspace"] # NoUid
        BY <2>1
      <4>1. g # row.gen /\ intents'[g] = intents[g]
        BY <2>1
      <4>2. CASE h = row.gen
        BY <1>i, <3>1, <4>1, <4>2 DEF OneDisk, ClaimsInOrder
      <4>3. CASE h # row.gen
        BY <1>i, <2>1, <4>1, <4>3 DEF OneDisk
      <4>4. QED
        BY <4>2, <4>3
    <3>6. Live(row.gen)'
      BY <2>1 DEF Live
    <3>7. QED
      BY <2>1, <3>4, <3>5, <3>6 DEF OneDisk
  <2>5. CASE ~builder.resume
    <3>1. \A g \in Gens : intents[g].born => intents[g].sb # row.sb
      BY <1>i, <2>1, <2>5 DEF SandboxesInOrder
    <3>2. \A g \in Gens : intents[g].retired => intents[g].born
      BY <1>i DEF ClaimsInOrder
    <3>3. Disks = {}
      BY <2>3, <3>1, <3>2
    <3>4. \A g \in Gens : intents'[g].retired => intents'[g].sb # row.sb
      BY <2>1, <3>1, <3>2
    <3>5. Live(row.gen)'
      BY <2>1 DEF Live
    <3>6. QED
      BY <2>1, <2>2, <3>3, <3>4, <3>5 DEF OneDisk
  <2>6. QED
    BY <2>4, <2>5
<1>3. CASE Publish(Members)
  <2>1. /\ row.gen \in Gens /\ Live(row.gen) /\ row.status = "creating" /\ UNCHANGED <<row, objs, works>>
        /\ \A h \in Gens \ {row.gen} : intents'[h] = intents[h]
        /\ intents'[row.gen].born = intents[row.gen].born
        /\ intents'[row.gen].sb = intents[row.gen].sb
        /\ intents'[row.gen].from = intents[row.gen].from
        /\ intents'[row.gen].retired = intents[row.gen].retired
    BY <1>3, <1>p DEF Published
  <2>2. intents'[row.gen].uid["workspace"] # intents[row.gen].uid["workspace"] => ~Resumed(row.gen)
    <3>1. intents[row.gen].uid \in Uids
      BY <1>u, <2>1 DEF Intents
    <3>2. QED
      BY <1>3, <1>p, <1>k, <3>1 DEF Published, Uids, Inherits
  <2>3. CASE intents'[row.gen].uid["workspace"] = intents[row.gen].uid["workspace"]
    <3>1. Disks' = Disks
      BY <2>1 DEF Disks
    <3>2. QED
      BY <1>1, <2>1, <2>3, <3>1
  <2>4. CASE ~Resumed(row.gen)
    <3>1. \A g \in Gens : intents[g].retired => intents[g].sb # intents[row.gen].sb
      BY <1>i, <2>1, <2>4 DEF SandboxesInOrder
    <3>2. intents[row.gen].sb = row.sb
      BY <1>i, <2>1 DEF SandboxesInOrder, Live
    <3>3. \A g \in Gens : intents'[g].retired => intents'[g].sb # row.sb
      BY <2>1, <3>1, <3>2
    <3>4. Disks' = Disks /\ DiskOf(row.gen)' = DiskOf(row.gen) /\ Live(row.gen)'
      BY <2>1, <2>4 DEF Disks, DiskOf, Resumed, Live
    <3>5. \A g \in Gens : Live(g)' => g = row.gen
      BY <1>i, <2>1 DEF ClaimsInOrder, Live
    <3>6. (\A g \in Gens : Live(g) => \A o \in Disks : o.sb = intents[g].sb /\ o.gen = DiskOf(g))'
      <4>1. \A o \in Disks : o.sb = intents[row.gen].sb /\ o.gen = DiskOf(row.gen)
        BY <1>i, <2>1 DEF OneDisk
      <4>2. ASSUME NEW g \in Gens, Live(g)' PROVE g = row.gen /\ DiskOf(g)' = DiskOf(row.gen)
        <5>1. g = row.gen
          BY <3>5, <4>2
        <5>2. DiskOf(g)' = DiskOf(g)
          BY <2>1, <2>4, <5>1 DEF DiskOf, Resumed
        <5>3. QED
          BY <5>1, <5>2
      <4>3. QED
        BY <2>1, <3>4, <4>1, <4>2
    <3>7. QED
      BY <2>1, <3>3, <3>4, <3>6 DEF OneDisk
  <2>5. QED
    BY <2>2, <2>3, <2>4
\* A call that creates a disk does it for a live generation with none inherited.
<1>4. ASSUME NEW c, c \in writes \cup wire, UNCHANGED <<row, intents, works>>,
             objs' = objs \/ (c.m \in Objects /\ objs' = objs \cup {Object(c.m, c.gen)})
      PROVE  OneDisk'
  <2>1. c.gen \in Gens /\ Live(c.gen) /\ intents[c.gen].disp[c.m] = "inflight"
    BY <1>i, <1>4 DEF TypeOK, Writes, CallsSound
  <2>2. CASE objs' = objs \/ c.m # "workspace"
    <3>1. Disks' \subseteq Disks
      BY <1>4, <2>2 DEF Disks, Object
    <3>2. QED
      BY <1>1, <1>4, <3>1
  <2>3. CASE c.m = "workspace" /\ objs' = objs \cup {Object(c.m, c.gen)}
    <3>1. ~Resumed(c.gen)
      BY <1>i, <1>k, <2>1, <2>3 DEF LedgerSound
    <3> PICK x : x = Object(c.m, c.gen)
      OBVIOUS
    <3>2. x.gen = DiskOf(c.gen) /\ x.sb = intents[c.gen].sb
      BY <3>1 DEF Object, DiskOf
    <3>3. \A o \in Disks' : o \in Disks \/ o = x
      BY <2>3 DEF Disks
    <3>4. \A g \in Gens : Live(g) => g = c.gen
      BY <1>i, <2>1 DEF ClaimsInOrder
    <3>5. \A g \in Gens : (Live(g)' <=> Live(g)) /\ DiskOf(g)' = DiskOf(g)
      BY <1>4 DEF Live, DiskOf, Resumed
    <3>6. (\A g \in Gens : Live(g) => \A o \in Disks : o.sb = intents[g].sb /\ o.gen = DiskOf(g))'
      <4>1. \A g \in Gens : Live(g) => \A o \in Disks : o.sb = intents[g].sb /\ o.gen = DiskOf(g)
        BY <1>i DEF OneDisk
      <4>2. QED
        BY <1>4, <3>2, <3>3, <3>4, <3>5, <4>1
    <3>7. QED
      BY <1>i, <1>4, <2>1, <3>5, <3>6 DEF OneDisk
  <2>4. QED
    BY <1>4, <2>2, <2>3
<1>5. CASE \E t \in writes : Perform(t)
  BY <1>4, <1>5, PerformFacts
<1>6. CASE \E c \in wire : PerformLate(c)
  BY <1>4, <1>6, CreatedFacts DEF PerformLate
<1>7. CASE \E t \in writes : Settle(t)
  <2>1. objs' = objs /\ UNCHANGED <<row, works>> /\ \A g \in Gens :
            /\ intents'[g].born = intents[g].born /\ intents'[g].sb = intents[g].sb
            /\ intents'[g].from = intents[g].from /\ intents'[g].retired = intents[g].retired
            /\ intents'[g].uid = intents[g].uid
    BY <1>7, <1>i, <1>u DEF Settle, Intents, TypeOK
  <2>2. QED
    BY <1>1, <2>1 DEF Disks
<1>8. CASE Validate
  <2>1. objs' = objs /\ UNCHANGED <<row, works>> /\ \A g \in Gens :
            /\ intents'[g].born = intents[g].born /\ intents'[g].sb = intents[g].sb
            /\ intents'[g].from = intents[g].from /\ intents'[g].retired = intents[g].retired
            /\ intents'[g].uid = intents[g].uid
    BY <1>8, <1>i, <1>u DEF Validate, Intents, TypeOK
  <2>2. QED
    BY <1>1, <2>1 DEF Disks
<1>9. CASE \E w \in works : Capture(w)
  <2> PICK w \in works : Capture(w)
    BY <1>9
  <2>1. objs' = objs /\ UNCHANGED row /\ \A g \in Gens :
            /\ intents'[g].born = intents[g].born /\ intents'[g].sb = intents[g].sb
            /\ intents'[g].from = intents[g].from /\ intents'[g].retired = intents[g].retired
            /\ intents'[g].uid = intents[g].uid
    BY <1>i, <1>u DEF Capture, Fenced, Intents, TypeOK
  <2>2. w.gen # NoGen /\ works' = (works \ {w}) \cup {Captured(w)}
    BY DEF Capture, Claims
  <2>3. QED
    BY <1>1, <2>1, <2>2 DEF Disks
<1>10. CASE Provision \/ Idle \/ Ready \/ BuildFails \/ Reap
  <2>1. row'.status # "recovering" /\ row.status # "recovering" /\ row'.sb = row.sb
        /\ UNCHANGED <<intents, objs>>
    <3>1. CASE Provision
      BY <3>1, <1>i DEF Provision, Claimed, TypeOK, Rows
    <3>2. CASE Idle
      BY <3>2, <1>i DEF Idle, TypeOK, Rows
    <3>3. CASE Ready
      BY <3>3, <1>i DEF Ready, TypeOK, Rows
    <3>4. CASE BuildFails
      BY <3>4, <1>i DEF BuildFails, OwnsClaim, TypeOK, Rows
    <3>5. CASE Reap
      BY <3>5, <1>i DEF Reap, TypeOK, Rows
    <3>6. QED
      BY <1>10, <3>1, <3>2, <3>3, <3>4, <3>5
  <2>2. QED
    BY <1>1, <2>1 DEF Disks
<1>11. CASE Recover
  <2>1. /\ row'.status = "recovering" /\ row'.sb = row.sb + 1 /\ row.sb \in Nat
        /\ UNCHANGED <<intents, objs>> /\ works' = works \cup {Work("recovery", row.sb, Snapshot)}
    BY <1>11, <1>i DEF Recover, TypeOK, Rows
  <2>2. \A g \in Gens : (Live(g)' <=> Live(g)) /\ DiskOf(g)' = DiskOf(g)
    BY <2>1 DEF Live, DiskOf, Resumed
  <2>3. Disks' = Disks /\ \A sb : Lifetime(sb)' = Lifetime(sb)
    BY <2>1 DEF Disks, Lifetime
  <2>4. (\A g \in Gens : Live(g) => \A o \in Disks : o.sb = intents[g].sb /\ o.gen = DiskOf(g))'
    BY <1>i, <2>1, <2>2, <2>3 DEF OneDisk
  <2>5. \A g \in Gens : intents'[g].born => intents'[g].sb # row'.sb
    BY <1>i, <1>u, <2>1 DEF SandboxesInOrder, Intents
  <2>6. \A g \in Gens : intents'[g].retired => intents'[g].born
    BY <1>i, <2>1 DEF ClaimsInOrder
  <2>7. ASSUME \A g \in Gens : ~Live(g), Disks # {}
        PROVE  \E w \in works' : w.gen = NoGen /\ Lifetime(w.sb) # {}
    <3>1. CASE row.status = "recovering"
      BY <1>i, <2>1, <2>7, <3>1 DEF OneDisk
    <3>2. CASE row.status # "recovering"
      <4>1. PICK h \in Gens : intents[h].retired /\ intents[h].sb = row.sb
        BY <1>i, <2>7, <3>2 DEF OneDisk
      <4>2. Lifetime(row.sb) # {}
        BY <1>i, <4>1 DEF Lifetime, ClaimsInOrder
      <4>3. Snapshot = NoGen
        BY <2>7 DEF Snapshot, LiveHere, Lifetime, Live
      <4> PICK x : x = Work("recovery", row.sb, Snapshot)
        OBVIOUS
      <4>4. x.gen = NoGen /\ x.sb = row.sb /\ x \in works'
        BY <2>1, <4>3 DEF Work
      <4>5. QED
        BY <4>2, <4>4
    <3>3. QED
      BY <3>1, <3>2
  <2>8. QED
    BY <2>1, <2>2, <2>3, <2>4, <2>5, <2>6, <2>7 DEF OneDisk
<1>12. CASE \E w \in works : FinishIdle(w)
  <2> PICK w \in works : FinishIdle(w)
    BY <1>12
  <2>1. /\ w.kind = "idle" /\ w.gen # NoGen /\ row.status = "shutting_down"
        /\ intents' = [intents EXCEPT ![w.gen].retired = TRUE] /\ objs' = objs
        /\ row'.sb = row.sb /\ row'.status = "stopped"
    BY <1>i DEF FinishIdle, TornDown, Claims, Retired, TypeOK, Rows
  <2>2. w.gen = row.gen /\ row.gen \in Gens /\ Live(row.gen) /\ intents[row.gen].sb = row.sb
    BY <1>i, <2>1, WorkFacts DEF SandboxesInOrder
  <2>3. /\ \A g \in Gens \ {row.gen} : intents'[g] = intents[g]
        /\ intents'[row.gen].born /\ intents'[row.gen].retired
        /\ \A g \in Gens : intents'[g].uid = intents[g].uid /\ intents'[g].sb = intents[g].sb
                          /\ intents'[g].born = intents[g].born
    BY <1>i, <1>u, <2>1, <2>2 DEF TypeOK, Intents, Live
  <2>4. \A g \in Gens : ~Live(g)' /\ (intents[g].born /\ g # row.gen => intents[g].retired)
    BY <1>i, <2>2, <2>3 DEF ClaimsInOrder, Live
  <2>5. intents[row.gen].uid["workspace"] # NoUid
    BY <1>i, <1>k, <2>1, <2>2 DEF LedgerSound
  <2>6. DiskOf(row.gen) = intents[row.gen].uid["workspace"]
    <3>1. CASE Resumed(row.gen)
      BY <3>1 DEF DiskOf
    <3>2. CASE ~Resumed(row.gen)
      BY <1>i, <1>k, <2>2, <2>5, <3>2 DEF DiskOf, LedgerSound, Inherits
    <3>3. QED
      BY <3>1, <3>2
  <2>7. \A o \in Disks' : o.sb = row.sb /\ o.gen = intents[row.gen].uid["workspace"]
    BY <1>i, <2>1, <2>2, <2>6 DEF OneDisk, Disks
  <2>8. \A h \in Gens : intents[h].born /\ intents[h].sb = row.sb =>
            intents[h].uid["workspace"] = intents[row.gen].uid["workspace"]
    BY <1>i, <2>2, <2>4 DEF OneDisk, Live
  <2>9. \A g \in Gens : intents'[g].retired => intents[g].born
    BY <1>i, <2>2, <2>3 DEF ClaimsInOrder, Live
  <2>10. (\A g, h \in Gens :
            intents[g].retired /\ intents[h].born /\ intents[g].sb = row.sb /\ intents[h].sb = row.sb
            => intents[h].uid["workspace"] = intents[g].uid["workspace"] /\ intents[g].uid["workspace"] # NoUid)'
    BY <2>1, <2>3, <2>5, <2>8, <2>9
  <2>11. \A o \in Disks' : o.sb = row'.sb /\ \E h \in Gens :
            intents'[h].retired /\ intents'[h].sb = row'.sb /\ o.gen = intents'[h].uid["workspace"]
    BY <2>1, <2>2, <2>3, <2>7
  <2>12. QED
    BY <2>1, <2>4, <2>10, <2>11 DEF OneDisk
<1>13. CASE \E w \in works : FinishDisposal(w)
  <2> PICK w \in works : FinishDisposal(w)
    BY <1>13
  <2>1. /\ w.kind = "reap" /\ TornDown(w) /\ row.status = "stopped" /\ row.sb \in Nat
        /\ UNCHANGED <<intents, objs>> /\ row'.sb = row.sb + 1 /\ row'.status = "stopped"
    BY <1>i DEF FinishDisposal, TornDown, Claims, TypeOK, Rows
  <2>2. Disks = {} /\ \A g \in Gens : ~Live(g)
    BY <2>1, DisposalLeaves
  <2>4. \A g \in Gens : ~Live(g)'
    BY <2>1, <2>2 DEF Live
  <2>5. \A g \in Gens : intents[g].born => intents[g].sb # row'.sb
    BY <1>i, <1>u, <2>1 DEF SandboxesInOrder, Intents
  <2>6. \A g \in Gens : intents'[g].retired => intents'[g].sb # row'.sb
    BY <1>i, <2>1, <2>5 DEF ClaimsInOrder
  <2>7. Disks' = {}
    BY <2>1, <2>2 DEF Disks
  <2>8. QED
    BY <2>1, <2>4, <2>6, <2>7 DEF OneDisk
<1>14. CASE FinishRecovery
  <2>1. /\ row.status = "recovering" /\ row'.status = "creating" /\ row'.sb = row.sb /\ objs' = objs
        /\ \A g \in Gens : intents'[g].retired <=> intents[g].born
        /\ \A g \in Gens : intents'[g].born = intents[g].born /\ intents'[g].sb = intents[g].sb
        /\ \A g \in Gens : intents[g].born => intents[g].sb # row.sb
    BY <1>14, <1>r DEF Recovered
  <2>2. Disks = {}
    BY <1>14, RecoveryLeaves
  <2>3. Disks' = {} /\ \A g \in Gens : intents'[g].retired => intents'[g].sb # row'.sb
    BY <2>1, <2>2 DEF Disks
  <2>4. QED
    BY <2>1, <2>3 DEF OneDisk
<1>15. CASE \E w \in works, o \in objs : Delete(w, o)
  BY <1>1, <1>15 DEF Delete, Disks
<1>16. CASE \E w \in works : LoseWork(w)
  BY <1>1, <1>16 DEF LoseWork, Disks
<1>17. CASE \E w \in works : ShutdownAck(w)
  <2>1. UNCHANGED <<row, intents, objs>> /\ row.status # "recovering"
    BY <1>17, <1>w DEF ShutdownAck, WorkOf
  <2>2. QED
    BY <1>1, <2>1 DEF Disks
<1>18. CASE \E w \in works : Seal(w)
  <2>1. PICK w \in works : w.gen # NoGen /\ works \ {w} \subseteq works' /\ UNCHANGED <<row, intents, objs>>
    BY <1>18 DEF Seal, Claims
  <2>2. QED
    BY <1>1, <2>1 DEF Disks
<1>19. CASE UNCHANGED <<row, intents, objs>> /\ works \subseteq works'
  BY <1>1, <1>19 DEF Disks
<1>20. QED
  BY <1>2, <1>3, <1>5, <1>6, <1>7, <1>8, <1>9, <1>10, <1>11, <1>12, <1>13, <1>14, <1>15, <1>16, <1>17, <1>18,
     <1>19, NextCases
  DEF Crash, TimesOut, Reconcile

LEMMA InvStep == IInv /\ [Next]_vars => IInv'
  BY TypeStep, ClaimsStep, SandboxesStep, LedgerStep, WorksStep, CallsStep, ObjectsStep, StorageStep, DiskStep
  DEF IInv

LEMMA Invariance == Spec => []IInv
  BY InitInv, InvStep, PTL DEF Spec

\* The ledger, the works, the calls and the objects are what they are declared to be.
THEOREM PairsTyped == Spec => []TypeOK
<1>1. IInv => TypeOK
  BY DEF IInv
<1>2. QED
  BY <1>1, Invariance, PTL

\* PairRetirementRepository: once a generation is retired none of its create calls
\* is outstanding, and of its objects only what an idle session keeps is left.
THEOREM RetiredStaysQuiet == Spec => []RetiredIsQuiet
<1>1. IInv => RetiredIsQuiet
  BY DEF IInv, RetiredIsQuiet, CallsSound, ObjectsSound, Live
<1>2. QED
  BY <1>1, Invariance, PTL

\* PairTeardown: a session at rest has its disk and its egress state, and no create
\* call ever meets an object of an older generation under the name it needs.
THEOREM TeardownsLeaveRight == Spec => []TeardownLeavesRight
<1>1. ASSUME IInv PROVE RetainedKept
  <2> SUFFICES ASSUME row.status = "stopped", row.pvc = "detached" PROVE \A m \in Retained : Standing(m, Newest(row.sb))
    BY DEF RetainedKept, Retained
  <2>1. TypeOK /\ ClaimsInOrder /\ SandboxesInOrder /\ StorageStands
    BY <1>1 DEF IInv
  <2>2. row.gen \in Gens /\ intents[row.gen].born /\ intents[row.gen].sb = row.sb
    BY <2>1 DEF ClaimsInOrder, SandboxesInOrder
  <2>3. QED
    BY <2>1, <2>2, NewestIsLatest DEF StorageStands
<1>2. ASSUME IInv PROVE NothingCollides
  <2> SUFFICES ASSUME NEW c \in writes, ~c.done, NEW o \in Named(c.m, c.gen) PROVE FALSE
    BY DEF NothingCollides
  <2>1. TypeOK /\ ClaimsInOrder /\ SandboxesInOrder /\ LedgerSound /\ CallsSound /\ ObjectsSound
    BY <1>2 DEF IInv
  <2>2. /\ o \in objs /\ o.m = c.m /\ o.sb = intents[c.gen].sb
        /\ o \in [m : Objects, sb : Nat, gen : Gens] /\ c.gen \in Gens
        /\ Live(c.gen) /\ intents[c.gen].disp[c.m] = "inflight"
    BY <2>1 DEF Named, TypeOK, Writes, CallsSound
  <2>3. CASE o.gen = c.gen
    <3>1. o = Object(c.m, c.gen)
      BY <2>2, <2>3 DEF Object
    <3>2. QED
      BY <2>1, <2>2, <3>1 DEF CallsSound
  <2>4. CASE o.gen # c.gen
    <3>1. intents[o.gen].retired /\ o.sb = intents[o.gen].sb /\ o.m \in Kept
      BY <2>1, <2>2, <2>4 DEF ObjectsSound, ClaimsInOrder, Live
    <3>2. Resumed(c.gen)
      BY <2>1, <2>2, <3>1 DEF SandboxesInOrder
    <3>3. QED
      BY <2>1, <2>2, <3>1, <3>2 DEF LedgerSound
  <2>5. QED
    BY <2>3, <2>4
<1>3. IInv => TeardownLeavesRight
  BY <1>1, <1>2 DEF TeardownLeavesRight
<1>4. QED
  BY <1>3, Invariance, PTL

-----------------------------------------------------------------------------
(***************************************************************************)
(* The resources of a session have one tenant at a time: every step of the *)
(* pairs is a step of DiskTenancy, or changes nothing of it.               *)
(***************************************************************************)
Spent == {g \in Gens : intents[g].retired}
Running == {o.gen : o \in {p \in objs : p.m \in Pods}}
DiskGens == {o.gen : o \in {p \in objs : p.m = "workspace"}}

LEMMA TenantFacts ==
    ASSUME ClaimsInOrder
    PROVE  /\ \A g \in Gens : Live(g) => Tenant = g
           /\ (\A g \in Gens : ~Live(g)) => Tenant = IF disposals # {} THEN MaxGen + 1 ELSE NoGen
  BY DEF ClaimsInOrder, Tenant
LEMMA TenantFactsNext ==
    ASSUME ClaimsInOrder'
    PROVE  /\ \A g \in Gens : Live(g)' => Tenant' = g
           /\ (\A g \in Gens : ~Live(g)') => Tenant' = IF disposals' # {} THEN MaxGen + 1 ELSE NoGen
  BY DEF ClaimsInOrder, Tenant

\* Before anything of a disk is deleted, and before a generation retires, its Pods
\* are gone: no Pod is left at all.
LEMMA PodsGone ==
    ASSUME IInv, NEW w \in works, w.gen # NoGen, w.sealed \/ WritersSettled(w) \/ w.kind = "reap",
           \A o \in Targets(w) : o.m \notin Pods
    PROVE  Running = {}
<1>i. TypeOK /\ ClaimsInOrder /\ LedgerSound /\ WorksSound /\ ObjectsSound
  BY DEF IInv
<1> SUFFICES ASSUME NEW o \in objs, o.m \in Pods PROVE FALSE
  BY DEF Running
<1>1. o.gen \in Gens /\ Live(o.gen) /\ o.m \in Objects /\ o.m \notin Kept
  BY <1>i, MemberFacts DEF ObjectsSound, TypeOK, Live
<1>2. w.kind # "reap" /\ o.gen = w.gen /\ w.sb = intents[w.gen].sb /\ WritersSettled(w) /\ w.gen \in Gens
  BY <1>i, <1>1, WorkFacts DEF ClaimsInOrder
<1>3. ~Inherits(w.gen, o.m) /\ intents[w.gen].disp[o.m] # "unissued" /\ o.sb = w.sb
  BY <1>i, <1>1, <1>2 DEF ObjectsSound
<1>4. w.uid[o.m] # NoUid /\ w.uid[o.m] \in {NoUid, w.gen, intents[w.gen].uid[o.m]}
  BY <1>i, <1>1, <1>2, <1>3 DEF WritersSettled, WorksSound
<1>5. intents[w.gen].uid[o.m] \in {NoUid, w.gen}
  BY <1>i, <1>1, <1>2, <1>3 DEF LedgerSound
<1>6. o \in Targets(w)
  BY <1>1, <1>2, <1>3, <1>4, <1>5, MemberFacts DEF Targets, IsTarget, Keeps
<1>7. QED
  BY <1>6

LEMMA TenancyStep ==
    ASSUME IInv, ClaimsInOrder', [Next]_vars
    PROVE  [Tenancy!Next]_(Tenancy!tenancy)
<1>i. TypeOK /\ ClaimsInOrder /\ LedgerSound /\ WorksSound /\ CallsSound /\ ObjectsSound /\ OneDisk
  BY DEF IInv
<1>r. FinishRecovery => Recovered
  BY RecoveryFacts
<1>b. Begin => Begun
  BY BeginFacts
<1>p. Publish(Members) => Published
  BY PublishFacts
<1>u. \A g \in Gens : intents[g] \in Intents
  BY <1>i DEF TypeOK
<1>f. /\ \A g \in Gens : Live(g) => Tenant = g
      /\ (\A g \in Gens : ~Live(g)) => Tenant = IF disposals # {} THEN MaxGen + 1 ELSE NoGen
      /\ \A g \in Gens : Live(g)' => Tenant' = g
      /\ (\A g \in Gens : ~Live(g)') => Tenant' = IF disposals' # {} THEN MaxGen + 1 ELSE NoGen
  BY <1>i, TenantFacts, TenantFactsNext
<1>o. objs' = objs => Running' = Running /\ DiskGens' = DiskGens
  BY DEF Running, DiskGens
<1>g. \A g \in Gens : g # NoGen /\ g # MaxGen + 1
  BY BoundAssumption DEF Gens, NoGen
<1> USE DEF ledger, cluster, calls
\* The abstract steps, in the words of this module.
<1>a. /\ (UNCHANGED <<Tenant, Spent, Running, DiskGens>>) => [Tenancy!Next]_(Tenancy!tenancy)
      /\ (\E t \in Gens \ Spent : Tenant = NoGen /\ Tenant' = t /\ UNCHANGED <<Spent, Running, DiskGens>>)
            => Tenancy!Next
      /\ (\E t \in Gens : Tenant = t /\ Running' = Running \cup {t} /\ UNCHANGED <<Tenant, Spent, DiskGens>>)
            => Tenancy!Next
      /\ (\E t \in Gens : Running' = Running \ {t} /\ UNCHANGED <<Tenant, Spent, DiskGens>>)
            => Tenancy!Next
      /\ (\E t \in Gens : Tenant = t /\ DiskGens = {} /\ DiskGens' = {t} /\ UNCHANGED <<Tenant, Spent, Running>>)
            => Tenancy!Next
      /\ (\E d \in Gens : /\ Tenant # NoGen /\ Running = {} /\ d \in DiskGens /\ DiskGens' = DiskGens \ {d}
                          /\ UNCHANGED <<Tenant, Spent, Running>>) => Tenancy!Next
      /\ (Tenant \in Gens /\ Running = {} /\ Tenant' = NoGen /\ Spent' = Spent \cup {Tenant}
            /\ UNCHANGED <<Running, DiskGens>>) => Tenancy!Next
      /\ (Tenant = NoGen /\ Tenant' = MaxGen + 1 /\ UNCHANGED <<Spent, Running, DiskGens>>) => Tenancy!Next
      /\ (Tenant = MaxGen + 1 /\ DiskGens = {} /\ Tenant' = NoGen /\ UNCHANGED <<Spent, Running, DiskGens>>)
            => Tenancy!Next
  BY DEF Tenancy!Next, Tenancy!tenancy, Tenancy!Enter, Tenancy!Run, Tenancy!Stop, Tenancy!Create,
         Tenancy!Destroy, Tenancy!Leave, Tenancy!Condemn, Tenancy!Reaped, Spent, Running, DiskGens
<1>1. ASSUME objs' = objs, disposals' = disposals,
             \A g \in Gens : intents'[g].born = intents[g].born /\ intents'[g].retired = intents[g].retired
      PROVE  [Tenancy!Next]_(Tenancy!tenancy)
  <2>1. Spent' = Spent
    BY <1>1 DEF Spent
  <2>2. \A g \in Gens : Live(g)' <=> Live(g)
    BY <1>1 DEF Live
  <2>3. Tenant' = Tenant
    BY <1>1, <1>f, <2>2
  <2>4. QED
    BY <1>1, <1>a, <1>o, <2>1, <2>3
<1>2. CASE Begin
  <2>1. /\ row.gen \in Gens /\ ~intents[row.gen].born /\ row.status = "creating"
        /\ objs' = objs /\ disposals' = disposals /\ builder.gen # NoGen /\ builder.at = 0
        /\ \A h \in Gens \ {row.gen} : intents'[h] = intents[h]
        /\ intents'[row.gen].born /\ ~intents'[row.gen].retired
    BY <1>2, <1>b, <1>g DEF Begun
  <2>2. ~intents[row.gen].retired /\ \A g \in Gens : ~Live(g)
    BY <1>i, <2>1 DEF ClaimsInOrder, Live
  <2>3. disposals = {}
    BY <1>i, <2>1 DEF WorksSound
  <2>4. Tenant = NoGen /\ Tenant' = row.gen
    BY <1>f, <2>1, <2>2, <2>3 DEF Live
  <2>5. Spent' = Spent /\ row.gen \in Gens \ Spent
    BY <2>1, <2>2 DEF Spent
  <2>6. QED
    BY <1>a, <1>o, <2>1, <2>4, <2>5
<1>3. CASE Publish(Members)
  BY <1>1, <1>3, <1>p DEF Published
<1>4. CASE Validate
  <2>1. \A g \in Gens : intents'[g].born = intents[g].born /\ intents'[g].retired = intents[g].retired
    BY <1>4, <1>i, <1>u DEF Validate, TypeOK, Intents
  <2>2. QED
    BY <1>1, <1>4, <2>1 DEF Validate
<1>5. CASE \E t \in writes : Settle(t)
  <2>1. \A g \in Gens : intents'[g].born = intents[g].born /\ intents'[g].retired = intents[g].retired
    BY <1>5, <1>i, <1>u DEF Settle, TypeOK, Intents
  <2>2. QED
    BY <1>1, <1>5, <2>1 DEF Settle
<1>6. CASE \E w \in works : Capture(w)
  <2>1. \A g \in Gens : intents'[g].born = intents[g].born /\ intents'[g].retired = intents[g].retired
    BY <1>6, <1>i, <1>u DEF Capture, Fenced, TypeOK, Intents
  <2>2. QED
    BY <1>1, <1>6, <2>1 DEF Capture
\* A performed call is the tenant's own.
<1>7. ASSUME NEW c, c \in writes \cup wire, c.m \in Objects, Named(c.m, c.gen) = {},
             UNCHANGED <<row, intents, disposals>>, objs' = objs \cup {Object(c.m, c.gen)}
      PROVE  [Tenancy!Next]_(Tenancy!tenancy)
  <2>1. c.gen \in Gens /\ Live(c.gen)
    BY <1>i, <1>7 DEF TypeOK, Writes, CallsSound
  <2>2. Spent' = Spent /\ \A g \in Gens : Live(g)' <=> Live(g)
    BY <1>7 DEF Spent, Live
  <2>3. Tenant = c.gen /\ Tenant' = c.gen
    BY <1>f, <2>1, <2>2
  <2> PICK x : x = Object(c.m, c.gen)
    OBVIOUS
  <2>4. x.m = c.m /\ x.gen = c.gen /\ objs' = objs \cup {x}
    BY <1>7 DEF Object
  <2>5. CASE c.m \in Pods
    <3>1. Running' = Running \cup {c.gen}
      BY <2>4, <2>5 DEF Running
    <3>2. DiskGens' = DiskGens
      BY <2>4, <2>5, MemberFacts DEF DiskGens
    <3>3. QED
      BY <1>a, <2>1, <2>2, <2>3, <3>1, <3>2
  <2>6. CASE c.m = "workspace"
    <3>1. Disks = {}
      <4>1. \A o \in Disks : o.sb = intents[c.gen].sb
        BY <1>i, <2>1 DEF OneDisk
      <4>2. \A o \in Disks : o \in Named(c.m, c.gen)
        BY <2>6, <4>1 DEF Named, Disks, OwnNamed
      <4>3. QED
        BY <1>7, <4>2
    <3>2. DiskGens = {} /\ DiskGens' = {c.gen}
      BY <2>4, <2>6, <3>1 DEF DiskGens, Disks
    <3>3. Running' = Running
      BY <2>4, <2>6, MemberFacts DEF Running
    <3>4. QED
      BY <1>a, <2>1, <2>2, <2>3, <3>2, <3>3
  <2>7. CASE c.m \notin Pods /\ c.m # "workspace"
    <3>1. Running' = Running /\ DiskGens' = DiskGens
      BY <2>4, <2>7 DEF Running, DiskGens
    <3>2. QED
      BY <1>a, <2>2, <2>3, <3>1
  <2>8. QED
    BY <2>5, <2>6, <2>7
<1>8. CASE \E t \in writes : Perform(t)
  <2> PICK t \in writes : Perform(t)
    BY <1>8
  <2>1. CASE objs' = objs
    BY <1>1, <2>1, PerformFacts
  <2>2. CASE t.m \in Objects /\ Named(t.m, t.gen) = {} /\ objs' = objs \cup {Object(t.m, t.gen)}
    BY <1>7, <2>2, PerformFacts
  <2>3. QED
    BY <2>1, <2>2, PerformFacts
<1>9. CASE \E c \in wire : PerformLate(c)
  <2> PICK c \in wire : PerformLate(c)
    BY <1>9
  <2>1. CASE objs' = objs
    BY <1>1, <2>1 DEF PerformLate
  <2>2. CASE c.m \in Objects /\ Named(c.m, c.gen) = {} /\ objs' = objs \cup {Object(c.m, c.gen)}
    BY <1>7, <2>2 DEF PerformLate
  <2>3. QED
    BY <2>1, <2>2, CreatedFacts DEF PerformLate
<1>10. CASE Reap
  <2>1. /\ row.status = "stopped" /\ row.pvc = "detached" /\ UNCHANGED <<intents, objs>>
        /\ disposals' # {}
    BY <1>10 DEF Reap
  <2>2. disposals = {} /\ \A g \in Gens : ~Live(g) /\ ~Live(g)'
    BY <1>i, <2>1 DEF ClaimsInOrder, WorksSound, Live
  <2>3. Tenant = NoGen /\ Tenant' = MaxGen + 1 /\ Spent' = Spent
    BY <1>f, <2>1, <2>2 DEF Spent
  <2>4. QED
    BY <1>a, <1>o, <2>1, <2>3
<1>11. CASE \E w \in works : FinishIdle(w)
  <2> PICK w \in works : FinishIdle(w)
    BY <1>11
  <2>1. /\ w.kind = "idle" /\ w.gen # NoGen /\ row.status = "shutting_down"
        /\ intents' = [intents EXCEPT ![w.gen].retired = TRUE] /\ UNCHANGED <<objs, disposals>>
        /\ WritersSettled(w) /\ Targets(w) = {}
    BY DEF FinishIdle, TornDown, Claims, Retired
  <2>2. w.gen \in Gens /\ Live(w.gen) /\ w.gen = row.gen
    BY <2>1, WorkFacts
  <2>3. Running = {}
    BY <2>1, PodsGone
  <2>4. \A g \in Gens : /\ intents'[g].born = intents[g].born
                        /\ intents'[g].retired <=> (intents[g].retired \/ g = w.gen)
    BY <1>i, <1>u, <2>1, <2>2 DEF TypeOK, Intents
  <2>5. \A g \in Gens : ~Live(g)'
    BY <1>i, <2>2, <2>4 DEF ClaimsInOrder, Live
  <2>6. disposals' = {}
    BY <1>i, <2>1 DEF WorksSound
  <2>7. Tenant = w.gen /\ Tenant' = NoGen /\ Spent' = Spent \cup {w.gen}
    BY <1>f, <2>2, <2>4, <2>5, <2>6 DEF Spent
  <2>8. QED
    BY <1>a, <1>o, <2>1, <2>2, <2>3, <2>7
<1>12. CASE FinishRecovery
  <2>1. /\ row.status = "recovering" /\ UNCHANGED <<objs, disposals>>
        /\ \A g \in Gens : intents'[g].born = intents[g].born /\ (intents'[g].retired <=> intents[g].born)
    BY <1>12, <1>r DEF Recovered
  <2>2. Running = {} /\ disposals = {}
    BY <1>12, <1>i, <2>1, RecoveryLeaves, MemberFacts DEF Running, WorksSound
  <2>3. \A g \in Gens : ~Live(g)'
    BY <2>1 DEF Live
  <2>4. Tenant' = NoGen
    BY <1>f, <2>1, <2>2, <2>3
  <2>5. \A g \in Gens : intents[g].retired => intents[g].born
    BY <1>i DEF ClaimsInOrder
  <2>6. CASE \E g \in Gens : Live(g)
    <3>1. PICK g \in Gens : Live(g)
      BY <2>6
    <3>2. \A h \in Gens : intents[h].born <=> intents[h].retired \/ h = g
      BY <1>i, <2>5, <3>1 DEF ClaimsInOrder, Live
    <3>3. Tenant = g /\ Spent' = Spent \cup {g}
      BY <1>f, <2>1, <3>1, <3>2 DEF Spent
    <3>4. QED
      BY <1>a, <1>o, <2>1, <2>2, <2>4, <3>3
  <2>7. CASE \A g \in Gens : ~Live(g)
    <3>1. Tenant = NoGen /\ Spent' = Spent
      BY <1>f, <2>1, <2>2, <2>5, <2>7 DEF Spent, Live
    <3>2. QED
      BY <1>a, <1>o, <2>1, <2>4, <3>1
  <2>8. QED
    BY <2>6, <2>7
<1>13. CASE \E w \in works : FinishDisposal(w)
  <2> PICK w \in works : FinishDisposal(w)
    BY <1>13
  <2>1. /\ w.kind = "reap" /\ TornDown(w) /\ disposals # {} /\ disposals' = {} /\ UNCHANGED <<intents, objs>>
    BY DEF FinishDisposal
  <2>2. Disks = {} /\ \A g \in Gens : ~Live(g) /\ ~Live(g)'
    BY <2>1, DisposalLeaves DEF Live
  <2>3. Tenant = MaxGen + 1 /\ Tenant' = NoGen /\ Spent' = Spent /\ DiskGens = {}
    BY <1>f, <2>1, <2>2 DEF Spent, DiskGens, Disks
  <2>4. QED
    BY <1>a, <1>o, <2>1, <2>3
<1>14. CASE \E w \in works, o \in objs : Delete(w, o)
  <2> PICK w \in works, o \in objs : Delete(w, o)
    BY <1>14
  <2>1. /\ UNCHANGED <<intents, disposals, row>> /\ objs' = objs \ {o} /\ w.gen # NoGen
        /\ (w.sealed \/ w.kind = "reap") /\ Gone(w, Rank(o))
    BY DEF Delete, Claims
  <2>2. Spent' = Spent /\ \A g \in Gens : Live(g)' <=> Live(g)
    BY <2>1 DEF Spent, Live
  <2>3. Tenant' = Tenant
    BY <1>f, <2>1, <2>2
  <2>4. /\ o \in [m : Objects, sb : Nat, gen : Gens] /\ o.sb = intents[o.gen].sb
        /\ \A p \in objs : p \in [m : Objects, sb : Nat, gen : Gens] /\ p.sb = intents[p.gen].sb
    BY <1>i DEF TypeOK, ObjectsSound
  <2>5. CASE o.m \in Pods
    <3>1. DiskGens' = DiskGens
      BY <2>1, <2>5, MemberFacts DEF DiskGens
    <3>2. Running' = Running \/ Running' = Running \ {o.gen}
      BY <2>1, <2>5 DEF Running
    <3>3. QED
      BY <1>a, <2>2, <2>3, <2>4, <3>1, <3>2
  <2>6. CASE o.m = "workspace"
    <3>1. Running' = Running
      BY <2>1, <2>6, MemberFacts DEF Running
    <3>2. o.gen \in DiskGens /\ DiskGens' = DiskGens \ {o.gen}
      <4>1. \A p \in objs : p.m = "workspace" /\ p.gen = o.gen => p = o
        BY <2>4, <2>6
      <4>2. QED
        BY <2>1, <2>6, <4>1 DEF DiskGens
    <3>3. Running = {}
      <4>1. Rank(o) = 3
        BY <2>6, MemberFacts DEF Rank, Volumes
      <4>2. \A p \in Targets(w) : p.m \notin Pods
        BY <2>1, <4>1 DEF Gone, Rank
      <4>3. QED
        BY <2>1, <4>2, PodsGone
    <3>4. Tenant # NoGen
      <4>1. CASE w.kind = "reap"
        <5>1. disposals # {} /\ \A g \in Gens : ~Live(g)
          BY <1>i, <2>1, <4>1, WorkFacts DEF WorksSound, WorkOf
        <5>2. QED
          BY <1>f, <5>1, BoundAssumption DEF NoGen
      <4>2. CASE w.kind # "reap"
        BY <1>f, <1>g, <2>1, <4>2, WorkFacts
      <4>3. QED
        BY <4>1, <4>2
    <3>5. QED
      BY <1>a, <2>2, <2>3, <2>4, <3>1, <3>2, <3>3, <3>4
  <2>7. CASE o.m \notin Pods /\ o.m # "workspace"
    <3>1. Running' = Running /\ DiskGens' = DiskGens
      BY <2>1, <2>7 DEF Running, DiskGens
    <3>2. QED
      BY <1>a, <2>2, <2>3, <3>1
  <2>8. QED
    BY <2>5, <2>6, <2>7
<1>15. CASE UNCHANGED <<intents, disposals, objs>>
  BY <1>1, <1>15
<1>16. QED
  BY <1>2, <1>3, <1>4, <1>5, <1>6, <1>8, <1>9, <1>10, <1>11, <1>12, <1>13, <1>14, <1>15, NextCases
  DEF Provision, Ready, BuildFails, Crash, TimesOut, Idle, Recover, Reconcile, ShutdownAck, Seal, LoseWork

\* What PairLifetime promises about storage: DiskTenancy, for any number of claims.
THEOREM StorageHasOneTenant == Spec => OneTenant
<1>1. Init => Tenancy!Init
  <2>1. ASSUME Init PROVE \A g \in Gens : intents[g] = NoIntent
    BY <2>1 DEF Init
  <2>2. QED
    BY <2>1 DEF Init, Tenancy!Init, Tenant, Live, NoIntent
<1>2. IInv /\ IInv' /\ [Next]_vars => [Tenancy!Next]_(Tenancy!tenancy)
  BY TenancyStep DEF IInv
<1>3. QED
  BY <1>1, <1>2, Invariance, PTL DEF Spec, OneTenant, Tenancy!Spec
=============================================================================
