--------------------------- MODULE EgressDelivery ---------------------------
(***************************************************************************)
(* Delivery of a project's egress settings to one sandbox: ads publishes   *)
(* revisions, ads-sandbox-ipc (EgressDelivery, RevisionFloor) applies them *)
(* to its paired ads-sandbox-egress process (PolicyStore) over HTTPS.      *)
(*                                                                         *)
(* Deliveries hold EgressDelivery._lock; health checks do not, and may     *)
(* observe a new egress process in the middle of a delivery.  Each await   *)
(* is a step boundary.  Snapshots are identified by their revision.        *)
(***************************************************************************)
EXTENDS Integers, FiniteSets, SequencesExt

CONSTANTS
    MaxRev,      \* bound on published revisions
    MaxInst,     \* bound on egress processes
    MaxRestarts, \* bound on restarts of the IPC process
    Checks,      \* health checks that may be in progress together
    Faults       \* whether persistence, requests and answers may fail

VARIABLES
    saved,      \* the newest revision ads has persisted
    inbox,      \* config-update records the IPC consumer has not handled
    inst,       \* PolicyStore.instance_id of the egress process that runs
    policy,     \* revision each egress process enforces; 0 is deny-all
    disk,       \* revision.json on the IPC volume
    floor, snapshot, instance, installed, failed, stopped, \* EgressDelivery; 0 is None
    reapply,    \* _reapply: "none" (or done), "waiting" for the lock, "running"
    holder,     \* who holds _lock: "none", "receive", "reapply"
    pc, attempt, expected, observed, answer, \* _apply: place, attempt, locals, response
    checks,     \* health checks in progress, in the order of their sequence numbers
    late,       \* those of them whose number is below _observed_sequence
    ping,       \* what the egress process answered to each; 0 is nothing yet
    sent,       \* history: the newest revision ever sent to an egress process
    restarts

ads == <<saved, inbox>>
egress == <<inst, policy>>
delivery == <<floor, snapshot, instance, installed, failed, stopped>>
applying == <<holder, pc, attempt, expected, observed, answer>>
health == <<checks, late, ping>>
vars == <<ads, egress, disk, delivery, reapply, applying, health, sent, restarts>>

Answers == [kind : {"none", "applied", "stale", "lost"}, inst : 0..MaxInst, rev : 0..MaxRev]
NoAnswer == [kind |-> "none", inst |-> 0, rev |-> 0]

Init ==
    /\ saved = 0 /\ inbox = {}
    /\ inst = 1 /\ policy = [i \in 1..MaxInst |-> 0]
    /\ disk = 0 /\ floor = 0 /\ snapshot = 0 /\ instance = 0 /\ installed = 0
    /\ failed = FALSE /\ stopped = FALSE
    /\ reapply = "none" /\ holder = "none"
    /\ pc = "free" /\ attempt = 0 /\ expected = 0 /\ observed = 0 /\ answer = NoAnswer
    /\ checks = <<>> /\ late = {} /\ ping = [c \in Checks |-> 0]
    /\ sent = 0 /\ restarts = 0

Live == ~stopped /\ ~failed

-----------------------------------------------------------------------------
\* A settings change is persisted and published; a config-request publishes the
\* persisted revision again.
Publish ==
    /\ \/ saved < MaxRev /\ saved' = saved + 1
       \/ saved > 0 /\ UNCHANGED saved
    /\ inbox' = inbox \cup {saved'}
    /\ UNCHANGED <<egress, disk, delivery, reapply, applying, health, sent, restarts>>

\* The egress process is replaced: a new UUID, unconfigured.
EgressRestart ==
    /\ inst < MaxInst
    /\ inst' = inst + 1
    /\ answer' = IF pc = "wait" THEN [answer EXCEPT !.kind = "lost"] ELSE answer
    /\ UNCHANGED <<ads, policy, disk, delivery, reapply, holder, pc, attempt, expected, observed,
                   health, sent, restarts>>

-----------------------------------------------------------------------------
(***************************************************************************)
(* receive and _apply, under the lock.                                     *)
(***************************************************************************)

Acceptable(r) == r >= floor

\* Mutant: the floor is only kept in memory.
AdvanceInMemory(r) == UNCHANGED disk

\* RevisionFloor.advance writes the record before anything is applied.
Advance(r) == disk' = r

Ignore(r) ==
    /\ holder = "none" /\ r \in inbox
    /\ ~Live \/ ~Acceptable(r)
    /\ inbox' = inbox \ {r}
    /\ UNCHANGED <<saved, egress, disk, delivery, reapply, applying, health, sent, restarts>>

Receive(r) ==
    /\ holder = "none" /\ r \in inbox
    /\ Live /\ Acceptable(r)
    /\ inbox' = inbox \ {r}
    /\ \/ /\ Advance(r)
          /\ floor' = r /\ snapshot' = r
          /\ holder' = "receive" /\ pc' = "ping" /\ attempt' = 1
          /\ UNCHANGED failed
       \/ /\ Faults /\ r > floor
          /\ failed' = TRUE
          /\ UNCHANGED <<disk, floor, snapshot, holder, pc, attempt>>
    /\ UNCHANGED <<saved, egress, instance, installed, stopped, reapply, expected, observed, answer,
                   health, sent, restarts>>

\* The process to address: a known one, or the one a first ping finds.
ApplyPing ==
    /\ pc = "ping" /\ Live
    /\ instance' = IF instance = 0 THEN inst ELSE instance
    /\ pc' = "send"
    /\ UNCHANGED <<ads, egress, disk, floor, snapshot, installed, failed, stopped, reapply, holder,
                   attempt, expected, observed, answer, health, sent, restarts>>

\* PolicyStore.install: an older revision is stale, any other is enforced.
Install(r) ==
    IF r < policy[inst]
    THEN /\ answer' = [kind |-> "stale", inst |-> inst, rev |-> r]
         /\ UNCHANGED policy
    ELSE /\ answer' = [kind |-> "applied", inst |-> inst, rev |-> r]
         /\ policy' = [policy EXCEPT ![inst] = r]

\* transport.apply reaches whichever egress process runs now.
ApplySend ==
    /\ pc = "send"
    /\ expected' = instance
    /\ Install(snapshot)
    /\ sent' = IF snapshot > sent THEN snapshot ELSE sent
    /\ pc' = "wait"
    /\ UNCHANGED <<ads, inst, disk, delivery, reapply, holder, attempt, observed, health, restarts>>

\* Mutant: the answer of any process counts.
ExpectedAnyone == TRUE

\* The answer is from the process that was addressed and no other was observed since.
FromExpected == answer.inst = expected /\ instance = expected

\* What follows _apply: receive returns, the background task looks again.
Leave == pc' = IF holder = "reapply" THEN "looked" ELSE "left"

ApplyReturns ==
    /\ pc = "wait" /\ answer.kind \in {"applied", "stale"}
    /\ installed' = IF answer.kind = "applied" /\ FromExpected /\ ~stopped
                    THEN answer.rev ELSE installed
    /\ answer' = NoAnswer
    /\ Leave
    /\ UNCHANGED <<ads, egress, disk, floor, snapshot, instance, failed, stopped, reapply, holder,
                   attempt, expected, observed, health, sent, restarts>>

Exhausted == attempt = 2

\* A ping or an apply raised or timed out: a second attempt, then the latch.
AttemptFails ==
    /\ pc \in {"ping", "send", "wait"}
    /\ Faults \/ answer.kind = "lost"
    /\ answer' = NoAnswer
    /\ \/ /\ ~Exhausted
          /\ pc' = "ping" /\ attempt' = attempt + 1
          /\ UNCHANGED failed
       \/ /\ Exhausted
          /\ failed' = TRUE
          /\ Leave
          /\ UNCHANGED attempt
    /\ UNCHANGED <<ads, egress, disk, floor, snapshot, instance, installed, stopped, reapply, holder,
                   expected, observed, health, sent, restarts>>

\* _apply finds the delivery stopped or failed before an attempt.
ApplyStops ==
    /\ pc = "ping" /\ ~Live
    /\ Leave
    /\ UNCHANGED <<ads, egress, disk, delivery, reapply, holder, attempt, expected, observed, answer,
                   health, sent, restarts>>

ReceiveReturns ==
    /\ pc = "left"
    /\ holder' = "none" /\ pc' = "free" /\ attempt' = 0
    /\ UNCHANGED <<ads, egress, disk, delivery, reapply, expected, observed, answer, health, sent,
                   restarts>>

-----------------------------------------------------------------------------
(***************************************************************************)
(* healthy and _background_apply.                                          *)
(***************************************************************************)
CheckBegin(c) ==
    /\ ~Contains(checks, c) /\ Live
    /\ checks' = Append(checks, c)
    /\ UNCHANGED <<ads, egress, disk, delivery, reapply, applying, late, ping, sent, restarts>>

\* The egress process answers; the relays are still being asked.
CheckPing(c) ==
    /\ Contains(checks, c) /\ ping[c] = 0
    /\ ping' = [ping EXCEPT ![c] = inst]
    /\ UNCHANGED <<ads, egress, disk, delivery, reapply, applying, checks, late, sent, restarts>>

CheckLeaves(c) ==
    /\ checks' = Remove(checks, c)
    /\ ping' = [ping EXCEPT ![c] = 0]

\* Something was not healthy, or a check that began later was observed first.
CheckDiscarded(c) ==
    /\ Contains(checks, c)
    /\ Faults \/ (ping[c] # 0 /\ c \in late)
    /\ CheckLeaves(c)
    /\ late' = late \ {c}
    /\ UNCHANGED <<ads, egress, disk, delivery, reapply, applying, sent, restarts>>

\* The checks that began before c.
Before(c) == {checks[k] : k \in {j \in DOMAIN checks : \E i \in DOMAIN checks : j < i /\ checks[i] = c}}

\* A background delivery is created unless one is already pending.
Reapply == snapshot # 0 /\ reapply = "none"

\* A process not seen before clears the installation evidence.
CheckObserves(c) ==
    /\ ping[c] # 0 /\ c \notin late
    /\ CheckLeaves(c)
    /\ late' = late \cup Before(c)
    /\ IF ping[c] # instance
       THEN /\ instance' = ping[c] /\ installed' = 0
            /\ reapply' = IF Reapply THEN "waiting" ELSE reapply
       ELSE UNCHANGED <<instance, installed, reapply>>
    /\ UNCHANGED <<ads, egress, disk, floor, snapshot, failed, stopped, applying, sent, restarts>>

\* _background_apply has the lock: deliver while nothing is installed,
ReapplyTurn ==
    /\ \/ reapply = "waiting" /\ holder = "none"
       \/ pc = "looked" /\ instance # observed
    /\ IF Live /\ installed = 0
       THEN /\ reapply' = "running" /\ holder' = "reapply"
            /\ pc' = "ping" /\ attempt' = 1 /\ observed' = instance
       ELSE /\ reapply' = "none" /\ holder' = "none" /\ pc' = "free"
            /\ UNCHANGED <<attempt, observed>>
    /\ UNCHANGED <<ads, egress, disk, delivery, expected, answer, health, sent, restarts>>

\* Mutant: an observation during the delivery is lost.
SettledAnyway == TRUE

\* No other process was observed while the delivery was under way.
Settled == instance = observed

\* and end when the process addressed is still the one observed.
ReapplyEnds ==
    /\ pc = "looked" /\ Settled
    /\ reapply' = "none" /\ holder' = "none" /\ pc' = "free" /\ attempt' = 0
    /\ UNCHANGED <<ads, egress, disk, delivery, expected, observed, answer, health, sent, restarts>>

\* close cancels the background delivery, wherever it is.
Close ==
    /\ ~stopped
    /\ stopped' = TRUE
    /\ reapply' = "none"
    /\ IF holder = "reapply"
       THEN holder' = "none" /\ pc' = "free" /\ answer' = NoAnswer
       ELSE UNCHANGED <<holder, pc, answer>>
    /\ UNCHANGED <<ads, egress, disk, floor, snapshot, instance, installed, failed, attempt, expected,
                   observed, health, sent, restarts>>

\* The IPC process is replaced; its consumer seeks to the end of the topic and a
\* config-request follows (Publish).
IpcRestart ==
    /\ restarts < MaxRestarts
    /\ restarts' = restarts + 1
    /\ floor' = disk /\ snapshot' = 0 /\ instance' = 0 /\ installed' = 0
    /\ failed' = FALSE /\ stopped' = FALSE
    /\ reapply' = "none" /\ holder' = "none"
    /\ pc' = "free" /\ attempt' = 0 /\ expected' = 0 /\ observed' = 0 /\ answer' = NoAnswer
    /\ checks' = <<>> /\ late' = {} /\ ping' = [c \in Checks |-> 0]
    /\ inbox' \in SUBSET inbox
    /\ UNCHANGED <<saved, egress, disk, sent>>

-----------------------------------------------------------------------------
ApplyStep ==
    \/ ApplyPing \/ ApplySend \/ ApplyReturns \/ AttemptFails \/ ApplyStops
    \/ ReceiveReturns \/ ReapplyTurn \/ ReapplyEnds

CheckStep(c) == CheckBegin(c) \/ CheckPing(c) \/ CheckDiscarded(c) \/ CheckObserves(c)

Next ==
    \/ Publish \/ EgressRestart \/ Close \/ IpcRestart
    \/ \E r \in 1..MaxRev : Ignore(r) \/ Receive(r)
    \/ ApplyStep
    \/ \E c \in Checks : CheckStep(c)

Spec == Init /\ [][Next]_vars

-----------------------------------------------------------------------------
TypeOK ==
    /\ saved \in 0..MaxRev /\ inbox \subseteq 1..MaxRev
    /\ inst \in 1..MaxInst /\ policy \in [1..MaxInst -> 0..MaxRev]
    /\ disk \in 0..MaxRev /\ floor \in 0..MaxRev /\ snapshot \in 0..MaxRev
    /\ instance \in 0..MaxInst /\ installed \in 0..MaxRev
    /\ failed \in BOOLEAN /\ stopped \in BOOLEAN
    /\ reapply \in {"none", "waiting", "running"} /\ holder \in {"none", "receive", "reapply"}
    /\ pc \in {"free", "ping", "send", "wait", "left", "looked"} /\ attempt \in 0..2
    /\ expected \in 0..MaxInst /\ observed \in 0..MaxInst /\ answer \in Answers
    /\ checks \in Seq(Checks) /\ late \subseteq Checks /\ ping \in [Checks -> 0..MaxInst]
    /\ sent \in 0..MaxRev /\ restarts \in Nat

\* Installation evidence, which opens the sandbox at startup, is about the egress
\* process last observed: that process enforces at least the installed revision.
EvidenceIsTrue == installed # 0 => instance # 0 /\ policy[instance] >= installed

\* Across restarts of either process and however records are repeated or
\* reordered, no egress process is given a revision below one already sent.
NoRegress == \A i \in 1..MaxInst : policy'[i] # policy[i] => policy'[i] >= sent

\* "A further UUID observation ... must not be lost": while settings are known, the
\* running egress process, once observed, either enforces some revision or is going
\* to be given one: a delivery holds the lock or waits for it.
ObservedIsServed ==
    Live /\ snapshot # 0 /\ instance = inst /\ policy[inst] = 0 =>
        reapply # "none" \/ holder # "none"
=============================================================================
