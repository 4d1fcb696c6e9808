---------------------------- MODULE EgressIdentity ----------------------------
(***************************************************************************)
(* The durable identities of one egress Pod: the store of wrapped private  *)
(* keys and of the publications that depend on them, the rotation of ECH   *)
(* keys, the overlap journal of a signed zone, the DNS answers that are    *)
(* synthesised from both.                                                  *)
(*                                                                         *)
(* All of it runs on one event loop: between two awaits nothing but the    *)
(* death of the process comes in between, and every transaction of the     *)
(* store is durable by itself.  task is the operation that runs to its     *)
(* end, one transaction after another.                                     *)
(***************************************************************************)
EXTENDS Integers, FiniteSets, FiniteSetsExt

CONSTANTS Jobs,      \* guest queries in flight
          UpKeys,    \* upstream signing keys of the zone
          MaxKeyGen, \* bound on the generations of a mapped key
          MaxEch,    \* bound on ECH keys
          MaxTime,   \* bound on the wall clock
          MaxCrashes, MaxSeq, MaxAsked

Life == 1       \* the time an answer's longest TTL or signature lasts
Handshake == 1  \* the ECH handshake window

Root == <<"root", 0, 1>>
EchName(k) == <<"ech", k, 1>>
Mapped(u, g) == <<"dnssec", u, g>>
Names == {Root} \cup {EchName(k) : k \in 1..MaxEch} \cup {Mapped(u, g) : u \in UpKeys, g \in 1..MaxKeyGen}

VARIABLES
    keys,   \* stage of every key row; a retired row keeps no private key
    pubs,   \* publications with their dependencies and retention horizon
    up,     \* the key upstream signs the zone with
    ech,    \* the installed ECH context; none while the process is down
    jobs, task, now,
    crashes, asked

store == <<keys, pubs>>
vars == <<store, up, ech, jobs, task, now, crashes, asked>>

NoPlan == [previous |-> 0, current |-> {}, retiring |-> {}, overlap |-> {}, now |-> 0]
NoJob == [deps |-> {}, until |-> 0, plan |-> NoPlan]
NoEch == [names |-> {}, current |-> <<>>]
Idle == [op |-> "none", job |-> 0, todo |-> {}]
Heads(kind) == {p \in pubs : p.kind = kind}
\* IdentityStore.publication_head: the journal's newest record, expired or not.
Head(kind) == CHOOSE p \in Heads(kind) : \A q \in Heads(kind) : q.seq <= p.seq
Seq(kind) == IF Heads(kind) = {} THEN 0 ELSE Head(kind).seq

Init ==
    /\ keys = [n \in Names |-> "absent"]
    /\ pubs = {}
    /\ up = Min(UpKeys)
    /\ ech = NoEch /\ jobs = [j \in Jobs |-> NoJob] /\ task = Idle
    /\ now = 1 /\ crashes = 0 /\ asked = 0

\* Names are handled in their order.
First(S) == CHOOSE n \in S : TRUE

Running == ech # NoEch
Free == Running /\ task = Idle

-----------------------------------------------------------------------------
(***************************************************************************)
(* The store's operations, each a transaction.                             *)
(***************************************************************************)

Key(n) == keys[n] \notin {"absent", "retired"}
Following == [prepared |-> "published", published |-> "active", active |-> "retiring"]
Advanced(ks, n) == [ks EXCEPT ![n] = Following[@]]

\* IdentityStore.dependency_horizon.
Horizon(n) == Max({p.until : p \in {q \in pubs : n \in q.deps}} \cup {0})

\* IdentityStore.commit_publication: every dependency is published and not retired.
Committable(deps) == \A d \in deps : keys[d] \in {"published", "active", "retiring"}
Commit(kind, seq, body, deps, until) ==
    pubs \cup {[kind |-> kind, seq |-> seq, body |-> body, deps |-> deps, until |-> until]}

\* IdentityStore.prune_publications: expired generations, never the journal's head.
Pruned(kind) == {p \in pubs : p.kind # kind \/ p.until >= now \/ p.seq = Seq(kind)}

\* Answers that nothing retains; an expired row holds nothing back, so that the model
\* drops it as time passes and the prune after the next answer finds none.
Unexpired(t) == {p \in pubs : p.kind # "dns" \/ p.until >= t}

\* IdentityStore.retire: past every live publication that depends on the key.
Retirable(n) == keys[n] = "retiring" /\ \A p \in pubs : n \in p.deps => p.until < now

-----------------------------------------------------------------------------
(***************************************************************************)
(* Start of the process.                                                   *)
(***************************************************************************)

\* root_identity and ECHLifecycle on a blank state device.
Initialize ==
    /\ ~Running /\ task = Idle /\ keys[Root] = "absent"
    /\ keys' = [keys EXCEPT ![Root] = "active"]
    /\ pubs' = Commit("root", 1, {Root}, {Root}, MaxTime + Life)
    /\ ech' = [names |-> {}, current |-> EchName(1)]
    /\ task' = [op |-> "generate", job |-> 0, todo |-> {EchName(1)}]
    /\ UNCHANGED <<up, jobs, now, crashes, asked>>

\* ECHLifecycle._recover: every key the head names must open.
Recoverable ==
    /\ Key(Root) /\ Heads("root") # {} /\ Heads("ech") # {}
    /\ \A n \in Head("ech").body.names : Key(n)
Recover ==
    /\ ~Running /\ task = Idle /\ keys[Root] # "absent" /\ Recoverable
    /\ LET head == Head("ech").body IN
        /\ ech' = head
        /\ task' = [op |-> "stages", job |-> 0, todo |-> head.names]
    /\ UNCHANGED <<store, up, jobs, now, crashes, asked>>

\* The stage advances a crash may have left out, for each name of the head.
Behind(n) == keys[n] = "published" \/ (keys[n] = "active" /\ n # ech.current)
Restage ==
    /\ task.op = "stages"
    /\ LET behind == {n \in task.todo : Behind(n)} IN
        IF behind = {} THEN task' = Idle /\ keys' = keys
        ELSE LET n == First(behind) IN keys' = Advanced(keys, n) /\ task' = task
    /\ UNCHANGED <<pubs, up, ech, jobs, now, crashes, asked>>

\* The process dies, between any two transactions.
Crash ==
    /\ Running /\ crashes < MaxCrashes /\ crashes' = crashes + 1
    /\ ech' = NoEch /\ task' = Idle /\ jobs' = [j \in Jobs |-> NoJob]
    /\ UNCHANGED <<store, up, now, asked>>

-----------------------------------------------------------------------------
(***************************************************************************)
(* ECHLifecycle.                                                           *)
(***************************************************************************)

\* ECHLifecycle.rotate, and the first key of an initialisation.
Rotate ==
    /\ Free /\ Heads("ech") # {}
    /\ \E k \in 1..MaxEch :
        /\ keys[EchName(k)] = "absent"
        /\ task' = [op |-> "generate", job |-> 0, todo |-> {EchName(k)}]
    /\ UNCHANGED <<store, up, ech, jobs, now, crashes, asked>>
Generate ==
    /\ task.op = "generate"
    /\ \E n \in task.todo :
        \/ /\ keys[n] = "absent" /\ keys' = [keys EXCEPT ![n] = "prepared"]
           /\ UNCHANGED <<pubs, ech, task>>
        \/ /\ keys[n] = "prepared" /\ keys' = Advanced(keys, n)
           /\ UNCHANGED <<pubs, ech, task>>
        \/ /\ keys[n] = "published" /\ Seq("ech") < MaxSeq
           /\ LET body == [names |-> ech.names \cup {n}, current |-> n] IN
                /\ pubs' = Commit("ech", Seq("ech") + 1, body, body.names, now + Handshake)
                /\ ech' = body
                /\ task' = [op |-> "stages", job |-> 0, todo |-> body.names]
           /\ keys' = keys
    /\ UNCHANGED <<up, jobs, now, crashes, asked>>

\* ECHLifecycle.collect: the head is committed without the keys that no retained
\* publication depends on, and only then their private keys are removed.
CollectableAnyway == {n \in ech.names : n # ech.current}
Collectable == {n \in ech.names : n # ech.current /\ Horizon(n) < now}
Kept(body) == [body EXCEPT !.names = @ \ Collectable]
Collect ==
    IF Collectable = {} \/ Seq("ech") >= MaxSeq
    THEN task' = Idle /\ UNCHANGED <<pubs, ech>>
    ELSE /\ pubs' = Commit("ech", Seq("ech") + 1, Kept(ech), Kept(ech).names, now + Handshake)
         /\ ech' = Kept(ech)
         /\ task' = [op |-> "retire", job |-> 0, todo |-> Collectable]

\* IdentityStore.retire for each, and the prune of the journal at the end.
Retire ==
    /\ task.op = "retire"
    /\ IF task.todo = {}
       THEN task' = Idle /\ pubs' = Pruned("ech") /\ keys' = keys
       ELSE LET n == First(task.todo) IN
            /\ pubs' = pubs
            /\ \/ /\ keys[n] = "active" /\ keys' = Advanced(keys, n) /\ task' = task
               \/ /\ Retirable(n) /\ keys' = [keys EXCEPT ![n] = "retired"]
                  /\ task' = [task EXCEPT !.todo = @ \ {n}]
               \/ /\ keys[n] # "active" /\ ~Retirable(n)    \* "live publication dependency"
                  /\ task' = Idle /\ keys' = keys
    /\ UNCHANGED <<up, ech, jobs, now, crashes, asked>>

-----------------------------------------------------------------------------
(***************************************************************************)
(* SyntheticDNS.answer with the overlap plan of the zone.                  *)
(***************************************************************************)

\* DNSSECIdentities.observed: the newest generation, or the next after a tombstone.
Generations(u) == {g \in 1..MaxKeyGen : keys[Mapped(u, g)] # "absent"}
Newest(u) == Max(Generations(u) \cup {1})
Observed(u) ==
    Mapped(u, IF keys[Mapped(u, Newest(u))] = "retired" THEN Newest(u) + 1 ELSE Newest(u))

\* DNSSECLifecycle.plan: a key upstream no longer uses is kept for an overlap, up to
\* the horizon it had when it left.
Journal == IF Heads("zone") = {} THEN [current |-> {}, retiring |-> {}, clock |-> 0] ELSE Head("zone").body
Leaving(current) ==
    LET left == {e \in Journal.retiring : keys[e.name] # "retired"}
        fresh == {n \in Journal.current : n \notin current /\ \A e \in left : e.name # n} IN
    {e \in left : e.name \notin current}
        \cup {[name |-> n, end |-> Max({now, Horizon(n)})] : n \in fresh}
Plan(current) ==
    [previous |-> Seq("zone"), current |-> current, retiring |-> Leaving(current), now |-> now,
     overlap |-> {e.name : e \in {f \in Leaving(current) : f.end >= now}}]

\* SyntheticDNS._construct: keys are prepared, the answer's dependencies and horizon
\* are known; only an authenticated answer admits the overlap.
Construct(j, secure, service) ==
    LET name == Observed(up)
        plan == IF secure THEN Plan({name}) ELSE NoPlan
        deps == {Root, name} \cup plan.overlap \cup (IF service THEN {ech.current} ELSE {}) IN
    /\ Free /\ jobs[j] = NoJob
    /\ name \in Names
    /\ secure => now >= Journal.clock /\ \A n \in plan.overlap : Key(n)
    /\ keys' = IF keys[name] = "absent" THEN [keys EXCEPT ![name] = "prepared"] ELSE keys
    /\ jobs' = [jobs EXCEPT ![j] = [deps |-> deps, until |-> now + Life, plan |-> plan]]
    /\ asked < MaxAsked /\ asked' = asked + 1
    /\ UNCHANGED <<pubs, up, ech, task, now, crashes>>

\* The candidate is checked meanwhile.  Its outcome may differ, or its deadline pass.
Abandon(j) ==
    /\ Free /\ jobs[j] # NoJob
    /\ jobs' = [jobs EXCEPT ![j] = NoJob]
    /\ UNCHANGED <<store, up, ech, task, now, crashes, asked>>

\* The checked answer is published, and no await follows until it is served.
Checked(j) ==
    /\ Free /\ jobs[j] # NoJob
    /\ task' = [op |-> "publish", job |-> j, todo |-> {}]
    /\ UNCHANGED <<store, up, ech, jobs, now, crashes, asked>>

Job == jobs[task.job]
Denied == task' = Idle /\ jobs' = [jobs EXCEPT ![task.job] = NoJob]
Publish ==
    /\ task.op = "publish"
    /\ \/ \E n \in Job.deps :
            keys[n] = "prepared" /\ keys' = Advanced(keys, n) /\ UNCHANGED <<pubs, task, jobs>>
       \/ /\ \A n \in Job.deps : keys[n] # "prepared" /\ Key(n)
          /\ pubs' = Commit("dns", 0, {}, Job.deps, Job.until)
          /\ task' = [task EXCEPT !.op = "activate"]
          /\ UNCHANGED <<keys, jobs>>
       \/ (\E n \in Job.deps : ~Key(n)) /\ Denied /\ UNCHANGED <<keys, pubs>>
    /\ UNCHANGED <<up, ech, now, crashes, asked>>
Activate ==
    /\ task.op = "activate"
    /\ LET behind == {n \in Job.deps : keys[n] = "published"} IN
        IF behind = {} THEN task' = [task EXCEPT !.op = "journal"] /\ keys' = keys
        ELSE LET n == First(behind) IN keys' = Advanced(keys, n) /\ task' = task
    /\ UNCHANGED <<pubs, up, ech, jobs, now, crashes, asked>>

\* DNSSECLifecycle.commit: not if another answer moved the journal since the plan.
Outlived(p) == {e \in p.retiring : e.end < p.now /\ Horizon(e.name) < p.now}
JournalCommit ==
    /\ task.op = "journal"
    /\ LET p == Job.plan IN
        IF p = NoPlan THEN task' = [task EXCEPT !.op = "tail"] /\ UNCHANGED <<pubs, jobs>>
        ELSE IF Seq("zone") # p.previous \/ ~Committable(p.current \cup p.overlap) \/ Seq("zone") >= MaxSeq
        THEN Denied /\ pubs' = pubs
        ELSE /\ pubs' = Commit("zone", p.previous + 1,
                    [current |-> p.current, retiring |-> p.retiring \ Outlived(p), clock |-> p.now],
                    p.current \cup p.overlap, p.now + 1)
             /\ task' = [task EXCEPT !.op = "overlap", !.todo = {e.name : e \in p.retiring}]
             /\ jobs' = jobs
    /\ UNCHANGED <<keys, up, ech, now, crashes, asked>>
Overlap ==
    /\ task.op = "overlap"
    /\ LET outlived == {e.name : e \in Outlived(Job.plan)} IN
        IF task.todo = {}
        THEN pubs' = Pruned("zone") /\ task' = [task EXCEPT !.op = "tail"] /\ UNCHANGED <<keys, jobs>>
        ELSE LET n == First(task.todo) IN
            /\ pubs' = pubs
            /\ \/ /\ keys[n] = "active" /\ keys' = Advanced(keys, n) /\ UNCHANGED <<task, jobs>>
               \/ /\ keys[n] # "active" /\ n \notin outlived
                  /\ task' = [task EXCEPT !.todo = @ \ {n}] /\ UNCHANGED <<keys, jobs>>
               \/ /\ n \in outlived /\ Retirable(n)
                  /\ keys' = [keys EXCEPT ![n] = "retired"]
                  /\ task' = [task EXCEPT !.todo = @ \ {n}] /\ jobs' = jobs
               \/ /\ n \in outlived /\ keys[n] # "active" /\ ~Retirable(n)
                  /\ Denied /\ keys' = keys
    /\ UNCHANGED <<up, ech, now, crashes, asked>>

\* prune_publications, ECHLifecycle.collect, and the answer is rendered.
Tail ==
    /\ task.op = "tail"
    /\ pubs' = Unexpired(now)
    /\ task' = [op |-> "collect", job |-> 0, todo |-> {}]
    /\ jobs' = [jobs EXCEPT ![task.job] = NoJob]
    /\ UNCHANGED <<keys, up, ech, now, crashes, asked>>
TailCollect ==
    /\ task.op = "collect" /\ Collect
    /\ UNCHANGED <<keys, up, jobs, now, crashes, asked>>

-----------------------------------------------------------------------------
(***************************************************************************)
(* EnforcementHealth.healthy, upstream and time.                           *)
(***************************************************************************)

\* DNSSECLifecycle.collect: keys whose overlap ended, as the journal has it.
Ended ==
    {n \in Names : keys[n] = "retiring" /\ Horizon(n) < now
        /\ \E e \in Journal.retiring : e.name = n /\ e.end < now /\ n \notin Journal.current}
HealthCollect ==
    /\ Free
    /\ keys' = [n \in Names |-> IF n \in Ended THEN "retired" ELSE keys[n]]
    /\ task' = [op |-> "collect", job |-> 0, todo |-> {}]
    /\ UNCHANGED <<pubs, up, ech, jobs, now, crashes, asked>>

\* Upstream goes over to another key; it may come back to one it had.  A chain of
\* transactions is short: the clock is seen to move, like upstream, between them.
UpstreamRotates ==
    /\ Free
    /\ up' \in UpKeys \ {up}
    /\ UNCHANGED <<store, ech, jobs, task, now, crashes, asked>>
Tick ==
    /\ task = Idle /\ now < MaxTime /\ now' = now + 1
    /\ pubs' = Unexpired(now + 1)
    /\ UNCHANGED <<keys, up, ech, jobs, task, crashes, asked>>

Next ==
    \/ Initialize \/ Recover \/ Restage \/ Crash \/ Rotate \/ Generate \/ Retire
    \/ \E j \in Jobs :
        \/ Abandon(j) \/ Checked(j)
        \/ \E secure, service \in BOOLEAN : Construct(j, secure, service)
    \/ Publish \/ Activate \/ JournalCommit \/ Overlap \/ Tail \/ TailCollect
    \/ HealthCollect \/ UpstreamRotates \/ Tick
Spec == Init /\ [][Next]_vars

-----------------------------------------------------------------------------
\* What a guest was told stays true: until its horizon, every key that a published
\* answer depends on still has its private key, and an ECH key among them is in the
\* installed context, or in the head a restarted process installs.
AnswersStayBacked ==
    \A p \in pubs : p.kind = "dns" /\ p.until >= now =>
        /\ \A d \in p.deps : Key(d)
        /\ \A d \in p.deps : d[1] = "ech" => d \in Head("ech").body.names
        /\ Running => \A d \in p.deps : d[1] = "ech" => d \in ech.names

\* A crash between any two transactions leaves a state that the next process opens:
\* "never an unrecoverable journal dependency" (dnssec_lifecycle.py).
RestartWorks ==
    Heads("ech") # {} =>
        /\ Recoverable
        /\ \A n \in Journal.current : Key(n)

IdentitiesDurable == AnswersStayBacked /\ RestartWorks

=============================================================================
