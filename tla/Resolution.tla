----------------------------- MODULE Resolution -----------------------------
(***************************************************************************)
(* How the egress resolver gathers evidence.  A question is followed from  *)
(* name to name, one exchange with the configured upstreams at a time,     *)
(* through CNAME and DNAME links, service aliases and service targets.     *)
(* One job bounds the exchanges, the endpoints and the time of all of it.  *)
(* The evidence serves two ends: which addresses a connection may use, and *)
(* until when; and the answer a client is shown, with its TTLs aged.       *)
(*                                                                         *)
(* The upstreams say what they like, and never the same twice.  A TTL is   *)
(* in seconds and the clock in half seconds, so that rounding shows.  An   *)
(* address stands for the time at which the records that lead to it lapse. *)
(***************************************************************************)
EXTENDS Naturals, Sequences, FiniteSets

CONSTANTS Names, Question,  \* the names, and the one that is asked for
          Root,             \* the root name, as the target of a service
          Ttls,             \* the TTLs an upstream may put on a record
          Upstreams,        \* how many upstreams are configured
          MaxSubqueries, MaxEndpoints, MaxAliases, \* ResolutionLimits
          Deadline          \* of the job, in half seconds

VARIABLES clock,     \* the time since the job began
          purpose,   \* "client", or the protocol whose membership is asked
          job,       \* exchanges and endpoints so far
          plan,      \* the questions still to be asked, the current one first
          calls,     \* the activations of follow, the innermost first
          messages,  \* what was received for the question itself
          services,  \* AcquiredService of the current question
          evidence,  \* ResolutionEvidence so far
          answer,    \* the records assembled for the client
          outcome    \* "open", "denied", "unrepresentable" or "done"

vars == <<clock, purpose, job, plan, calls, messages, services, evidence, answer, outcome>>

Never == 1000
Least(S) == CHOOSE t \in S : \A u \in S : t <= u
Earlier(a, b) == IF a <= b THEN a ELSE b
----------------------------------------------------------------------------
(* Records and replies. *)
Records(kind) ==
    [type : {"link"}, to : Names, ttl : Ttls] \union
    IF kind = "HTTPS" THEN [type : {"alias", "service"}, to : Names \union {Root}, ttl : Ttls]
                      ELSE [type : {"address"}, to : {Root}, ttl : Ttls]

\* The records with the owner asked for, and a DNAME above it; all others are
\* inspected and no more.  The records of one type have one TTL.
Replies(kind) ==
    {[code |-> c, records |-> {}] : c \in {"nxdomain", "servfail", "noerror"}}
    \union {[code |-> "noerror", records |-> {p[1], p[2]}] : p \in
              {p \in Records(kind) \X Records(kind) :
                 p[1].ttl = p[2].ttl \/ "link" \in {p[1].type, p[2].type}}}

Call(name, kind, visited, depth, expires, bound, alias, optional) ==
    [name |-> name, kind |-> kind, visited |-> visited, depth |-> depth, expires |-> expires,
     bound |-> bound, alias |-> alias, optional |-> optional, step |-> "ask", upstream |-> 1,
     left |-> {}, found |-> {}, service |-> [families |-> {}]]

First(kind) == <<Call(Question, kind, {}, 0, Never, Never, FALSE, FALSE)>>

\* FreshMembership asks for both families, and for HTTPS only with https.
Plans == [client |-> {<<"A">>, <<"HTTPS">>},
          http |-> {<<"A", "AAAA">>}, https |-> {<<"A", "AAAA", "HTTPS">>}]

Init == /\ clock = 0
        /\ purpose \in DOMAIN Plans
        /\ plan \in Plans[purpose]
        /\ calls = First(plan[1])
        /\ job = [subqueries |-> 0, endpoints |-> 0]
        /\ messages = {} /\ services = {} /\ answer = {}
        /\ evidence = [addresses |-> {}, expires |-> Never]
        /\ outcome = "open"
----------------------------------------------------------------------------
Open(step) == outcome = "open" /\ calls # <<>> /\ Head(calls).step = step
Top == Head(calls)
Callers == Tail(calls)

Ends(how) == /\ outcome' = how /\ calls' = <<>>
             /\ UNCHANGED <<clock, purpose, job, plan, messages, services, evidence, answer>>
Deny == Ends("denied")

\* A step of follow that stays within the current question.
Continue(stack) == /\ calls' = stack
                   /\ UNCHANGED <<purpose, plan, services, evidence, answer, outcome>>
Become(call) == Continue(<<call>> \o Callers)
Enter(call, inner) == Continue(<<inner, call>> \o Callers)
NoExchange == UNCHANGED <<clock, messages>>

\* The next question, or the end of a membership.
NextQuestion ==
    /\ plan' = Tail(plan) /\ services' = {} /\ messages' = {}
    /\ IF Len(plan) = 1 THEN outcome' = "done" /\ calls' = <<>>
                        ELSE outcome' = outcome /\ calls' = First(plan[2])
    /\ UNCHANGED <<purpose, answer>>
----------------------------------------------------------------------------
(* UpstreamResolver.exchange. *)

\* A loop, a limit, the deadline, or a prohibited record in any section.
Refuse == Open("ask") /\ Deny

\* One upstream is asked, twice when its first reply is truncated.
Asked(n, later) ==
    /\ Open("ask")
    /\ Top.name \notin Top.visited /\ Top.depth <= MaxAliases
    /\ job.subqueries + n <= MaxSubqueries /\ later < Deadline
    /\ job' = [job EXCEPT !.subqueries = @ + n]
    /\ clock' = later

Lapses(reply, at) == {[type |-> r.type, to |-> r.to, lapses |-> at + 2 * r.ttl] : r \in reply.records}

Negative(reply) == reply.code = "nxdomain" \/ (reply.code = "servfail" /\ ~Top.alias)

Processed(records) ==
    [Top EXCEPT !.step = "records",
                !.visited = @ \union {Top.name},
                !.left = {r \in records : r.type # "address"},
                !.found = {Earlier(Top.bound, r.lapses) : r \in {x \in records : x.type = "address"}},
                !.expires = Least({@} \union {r.lapses : r \in records})]

Exchange ==
    /\ Open("ask")
    /\ \E n \in 1..2, delay \in 0..1, reply \in Replies(Top.kind) :
          /\ Asked(n, clock + delay)
          /\ reply.code = "servfail" => Top.upstream = Upstreams
          /\ messages' = IF Top.kind # plan[1] \/ purpose # "client" THEN messages
                         ELSE messages \union {[name |-> Top.name, code |-> reply.code, at |-> clock',
                                                records |-> reply.records]}
          /\ Become(IF Negative(reply)
                    THEN [Top EXCEPT !.step = "return", !.expires = clock']
                    ELSE Processed(Lapses(reply, clock')))

\* No reply, or a failure that the next upstream may not repeat.
NextUpstream ==
    \E n \in 1..2 :
       /\ Asked(n, clock) /\ Top.upstream < Upstreams
       /\ Become([Top EXCEPT !.upstream = @ + 1])
       /\ UNCHANGED messages

\* An alias still has its fallback; an address lookup of a service is given up,
\* and so is a question of a membership, and the evidence so far stays.
Optional == {i \in 1..Len(calls) : calls[i].optional}

NoUpstream ==
    \E n \in 1..2 :
       /\ Asked(n, clock) /\ Top.upstream = Upstreams
       /\ CASE Top.alias -> Become(Processed({})) /\ UNCHANGED messages
            [] ~Top.alias /\ Optional # {} ->
                 /\ Continue(SubSeq(calls, Least(Optional) + 1, Len(calls)))
                 /\ UNCHANGED messages
            [] ~Top.alias /\ Optional = {} /\ purpose # "client" ->
                 NextQuestion /\ UNCHANGED evidence
            [] OTHER -> /\ calls' = <<>> /\ outcome' = "denied"
                        /\ UNCHANGED <<purpose, plan, messages, services, evidence, answer>>
----------------------------------------------------------------------------
(* UpstreamResolver.acquire.follow, with the reply in hand. *)
Left(type) == {r \in Top.left : r.type = type}
Bound(record) == Earlier(Top.bound, record.lapses)
Targets(records) == {r.to : r \in records}

\* Two names to follow, or a name and something else: nothing is chosen.
Conflicting == \/ Cardinality(Targets(Left("link"))) > 1
               \/ Left("link") # Top.left \/ Top.found # {}

FollowLink ==
    /\ Open("records") /\ Left("link") # {}
    /\ IF Conflicting THEN Deny
       ELSE LET to    == CHOOSE n \in Targets(Top.left) : TRUE
                bound == Least({Bound(r) : r \in Top.left})
            IN  /\ Enter([Top EXCEPT !.step = "return", !.left = {}],
                         Call(to, Top.kind, Top.visited, Top.depth + 1, Top.expires, bound, Top.alias, FALSE))
                /\ NoExchange /\ UNCHANGED job

\* Every alias counts; the ServiceMode records beside one are ignored.
FollowAlias ==
    /\ Open("records") /\ Left("link") = {}
    /\ \E r \in Left("alias") :
         IF job.endpoints = MaxEndpoints THEN Deny
         ELSE LET left == Left("alias") \ {r}
                  call == [Top EXCEPT !.left = left, !.step = IF left = {} THEN "return" ELSE @]
              IN  /\ job' = [job EXCEPT !.endpoints = @ + 1]
                  /\ NoExchange
                  /\ IF r.to = Root THEN Become(call)
                     ELSE Enter(call, Call(r.to, Top.kind, Top.visited, Top.depth + 1,
                                           Top.expires, Bound(r), TRUE, FALSE))

\* The services offered here and, below an alias, the name itself.
Offered == Left("service") \union
           (IF Top.alias /\ Top.kind = "HTTPS" THEN {[type |-> "fallback", to |-> Root, lapses |-> Never]} ELSE {})

Serve ==
    /\ Open("records") /\ Left("link") = {} /\ Left("alias") = {}
    /\ \E r \in Offered :
         IF job.endpoints = MaxEndpoints THEN Deny
         ELSE /\ job' = [job EXCEPT !.endpoints = @ + 1]
              /\ NoExchange
              /\ Become([Top EXCEPT
                   !.step = "service",
                   !.left = @ \ {r},
                   !.alias = @ /\ r.type # "fallback",
                   !.service = [to |-> IF r.to = Root THEN Top.name ELSE r.to, bound |-> Bound(r),
                                families |-> {"A", "AAAA"}, found |-> {}, expires |-> Top.expires]])

\* An address lookup starts a branch of its own, at the same depth.
LookUp ==
    /\ Open("service")
    /\ \E family \in Top.service.families :
         /\ family = "AAAA" => Top.service.families = {"AAAA"}
         /\ Enter([Top EXCEPT !.service.families = @ \ {family}],
                  Call(Top.service.to, family, {}, Top.depth, Top.expires, Top.service.bound, FALSE, TRUE))
    /\ NoExchange /\ UNCHANGED job

Served ==
    /\ Open("service") /\ Top.service.families = {}
    /\ services' = services \union {[found |-> Top.service.found, expires |-> Top.service.expires]}
    /\ calls' = <<[Top EXCEPT !.step = "records", !.service = [families |-> {}]]>> \o Callers
    /\ UNCHANGED <<clock, purpose, job, plan, messages, evidence, answer, outcome>>

Finish == /\ Open("records") /\ Left("link") = {} /\ Left("alias") = {} /\ Offered = {}
          /\ Become([Top EXCEPT !.step = "return"])
          /\ NoExchange /\ UNCHANGED job

\* follow returns: an optional family that found nothing leaves no trace.
TakenByLate(caller) ==
    IF caller.step = "service"
    THEN [caller EXCEPT !.service.found = @ \union Top.found,
                        !.service.expires = IF Top.found = {} \/ @ # Never THEN @ ELSE Top.expires]
    ELSE [caller EXCEPT !.found = @ \union Top.found, !.expires = Earlier(@, Top.expires)]

TakenBy(caller) ==
    IF caller.step = "service"
    THEN [caller EXCEPT !.service.found = @ \union Top.found,
                        !.service.expires = IF Top.found = {} THEN @ ELSE Earlier(@, Top.expires)]
    ELSE [caller EXCEPT !.found = @ \union Top.found, !.expires = Earlier(@, Top.expires)]

Return ==
    /\ Open("return") /\ Callers # <<>>
    /\ Continue(<<TakenBy(Head(Callers))>> \o Tail(Callers))
    /\ NoExchange /\ UNCHANGED job

\* FreshMembership.resolve: only what has addresses bounds the evidence.
Gather ==
    /\ Open("return") /\ Callers = <<>> /\ purpose # "client"
    /\ LET serving == {s \in services : s.found # {}}
           direct  == IF Top.found = {} THEN {} ELSE {Top.expires}
       IN  evidence' = [addresses |-> evidence.addresses \union Top.found \union UNION {s.found : s \in serving},
                        expires |-> Least({evidence.expires} \union direct \union {s.expires : s \in serving})]
    /\ NextQuestion
    /\ UNCHANGED <<clock, job>>
----------------------------------------------------------------------------
(* assemble: the alias chain and its end, with aged TTLs. *)
AgeTruncated(at) == (clock - at) \div 2
Age(at) == (clock - at + 1) \div 2
Aged(ttl, at) == IF ttl <= Age(at) THEN 0 ELSE ttl - Age(at)

Observed(m) == {[type |-> r.type, to |-> r.to] : r \in m.records}
Disagree == \E m, o \in messages : m.name = o.name /\ (m.code # o.code \/ Observed(m) # Observed(o))

\* The names reached from the question by links alone.
Chain == LET step[n \in 0..Cardinality(Names)] ==
               IF n = 0 THEN {Question}
               ELSE step[n - 1] \union
                    {r.to : r \in {x \in UNION {m.records : m \in {y \in messages : y.name \in step[n - 1]}} :
                                     x.type = "link"}}
         IN  step[Cardinality(Names)]

\* What one observation says of its records.
Seen(m) == {[of |-> <<m.name, r.type, r.to>>, ttl |-> Aged(r.ttl, m.at), lapses |-> m.at + 2 * r.ttl]
              : r \in m.records}

\* A record that was observed more than once keeps the least of its TTLs.
Merged(seen) ==
    LET Same(x) == {y \in seen : y.of = x.of}
    IN  {[ttl |-> Least({y.ttl : y \in Same(x)}), lapses |-> Least({y.lapses : y \in Same(x)})] : x \in seen}

Assemble ==
    /\ Open("return") /\ Callers = <<>> /\ purpose = "client"
    /\ IF Disagree THEN Ends("unrepresentable")
       ELSE /\ outcome' = "done" /\ calls' = <<>>
            /\ LET used == {m \in messages : m.name \in Chain}
               IN  answer' = IF \E m \in used : m.code = "servfail" THEN {}
                             ELSE Merged(UNION {Seen(m) : m \in used})
            /\ UNCHANGED <<clock, purpose, job, plan, messages, services, evidence>>
----------------------------------------------------------------------------
Next == \/ Refuse \/ Exchange \/ NextUpstream \/ NoUpstream
        \/ FollowLink \/ FollowAlias \/ Serve \/ LookUp \/ Served \/ Finish
        \/ Return \/ Gather \/ Assemble

Spec == Init /\ [][Next]_vars
----------------------------------------------------------------------------
(* Properties. *)

\* Evidence lapses no later than any record that led to one of its addresses,
\* whichever branch the record was on and however long the walk took.
EvidenceLapsesInTime ==
    /\ \A bound \in evidence.addresses : evidence.expires <= bound
    /\ \A s \in services : \A bound \in s.found : s.expires <= bound

\* A client may keep no record longer than the upstream allowed, the time the
\* walk took included.
TtlsOnlyShrink == \A r \in answer : r.ttl = 0 \/ clock + 2 * r.ttl <= r.lapses

\* However the names lead on, the walk ends within its limits: the stack is
\* bounded by the aliases of the question and of its services together.
WalkIsBounded ==
    /\ Len(calls) <= MaxAliases + 3
    /\ job.subqueries <= MaxSubqueries /\ job.endpoints <= MaxEndpoints

ResolutionIsSound == EvidenceLapsesInTime /\ TtlsOnlyShrink /\ WalkIsBounded
=============================================================================
