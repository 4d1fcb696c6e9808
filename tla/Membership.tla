----------------------------- MODULE Membership -----------------------------
(***************************************************************************)
(* The DNS evidence of one guest connection.  Every request on it must     *)
(* prove that the connection's own destination belongs to the name it      *)
(* asks for.  Evidence is kept for a while, requests for one name share    *)
(* one lookup, and a request that is cancelled leaves the lookup to the    *)
(* others.  Closing the connection ends all of it.                         *)
(*                                                                         *)
(* Resolution says how a lookup comes by its evidence and its expiry; here *)
(* it may name the destination or not, and lapse at any time.              *)
(***************************************************************************)
EXTENDS Naturals, FiniteSets

CONSTANTS Keys,     \* name, authority port and protocol of a request
          Requests, \* the requests of the connection
          Cap,      \* how long evidence may be kept
          Maximum,  \* how many keys may have evidence or a lookup
          MaxTime, MaxTtl

VARIABLES now,
          cache,    \* the evidence kept for a key, and until when
          inflight, \* the lookup that requests for a key share, or none
          request,  \* the state of every request
          closed    \* "open", "closing" once close has begun, "closed"

vars == <<now, cache, inflight, request, closed>>

None == [state |-> "none"]
NoRequest == [state |-> "new"]
Earlier(a, b) == IF a <= b THEN a ELSE b

Init == /\ now = 0
        /\ cache = [k \in Keys |-> None]
        /\ inflight = [k \in Keys |-> None]
        /\ request = [r \in Requests |-> NoRequest]
        /\ closed = "open"
----------------------------------------------------------------------------
Is(map, k, state) == map[k].state = state

\* What is left of the cache once a request has looked at it.
Unpurged == cache
Purged == [k \in Keys |-> IF cache[k].state = "kept" /\ cache[k].until <= now THEN None ELSE cache[k]]

Occupied == {k \in Keys : Purged[k] # None \/ inflight[k] # None}

Verdict(r, found, from) ==
    [request EXCEPT ![r] = IF found.member THEN [state |-> "accepted", asked |-> from, found |-> found]
                                           ELSE [state |-> "denied"]]

Denied(r) == request' = [request EXCEPT ![r] = [state |-> "denied"]]

Waits(r, k) == request' = [request EXCEPT ![r] = [state |-> "waiting", key |-> k, asked |-> now]]

\* ConnectionMembership.require, up to its first await.
Require(r, k) ==
    /\ Is(request, r, "new")
    /\ IF closed # "open" THEN Denied(r) /\ UNCHANGED <<cache, inflight>>
       ELSE /\ cache' = Purged
            /\ CASE Purged[k] # None ->
                      request' = Verdict(r, Purged[k].found, now) /\ UNCHANGED inflight
                 [] Purged[k] = None /\ inflight[k] # None ->
                      Waits(r, k) /\ UNCHANGED inflight
                 [] Purged[k] = None /\ inflight[k] = None /\ Cardinality(Occupied) >= Maximum ->
                      Denied(r) /\ UNCHANGED inflight
                 [] OTHER -> /\ Waits(r, k)
                             /\ inflight' = [inflight EXCEPT ![k] = [state |-> "running"]]
    /\ UNCHANGED <<now, closed>>

\* _lookup ends: its evidence is kept if it has not lapsed, or it is refused.
Looked(k) ==
    /\ Is(inflight, k, "running")
    /\ \E member \in BOOLEAN, expires \in now..(now + MaxTtl) :
         LET found == [member |-> member, expires |-> expires, at |-> now]
         IN  /\ inflight' = [inflight EXCEPT ![k] = [state |-> "done", found |-> found]]
             /\ cache' = IF closed = "open" /\ expires > now
                         THEN [cache EXCEPT ![k] = [state |-> "kept", found |-> found,
                                                    until |-> Earlier(expires, now + Cap)]]
                         ELSE cache
    /\ UNCHANGED <<now, request, closed>>

LookupFails(k) ==
    /\ Is(inflight, k, "running")
    /\ inflight' = [inflight EXCEPT ![k] = [state |-> "failed"]]
    /\ UNCHANGED <<now, cache, request, closed>>

Waiting(k) == {r \in Requests : request[r].state = "waiting" /\ request[r].key = k}

\* The done callbacks run in one turn of the loop: the lookup is forgotten and
\* every request that waits for it goes on.
Settle(k) ==
    /\ inflight[k].state \in {"done", "failed"}
    /\ inflight' = [inflight EXCEPT ![k] = None]
    /\ request' = [r \in Requests |->
         CASE r \notin Waiting(k) -> request[r]
           [] r \in Waiting(k) /\ inflight[k].state = "done" /\ closed = "open" ->
                Verdict(r, inflight[k].found, request[r].asked)[r]
           [] OTHER -> [state |-> "denied"]]
    /\ UNCHANGED <<now, cache, closed>>

\* The request is given up; the lookup is shielded from that.
Cancel(r) == /\ Is(request, r, "waiting")
             /\ request' = [request EXCEPT ![r] = [state |-> "cancelled"]]
             /\ UNCHANGED <<now, cache, inflight, closed>>

\* close(): lookups are cancelled, and only then is the evidence dropped.
Close == /\ closed = "open"
         /\ closed' = "closing"
         /\ inflight' = [k \in Keys |-> IF Is(inflight, k, "running") THEN [state |-> "failed"] ELSE inflight[k]]
         /\ UNCHANGED <<now, cache, request>>

Closed == /\ closed = "closing"
          /\ \A k \in Keys : inflight[k] = None
          /\ closed' = "closed"
          /\ cache' = [k \in Keys |-> None]
          /\ UNCHANGED <<now, inflight, request>>

\* Time passes, but not between the end of a lookup and its callbacks.
Tick == /\ now < MaxTime
        /\ \A k \in Keys : inflight[k].state \in {"none", "running"}
        /\ now' = now + 1
        /\ UNCHANGED <<cache, inflight, request, closed>>

Next == \/ \E r \in Requests, k \in Keys : Require(r, k)
        \/ \E k \in Keys : Looked(k) \/ LookupFails(k) \/ Settle(k)
        \/ \E r \in Requests : Cancel(r)
        \/ Close \/ Closed \/ Tick

Spec == Init /\ [][Next]_vars
----------------------------------------------------------------------------
(* Properties. *)

\* A request passes on evidence that was looked up after it began, or that
\* had neither lapsed nor grown older than the cap when it began; a lookup
\* shared by several requests, given up by some of them or overtaken by
\* another, never lets an older answer through.
EvidenceIsCurrent ==
    \A r \in Requests :
       Is(request, r, "accepted") =>
          LET found == request[r].found
          IN  /\ found.member
              /\ found.at >= request[r].asked
                 \/ request[r].asked < Earlier(found.expires, found.at + Cap)

\* Evidence and lookups together stay within the bound, and a closed
\* connection holds none and is not waited for.
EvidenceIsContained ==
    /\ Cardinality({k \in Keys : cache[k] # None \/ inflight[k] # None}) <= Maximum
    /\ closed = "closed" => \A r \in Requests : ~Is(request, r, "waiting")
    /\ \A k \in Keys : closed = "closed" => cache[k] = None /\ inflight[k] = None

MembershipIsCurrent == EvidenceIsCurrent /\ EvidenceIsContained
=============================================================================
