------------------------ MODULE EgressAnswersProofs ------------------------
(***************************************************************************)
(* Machine-checked safety of what the egress Pod answers a guest from, for *)
(* any number of keys, requests, datagrams, connections, endpoints,        *)
(* serials, depths of a chain and crashes: a resolution keeps its limits   *)
(* and its evidence lapses in time, membership lets a request through on   *)
(* evidence that is current for it, the DNS service counts what it serves  *)
(* and loses no query, a revocation is what the issuer last said, what a   *)
(* guest was shown of an origin's certificate stays true, the trust in a   *)
(* signed answer is earned, and what is denied is absent.                  *)
(*                                                                         *)
(* One component moves in a behaviour, so there is one inductive invariant *)
(* for each: MemberInv, ServiceInv, MirrorInv, StatusInv, ResolutionInv,   *)
(* TrustInv, DenialInv.                                                    *)
(***************************************************************************)
EXTENDS MCEgressAnswers, FiniteSetTheorems, SequenceTheorems, WellFoundedInduction, TLAPS

-----------------------------------------------------------------------------
(***************************************************************************)
(* Counting and ordering.                                                  *)
(***************************************************************************)

\* The instances count with the operator of FiniteSets.
LEMMA SameCardinality ==
    \A S : Member!Cardinality(S) = Cardinality(S) /\ Service!Cardinality(S) = Cardinality(S)
  BY DEF Member!Cardinality, Service!Cardinality, Cardinality

Bit(b) == IF b THEN 1 ELSE 0

\* Two subsets of a finite set that differ in one element at most differ by it in size.
LEMMA OneMoves ==
  ASSUME NEW D, IsFiniteSet(D), NEW S \in SUBSET D, NEW T \in SUBSET D, NEW d \in D,
         \A x \in D : x # d => (x \in S <=> x \in T)
  PROVE  /\ Cardinality(S) \in Nat /\ Cardinality(T) \in Nat
         /\ Cardinality(T) = Cardinality(S) + Bit(d \in T) - Bit(d \in S)
<1>1. IsFiniteSet(S) /\ IsFiniteSet(T)
  BY FS_Subset
<1>2. Cardinality(S) \in Nat /\ Cardinality(T) \in Nat
  BY <1>1, FS_CardinalityType
<1>3. CASE d \in T /\ d \notin S
  <2>1. T = S \cup {d}
    BY <1>3
  <2>2. Cardinality(T) = Cardinality(S) + 1
    BY <1>1, <1>3, <2>1, FS_AddElement
  <2> QED
    BY <1>2, <1>3, <2>2 DEF Bit
<1>4. CASE d \notin T /\ d \in S
  <2>1. S = T \cup {d}
    BY <1>4
  <2>2. Cardinality(S) = Cardinality(T) + 1
    BY <1>1, <1>4, <2>1, FS_AddElement
  <2> QED
    BY <1>2, <1>4, <2>2 DEF Bit
<1>5. CASE (d \in T) = (d \in S)
  <2>1. S = T
    BY <1>5
  <2> QED
    BY <1>2, <2>1 DEF Bit
<1> QED
  BY <1>3, <1>4, <1>5

\* A set of numbers that is not empty has a least member.
LEMMA LeastExists ==
  ASSUME NEW T \in SUBSET Nat, T # {}
  PROVE  \E x \in T : \A y \in T : x <= y
<1>1. PICK R : R = OpToRel(<, Nat)
  OBVIOUS
<1>2. IsWellFoundedOn(R, Nat)
  BY <1>1, NatLessThanWellFounded
<1>3. PICK x \in T : \A y \in T : ~ (<<y, x>> \in R)
  BY <1>2, WFMin
<1>4. \A i, j \in Nat : <<i, j>> \in R <=> i < j
  BY <1>1 DEF OpToRel
<1>5. ASSUME NEW y \in T PROVE x <= y
  <2>1. y \in Nat /\ x \in Nat /\ ~ (<<y, x>> \in R)
    BY <1>3
  <2>2. <<y, x>> \in R <=> y < x
    BY <1>4, <2>1
  <2> QED
    BY <2>1, <2>2
<1> QED
  BY <1>5

\* A set of numbers that is bounded and not empty has a greatest member.
LEMMA GreatestExists ==
  ASSUME NEW T \in SUBSET Nat, T # {}, NEW top \in Nat, \A x \in T : x <= top
  PROVE  \E x \in T : \A y \in T : y <= x
<1>0. PICK U : U = {j \in Nat : \A x \in T : x <= j}
  OBVIOUS
<1>1. PICK m \in U : \A j \in U : m <= j
  <2>1. U \in SUBSET Nat /\ top \in U
    BY <1>0
  <2> QED
    BY <2>1, LeastExists
<1>2. CASE m \in T
  BY <1>0, <1>1, <1>2
<1>3. CASE m \notin T
  <2>1. m # 0
    <3>1. PICK x \in T : TRUE
      OBVIOUS
    <3> QED
      BY <1>0, <1>1, <1>3, <3>1
  <2>2. m - 1 \in U
    BY <1>0, <1>1, <1>3, <2>1
  <2>3. m \in Nat
    BY <1>0, <1>1
  <2> QED
    BY <1>1, <2>2, <2>3
<1> QED
  BY <1>2, <1>3

-----------------------------------------------------------------------------
(***************************************************************************)
(* Membership: evidence is fresh for the request it lets through.          *)
(***************************************************************************)

\* A lookup that is done says what is so now, and none runs once the connection closes.
LookupSound(k) ==
    /\ inflight[k].state \in {"none", "running", "done", "failed"}
    /\ inflight[k].state = "none" <=> inflight[k] = Member!None
    /\ inflight[k].state = "done" => inflight[k].found.at = now
    /\ closed # "open" => inflight[k].state # "running"
\* What is kept lapses with its evidence and with the cap.
KeptSound(k) ==
    /\ cache[k].state = "kept" => /\ cache[k].until = Member!Earlier(cache[k].found.expires, cache[k].found.at + Cap)
                                  /\ cache[k].until \in Nat
    /\ cache[k] = Member!None \/ cache[k].state = "kept"
\* A request that waits has a lookup to wait for.
RequestSound(r) ==
    /\ request[r].state = "waiting" => /\ request[r].key \in Keys /\ inflight[request[r].key] # Member!None
                                       /\ request[r].asked \in Nat /\ request[r].asked <= now
\* The keys that take room.
Held == {k \in Keys : cache[k] # Member!None \/ inflight[k] # Member!None}
MemberInv ==
    /\ now \in Nat /\ closed \in {"open", "closing", "closed"}
    /\ cache = [k \in Keys |-> cache[k]] /\ inflight = [k \in Keys |-> inflight[k]]
    /\ request = [r \in Requests |-> request[r]]
    /\ \A k \in Keys : LookupSound(k) /\ KeptSound(k)
    /\ \A r \in Requests : RequestSound(r)
    /\ closed = "closed" => \A k \in Keys : cache[k] = Member!None /\ inflight[k] = Member!None
    /\ Cardinality(Held) <= Maximum
    /\ Member!EvidenceIsCurrent

\* The keys that are held are finitely many and grow one at a time.
LEMMA HeldFinite ==
    /\ IsFiniteSet(Held)
    /\ \A S \in SUBSET Keys : IsFiniteSet(S) /\ Cardinality(S) \in Nat
    /\ \A S \in SUBSET Keys : \A R \in SUBSET S : Cardinality(R) <= Cardinality(S)
    /\ \A S \in SUBSET Keys, k \in Keys : Cardinality(S \cup {k}) <= Cardinality(S) + 1
<1>1. \A S \in SUBSET Keys : IsFiniteSet(S) /\ Cardinality(S) \in Nat
  BY MembershipAssumption, FS_Subset, FS_CardinalityType
<1>2. \A S \in SUBSET Keys : \A R \in SUBSET S : Cardinality(R) <= Cardinality(S)
  BY <1>1, FS_Subset
<1>3. ASSUME NEW S \in SUBSET Keys, NEW k \in Keys
      PROVE  Cardinality(S \cup {k}) <= Cardinality(S) + 1
  <2>1. /\ IsFiniteSet(S) /\ Cardinality(S) \in Nat
    BY <1>1
  <2>2. Cardinality(S \cup {k}) = IF k \in S THEN Cardinality(S) ELSE Cardinality(S) + 1
    BY <2>1, FS_AddElement
  <2> QED
    BY <2>1, <2>2
<1> QED
  BY <1>1, <1>2, <1>3 DEF Held

\* The invariant holds at first.
LEMMA MemberInit == Member!Init => MemberInv
<1> SUFFICES ASSUME Member!Init PROVE MemberInv
  OBVIOUS
<1>1. Held = {}
  BY DEF Held, Member!Init
<1>2. Cardinality(Held) = 0
  BY <1>1, FS_EmptySet
<1> QED
  BY <1>2, MembershipAssumption DEF Member!Init, MemberInv, LookupSound, KeptSound, RequestSound, Member!EvidenceIsCurrent, Member!Is,
     Member!None, Member!NoRequest

\* Every step of a connection's membership keeps the invariant.
LEMMA MemberStep == MemberInv /\ Member!Next => MemberInv'
<1> SUFFICES ASSUME MemberInv, Member!Next PROVE MemberInv'
  OBVIOUS
<1> USE DEF LookupSound, KeptSound, RequestSound, Member!EvidenceIsCurrent, Member!Is, Member!None, Member!Earlier
<1>t. /\ now \in Nat /\ closed \in {"open", "closing", "closed"}
      /\ cache = [k \in Keys |-> cache[k]] /\ inflight = [k \in Keys |-> inflight[k]]
      /\ request = [r \in Requests |-> request[r]]
  BY DEF MemberInv
<1>h. ASSUME Held' \subseteq Held PROVE (Cardinality(Held) <= Maximum)'
  <2>1. Held \in SUBSET Keys /\ Held' \in SUBSET Held
    BY <1>h DEF Held
  <2>2. Cardinality(Held) \in Nat /\ Cardinality(Held') \in Nat /\ Cardinality(Held') <= Cardinality(Held)
    BY <2>1, HeldFinite
  <2>3. Cardinality(Held) <= Maximum
    BY DEF MemberInv
  <2> QED
    BY <2>2, <2>3, MembershipAssumption
<1>p. /\ \A k \in Keys : Member!Purged[k] = IF cache[k].state = "kept" /\ cache[k].until <= now THEN Member!None ELSE cache[k]
      /\ Member!Purged = [k \in Keys |-> Member!Purged[k]]
  BY DEF Member!Purged
<1>1. ASSUME NEW r \in Requests, NEW k \in Keys, Member!Require(r, k) PROVE MemberInv'
  <2>1. request[r].state = "new" /\ UNCHANGED <<now, closed>>
    BY <1>1 DEF Member!Require
  <2>2. CASE closed # "open"
    <3>1. request' = [request EXCEPT ![r] = [state |-> "denied"]] /\ UNCHANGED <<cache, inflight>>
      BY <1>1, <2>2 DEF Member!Require, Member!Denied
    <3>2. (Cardinality(Held) <= Maximum)'
      BY <1>h, <3>1 DEF Held
    <3> QED
      BY <1>t, <2>1, <3>1, <3>2 DEF MemberInv
  <2>3. CASE closed = "open"
    <3>1. /\ cache' = Member!Purged
          /\ \A j \in Keys : cache'[j] = Member!None \/ cache'[j] = cache[j]
      BY <1>1, <1>p, <2>3 DEF Member!Require
    <3>2. (\A j \in Keys : KeptSound(j))' /\ cache' = [j \in Keys |-> cache'[j]]
      BY <1>p, <2>1, <3>1 DEF MemberInv
    <3>3. CASE Member!Purged[k] # Member!None
      <4>1. request' = Member!Verdict(r, Member!Purged[k].found, now) /\ UNCHANGED inflight
        BY <1>1, <2>3, <3>3 DEF Member!Require
      <4>2. cache[k].state = "kept" /\ Member!Purged[k] = cache[k] /\ ~ cache[k].until <= now
        BY <1>p, <3>3 DEF MemberInv
      <4>3. /\ \A q \in Requests : q # r => request'[q] = request[q]
            /\ request' = [q \in Requests |-> request'[q]]
            /\ request'[r] = IF cache[k].found.member
                             THEN [state |-> "accepted", asked |-> now, found |-> cache[k].found] ELSE [state |-> "denied"]
        BY <1>t, <4>1, <4>2 DEF Member!Verdict
      <4>4. now < Member!Earlier(cache[k].found.expires, cache[k].found.at + Cap)
        BY <1>t, <4>2 DEF MemberInv
      <4>5. Member!EvidenceIsCurrent'
        BY <4>3, <4>4, <2>1 DEF MemberInv
      <4>6. (\A q \in Requests : RequestSound(q))'
        BY <4>1, <4>3, <2>1 DEF MemberInv
      <4>7. (Cardinality(Held) <= Maximum)'
        BY <1>h, <3>1, <4>1 DEF Held
      <4> QED
        BY <1>t, <2>1, <2>3, <3>2, <4>1, <4>3, <4>5, <4>6, <4>7 DEF MemberInv
    <3>4. CASE Member!Purged[k] = Member!None /\ inflight[k] # Member!None
      <4>1. request' = [request EXCEPT ![r] = [state |-> "waiting", key |-> k, asked |-> now]] /\ UNCHANGED inflight
        BY <1>1, <2>3, <3>4 DEF Member!Require, Member!Waits
      <4>2. (Cardinality(Held) <= Maximum)'
        BY <1>h, <3>1, <4>1 DEF Held
      <4> QED
        BY <1>t, <2>1, <2>3, <3>2, <3>4, <4>1, <4>2 DEF MemberInv
    <3>5. CASE Member!Purged[k] = Member!None /\ inflight[k] = Member!None /\ Cardinality(Member!Occupied) >= Maximum
      <4>1. request' = [request EXCEPT ![r] = [state |-> "denied"]] /\ UNCHANGED inflight
        BY <1>1, <2>3, <3>5, SameCardinality, MembershipAssumption DEF Member!Require, Member!Denied
      <4>2. (Cardinality(Held) <= Maximum)'
        BY <1>h, <3>1, <4>1 DEF Held
      <4> QED
        BY <1>t, <2>1, <2>3, <3>2, <4>1, <4>2 DEF MemberInv
    <3>6. CASE Member!Purged[k] = Member!None /\ inflight[k] = Member!None /\ ~ Cardinality(Member!Occupied) >= Maximum
      <4>1. /\ request' = [request EXCEPT ![r] = [state |-> "waiting", key |-> k, asked |-> now]]
            /\ inflight' = [inflight EXCEPT ![k] = [state |-> "running"]]
        BY <1>1, <2>3, <3>6, SameCardinality, MembershipAssumption DEF Member!Require, Member!Waits
      <4>2. Held' \subseteq Member!Occupied \cup {k} /\ Member!Occupied \in SUBSET Keys /\ Held' \in SUBSET Keys
        BY <1>t, <3>1, <4>1 DEF Held, Member!Occupied
      <4>3. /\ Cardinality(Held') <= Cardinality(Member!Occupied \cup {k})
            /\ Cardinality(Member!Occupied \cup {k}) <= Cardinality(Member!Occupied) + 1
            /\ Cardinality(Member!Occupied) \in Nat /\ Cardinality(Held') \in Nat
            /\ Cardinality(Member!Occupied \cup {k}) \in Nat
        BY <4>2, HeldFinite
      <4>4. Cardinality(Held') <= Maximum
        BY <3>6, <4>3, MembershipAssumption
      <4>5. (\A j \in Keys : LookupSound(j))' /\ inflight' = [j \in Keys |-> inflight'[j]] /\ inflight'[k] # Member!None
        BY <1>t, <2>1, <2>3, <4>1 DEF MemberInv
      <4>6. (\A q \in Requests : RequestSound(q))'
        BY <1>t, <2>1, <4>1 DEF MemberInv
      <4>7. Member!EvidenceIsCurrent'
        BY <1>t, <2>1, <4>1 DEF MemberInv
      <4>8. request' = [q \in Requests |-> request'[q]]
        BY <1>t, <4>1 DEF MemberInv
      <4> QED
        BY <1>t, <2>1, <2>3, <3>2, <4>4, <4>5, <4>6, <4>7, <4>8 DEF MemberInv
    <3> QED
      BY <3>3, <3>4, <3>5, <3>6
  <2> QED
    BY <2>2, <2>3
<1>2. ASSUME NEW k \in Keys, Member!Looked(k) PROVE MemberInv'
  <2>0. PICK member \in BOOLEAN, expires \in now..(now + MaxTtl) :
          LET f == [member |-> member, expires |-> expires, at |-> now]
          IN  /\ inflight' = [inflight EXCEPT ![k] = [state |-> "done", found |-> f]]
              /\ cache' = IF closed = "open" /\ expires > now
                          THEN [cache EXCEPT ![k] = [state |-> "kept", found |-> f,
                                                     until |-> Member!Earlier(expires, now + Cap)]]
                          ELSE cache
    BY <1>2 DEF Member!Looked
  <2>1. PICK found :
          /\ found = [member |-> member, expires |-> expires, at |-> now]
          /\ inflight' = [inflight EXCEPT ![k] = [state |-> "done", found |-> found]]
          /\ cache' = IF closed = "open" /\ expires > now
                      THEN [cache EXCEPT ![k] = [state |-> "kept", found |-> found,
                                                 until |-> Member!Earlier(expires, now + Cap)]]
                      ELSE cache
    BY <2>0
  <2>2. inflight[k].state = "running" /\ UNCHANGED <<now, request, closed>>
    BY <1>2 DEF Member!Looked
  <2>3. Held' \subseteq Held
    BY <1>t, <2>1, <2>2 DEF Held
  <2>4. \A j \in Keys : j # k => inflight'[j] = inflight[j] /\ cache'[j] = cache[j]
    BY <1>t, <2>1
  <2>5. /\ inflight'[k] = [state |-> "done", found |-> found] /\ inflight' = [j \in Keys |-> inflight'[j]]
        /\ cache' = [j \in Keys |-> cache'[j]]
    BY <1>t, <2>1
  <2>6. expires \in Nat /\ now + Cap \in Nat
    BY <1>t, <2>1, MembershipAssumption
  <2>7. (\A j \in Keys : LookupSound(j) /\ KeptSound(j))'
    BY <1>t, <2>1, <2>2, <2>4, <2>5, <2>6 DEF MemberInv
  <2>8. (\A q \in Requests : RequestSound(q))' /\ Member!EvidenceIsCurrent'
    BY <2>2, <2>4, <2>5 DEF MemberInv
  <2>9. closed = "open"
    BY <2>2 DEF MemberInv
  <2>10. (Cardinality(Held) <= Maximum)'
    BY <1>h, <2>3
  <2>11. cache' = [j \in Keys |-> cache'[j]]
    BY <2>5
  <2> QED
    BY <1>t, <2>2, <2>5, <2>7, <2>8, <2>9, <2>10, <2>11 DEF MemberInv
<1>3. ASSUME NEW k \in Keys, Member!LookupFails(k) PROVE MemberInv'
  <2>1. Held' \subseteq Held
    BY <1>t, <1>3 DEF Held, Member!LookupFails
  <2> QED
    BY <1>t, <1>h, <1>3, <2>1 DEF MemberInv, Member!LookupFails
<1>4. ASSUME NEW k \in Keys, Member!Settle(k) PROVE MemberInv'
  <2>1. /\ inflight[k].state \in {"done", "failed"} /\ UNCHANGED <<now, cache, closed>>
        /\ inflight' = [inflight EXCEPT ![k] = Member!None]
        /\ request' = [r \in Requests |-> request'[r]]
    BY <1>4 DEF Member!Settle
  <2>2. ASSUME NEW r \in Requests, r \notin Member!Waiting(k) PROVE request'[r] = request[r]
    BY <1>4, <2>2 DEF Member!Settle
  <2>w. \A r \in Requests : r \in Member!Waiting(k) <=> request[r].state = "waiting" /\ request[r].key = k
    BY DEF Member!Waiting
  <2>3. ASSUME NEW r \in Requests, request[r].state = "waiting", request[r].key = k
        PROVE  /\ request'[r].state \in {"denied", "accepted"}
               /\ request'[r].state = "accepted" =>
                    /\ inflight[k].state = "done" /\ inflight[k].found.member
                    /\ request'[r].asked = request[r].asked /\ request'[r].found = inflight[k].found
    <3>w. r \in Member!Waiting(k)
      BY <2>w, <2>3
    <3>1. CASE inflight[k].state = "done" /\ closed = "open"
      <4>1. request'[r] = Member!Verdict(r, inflight[k].found, request[r].asked)[r]
        BY <1>4, <3>w, <3>1 DEF Member!Settle
      <4> QED
        BY <1>t, <3>1, <4>1 DEF Member!Verdict
    <3>2. CASE ~ (inflight[k].state = "done" /\ closed = "open")
      BY <1>4, <3>w, <3>2 DEF Member!Settle
    <3> QED
      BY <3>1, <3>2
  <2>4. (\A r \in Requests : RequestSound(r))'
    <3> SUFFICES ASSUME NEW r \in Requests PROVE RequestSound(r)'
      OBVIOUS
    <3>1. CASE r \in Member!Waiting(k)
      <4>1. request[r].state = "waiting" /\ request[r].key = k
        BY <2>w, <3>1
      <4>2. request'[r].state \in {"denied", "accepted"}
        BY <2>3, <4>1
      <4> QED
        BY <4>2
    <3>2. CASE r \notin Member!Waiting(k)
      <4>1. request'[r] = request[r] /\ (request[r].state = "waiting" => request[r].key # k)
        BY <2>2, <3>2 DEF Member!Waiting
      <4> QED
        BY <1>t, <2>1, <4>1 DEF MemberInv
    <3> QED
      BY <3>1, <3>2
  <2>5. Member!EvidenceIsCurrent'
    <3> SUFFICES ASSUME NEW r \in Requests, request'[r].state = "accepted"
                 PROVE  LET found == request'[r].found
                        IN  /\ found.member
                            /\ found.at >= request'[r].asked
                               \/ request'[r].asked < Member!Earlier(found.expires, found.at + Cap)
      OBVIOUS
    <3>1. CASE r \in Member!Waiting(k)
      <4>1. /\ inflight[k].state = "done" /\ inflight[k].found.member
            /\ request'[r].asked = request[r].asked /\ request'[r].found = inflight[k].found
        BY <2>3, <2>w, <3>1
      <4>2. inflight[k].found.at = now /\ request[r].asked <= now /\ request[r].asked \in Nat
        BY <3>1, <4>1 DEF MemberInv, Member!Waiting
      <4> QED
        BY <1>t, <4>1, <4>2
    <3>2. CASE r \notin Member!Waiting(k)
      <4>1. request'[r] = request[r]
        BY <2>2, <3>2
      <4> QED
        BY <4>1 DEF MemberInv
    <3> QED
      BY <3>1, <3>2
  <2>6. Held' \subseteq Held
    BY <1>t, <2>1 DEF Held
  <2>7. (Cardinality(Held) <= Maximum)'
    BY <1>h, <2>6
  <2> QED
    BY <1>t, <2>1, <2>4, <2>5, <2>7 DEF MemberInv
<1>5. ASSUME NEW r \in Requests, Member!Cancel(r) PROVE MemberInv'
  <2>1. Held' \subseteq Held
    BY <1>5 DEF Held, Member!Cancel
  <2> QED
    BY <1>t, <1>h, <1>5, <2>1 DEF MemberInv, Member!Cancel
<1>6. CASE Member!Close
  <2>1. Held' \subseteq Held
    BY <1>t, <1>6 DEF Held, Member!Close, MemberInv
  <2> QED
    BY <1>t, <1>h, <1>6, <2>1 DEF MemberInv, Member!Close
<1>7. CASE Member!Closed
  <2>1. Held' \subseteq Held
    BY <1>t, <1>7 DEF Held, Member!Closed, MemberInv
  <2> QED
    BY <1>t, <1>h, <1>7, <2>1 DEF MemberInv, Member!Closed
<1>8. CASE Member!Tick
  <2>1. Held' \subseteq Held
    BY <1>8 DEF Held, Member!Tick
  <2> QED
    BY <1>t, <1>h, <1>8, <2>1 DEF MemberInv, Member!Tick
<1> QED
  BY <1>1, <1>2, <1>3, <1>4, <1>5, <1>6, <1>7, <1>8 DEF Member!Next

\* The invariant is what is promised of membership.
LEMMA MemberMeans == MemberInv => Member!MembershipIsCurrent
<1> SUFFICES ASSUME MemberInv PROVE Member!MembershipIsCurrent
  OBVIOUS
<1>1. Member!Cardinality({k \in Keys : cache[k] # Member!None \/ inflight[k] # Member!None}) <= Maximum
  BY SameCardinality DEF MemberInv, Held
<1>2. closed = "closed" => \A k \in Keys : cache[k] = Member!None /\ inflight[k] = Member!None
  BY DEF MemberInv
<1>3. closed = "closed" => \A r \in Requests : ~Member!Is(request, r, "waiting")
  BY <1>2 DEF MemberInv, RequestSound, Member!Is
<1>4. Member!EvidenceIsCurrent
  BY DEF MemberInv
<1> QED
  BY <1>1, <1>2, <1>3, <1>4 DEF Member!MembershipIsCurrent, Member!EvidenceIsContained

-----------------------------------------------------------------------------
(***************************************************************************)
(* DnsService: what is counted is what is held.                            *)
(***************************************************************************)

\* A query in one of these states holds a place.
Taken == {"queued", "executing", "ready", "writing", "ended"}
UdpHeld == {d \in Datagrams : udp[d] \in {"queued", "executing", "lost", "sent"}}
UdpRunning == {d \in Datagrams : udp[d] \in {"executing"}}
Slots == Conns \X Ids
Of(q) == pending[q[1]][q[2]]
TcpHeld == {q \in Slots : Of(q) \in Taken}
TcpRunning == {q \in Slots : Of(q) \in {"executing"}}
ConnHeld == {c \in Conns : conn[c] \in {"open", "finishing", "abandoned", "ended"}}

ServiceTypes ==
    /\ accepted \in Int /\ connections \in Int
    /\ udp \in [Datagrams -> {"none", "dropped", "queued", "executing", "lost", "sent", "gone"}]
    /\ conn \in [Conns -> {"none", "refused", "open", "finishing", "abandoned", "ended", "gone"}]
    /\ pending \in [Conns -> [Ids -> Taken \cup {"none"}]]
    /\ owed \in [Conns -> SUBSET Ids]
    /\ failed \in [Conns -> BOOLEAN]
    /\ asked \in [Conns -> [Ids -> Nat]] /\ answered \in [Conns -> [Ids -> Nat]]
    /\ server \in {"open", "closing", "closed"}

\* The queries that a connection can have, by the state of the connection and of the server.
ConnSound(c) ==
    /\ conn[c] \in {"none", "refused", "ended", "gone"} => \A i \in Ids : pending[c][i] = "none"
    /\ conn[c] \in {"finishing", "abandoned"} => \A i \in Ids : pending[c][i] \in {"none", "ended"}
    /\ conn[c] = "finishing" => \A i \in Ids : pending[c][i] = "ended" => i \in owed[c]
    /\ conn[c] = "none" => ~failed[c] /\ \A i \in Ids : asked[c][i] = 0 /\ answered[c][i] = 0
    /\ server # "open" => conn[c] # "open"
    /\ server = "closed" => conn[c] \in {"none", "refused", "gone"}
\* The datagrams that a server can have, by its state.
DatagramSound(d) ==
    /\ server # "open" => udp[d] \notin {"queued", "executing"}
    /\ server = "closed" => udp[d] \in {"none", "dropped", "gone"}

\* A query whose answer is still to be written; every other query that was asked is answered,
\* unless a write failed.
Awaited(c, i) == Bit(pending[c][i] \in {"queued", "executing", "ready"})
AnswerSound(c, i) ==
    /\ answered[c][i] + Awaited(c, i) <= asked[c][i]
    /\ conn[c] = "open" /\ ~failed[c] => asked[c][i] = answered[c][i] + Awaited(c, i)

\* The counters count, and stay within the limits.
CapacitySound ==
    /\ accepted = Cardinality(UdpHeld) + Cardinality(TcpHeld)
    /\ connections = Cardinality(ConnHeld)
    /\ accepted <= MaxAccepted /\ connections <= MaxConnections
    /\ Cardinality(UdpRunning) + Cardinality(TcpRunning) <= MaxExecuting

ServiceInv ==
    /\ ServiceTypes
    /\ \A c \in Conns : ConnSound(c)
    /\ \A d \in Datagrams : DatagramSound(d)
    /\ \A c \in Conns, i \in Ids : AnswerSound(c, i)
    /\ CapacitySound

\* What the service holds is finite.
LEMMA ServiceFinite ==
    /\ IsFiniteSet(UdpHeld) /\ Cardinality(UdpHeld) \in Nat
    /\ IsFiniteSet(UdpRunning) /\ Cardinality(UdpRunning) \in Nat
    /\ IsFiniteSet(TcpHeld) /\ Cardinality(TcpHeld) \in Nat
    /\ IsFiniteSet(TcpRunning) /\ Cardinality(TcpRunning) \in Nat
    /\ IsFiniteSet(ConnHeld) /\ Cardinality(ConnHeld) \in Nat
    /\ IsFiniteSet(Slots)
<1>1. IsFiniteSet(Slots)
  BY ServiceAssumption, FS_Product DEF Slots
<1>2. /\ IsFiniteSet(UdpHeld) /\ IsFiniteSet(UdpRunning) /\ IsFiniteSet(TcpHeld)
      /\ IsFiniteSet(TcpRunning) /\ IsFiniteSet(ConnHeld)
  BY <1>1, ServiceAssumption, FS_Subset DEF UdpHeld, UdpRunning, TcpHeld, TcpRunning, ConnHeld
<1> QED
  BY <1>1, <1>2, FS_CardinalityType

\* The invariant is what is promised of the DNS service.
LEMMA ServiceMeans == ServiceInv => Service!ServiceIsSound
<1> SUFFICES ASSUME ServiceInv PROVE Service!ServiceIsSound
  OBVIOUS
<1>1. \A c \in Conns, i \in Ids : pending[c][i] \in Taken \cup {"none"}
  BY DEF ServiceInv, ServiceTypes
<1>2. {p \in Conns \X Ids : p[2] \in Service!Outstanding(p[1])} = TcpHeld
  BY <1>1 DEF TcpHeld, Of, Slots, Taken, Service!Outstanding
<1>3. {q \in Conns \X Ids : pending[q[1]][q[2]] = "executing"} = TcpRunning
  BY DEF TcpRunning, Of, Slots
<1>4. {d \in Datagrams : udp[d] = "executing"} = UdpRunning
  BY DEF UdpRunning
<1>5. Service!CapacityIsConserved
  BY <1>2, <1>3, <1>4, SameCardinality DEF ServiceInv, CapacitySound, Service!CapacityIsConserved, Service!Executing,
     UdpHeld, ConnHeld
<1>6. Service!NoSilentLoss
  BY DEF ServiceInv, ServiceTypes, AnswerSound, Awaited, Bit, Service!NoSilentLoss
<1>7. Service!ClosedIsEmpty
  <2> SUFFICES ASSUME server = "closed"
               PROVE  /\ accepted = 0 /\ connections = 0
                      /\ \A d \in Datagrams : udp[d] \notin {"queued", "executing"}
                      /\ \A c \in Conns : Service!Outstanding(c) = {}
    BY DEF Service!ClosedIsEmpty
  <2>1. \A c \in Conns : conn[c] \in {"none", "refused", "gone"} /\ \A i \in Ids : pending[c][i] = "none"
    BY DEF ServiceInv, ConnSound
  <2>2. \A d \in Datagrams : udp[d] \in {"none", "dropped", "gone"}
    BY DEF ServiceInv, DatagramSound
  <2>3. UdpHeld = {} /\ TcpHeld = {} /\ ConnHeld = {}
    BY <2>1, <2>2 DEF UdpHeld, TcpHeld, ConnHeld, Of, Slots, Taken
  <2>4. accepted = 0 /\ connections = 0
    BY <2>3, FS_EmptySet DEF ServiceInv, CapacitySound
  <2> QED
    BY <2>1, <2>2, <2>4 DEF Service!Outstanding
<1> QED
  BY <1>5, <1>6, <1>7 DEF Service!ServiceIsSound

\* The invariant holds at first.
LEMMA ServiceInit == Service!Init => ServiceInv
<1> SUFFICES ASSUME Service!Init PROVE ServiceInv
  OBVIOUS
<1> USE DEF Service!Init
<1>1. UdpHeld = {} /\ TcpHeld = {} /\ ConnHeld = {} /\ UdpRunning = {} /\ TcpRunning = {}
  BY DEF UdpHeld, TcpHeld, ConnHeld, UdpRunning, TcpRunning, Of, Slots, Taken
<1>2. CapacitySound
  BY <1>1, FS_EmptySet, ServiceAssumption DEF CapacitySound
<1>3. ServiceTypes
  BY DEF ServiceTypes, Taken
<1>4. \A c \in Conns, i \in Ids : AnswerSound(c, i)
  BY DEF AnswerSound, Awaited, Bit
<1> QED
  BY <1>2, <1>3, <1>4 DEF ServiceInv, ConnSound, DatagramSound

\* A datagram takes another state; nothing of the connections changes.
LEMMA DatagramMoves ==
  ASSUME ServiceInv, NEW d \in Datagrams, NEW s, udp' = [udp EXCEPT ![d] = s],
         UNCHANGED <<connections, conn, pending, owed, failed, asked, answered, server>>,
         s \in {"none", "dropped", "queued", "executing", "lost", "sent", "gone"},
         s \in {"queued", "executing"} => server = "open",
         server = "closed" => s = "gone",
         s = "executing" => Cardinality(UdpRunning) + Cardinality(TcpRunning) < MaxExecuting,
         accepted' = accepted + Bit(s \in {"queued", "executing", "lost", "sent"})
                              - Bit(udp[d] \in {"queued", "executing", "lost", "sent"}),
         accepted' <= MaxAccepted
  PROVE  ServiceInv'
<1>1. \A x \in Datagrams : x # d => udp'[x] = udp[x]
  BY DEF ServiceInv, ServiceTypes
<1>2. udp'[d] = s
  BY DEF ServiceInv, ServiceTypes
<1>3. /\ TcpHeld' = TcpHeld /\ TcpRunning' = TcpRunning /\ ConnHeld' = ConnHeld
  BY DEF TcpHeld, TcpRunning, ConnHeld, Of, Slots
<1>4. Cardinality(UdpHeld') = Cardinality(UdpHeld) + Bit(s \in {"queued", "executing", "lost", "sent"})
                              - Bit(udp[d] \in {"queued", "executing", "lost", "sent"})
  <2>1. /\ UdpHeld \in SUBSET Datagrams /\ UdpHeld' \in SUBSET Datagrams
        /\ \A x \in Datagrams : x # d => (x \in UdpHeld <=> x \in UdpHeld')
        /\ d \in UdpHeld' <=> s \in {"queued", "executing", "lost", "sent"}
        /\ d \in UdpHeld <=> udp[d] \in {"queued", "executing", "lost", "sent"}
    BY <1>1, <1>2 DEF UdpHeld
  <2>3. IsFiniteSet(Datagrams) /\ UdpHeld \in SUBSET Datagrams /\ UdpHeld' \in SUBSET Datagrams /\ d \in Datagrams
        /\ \A x \in Datagrams : x # d => (x \in UdpHeld <=> x \in UdpHeld')
    BY <2>1, ServiceAssumption
  <2>2. Cardinality(UdpHeld') = Cardinality(UdpHeld) + Bit(d \in UdpHeld') - Bit(d \in UdpHeld)
    BY <2>3, OneMoves
  <2> QED
    BY <2>1, <2>2 DEF Bit
<1>5. Cardinality(UdpRunning') = Cardinality(UdpRunning) + Bit(s \in {"executing"}) - Bit(udp[d] \in {"executing"})
  <2>1. /\ UdpRunning \in SUBSET Datagrams /\ UdpRunning' \in SUBSET Datagrams
        /\ \A x \in Datagrams : x # d => (x \in UdpRunning <=> x \in UdpRunning')
        /\ d \in UdpRunning' <=> s \in {"executing"}
        /\ d \in UdpRunning <=> udp[d] \in {"executing"}
    BY <1>1, <1>2 DEF UdpRunning
  <2>3. IsFiniteSet(Datagrams) /\ UdpRunning \in SUBSET Datagrams /\ UdpRunning' \in SUBSET Datagrams /\ d \in Datagrams
        /\ \A x \in Datagrams : x # d => (x \in UdpRunning <=> x \in UdpRunning')
    BY <2>1, ServiceAssumption
  <2>2. Cardinality(UdpRunning') = Cardinality(UdpRunning) + Bit(d \in UdpRunning') - Bit(d \in UdpRunning)
    BY <2>3, OneMoves
  <2> QED
    BY <2>1, <2>2 DEF Bit
<1>6. Cardinality(UdpRunning') + Cardinality(TcpRunning) <= MaxExecuting
  BY <1>5, ServiceFinite, ServiceAssumption DEF Bit, ServiceInv, CapacitySound
<1>7. CapacitySound'
  BY <1>3, <1>4, <1>6, ServiceFinite, ServiceAssumption DEF Bit, ServiceInv, CapacitySound
<1>8. ServiceTypes'
  BY DEF ServiceInv, ServiceTypes, Bit
<1>9. (\A x \in Datagrams : DatagramSound(x))'
  BY <1>1, <1>2 DEF ServiceInv, DatagramSound
<1> QED
  BY <1>7, <1>8, <1>9 DEF ServiceInv, ConnSound, AnswerSound, Awaited

\* A query of a connection takes another state.
LEMMA QueryMoves ==
  ASSUME ServiceInv, NEW c \in Conns, NEW i \in Ids, NEW s \in Taken \cup {"none"},
         pending' = [pending EXCEPT ![c][i] = s],
         UNCHANGED <<connections, udp, conn, owed, server>>,
         conn[c] \in {"finishing", "abandoned"} => s \in {"none", "ended"},
         conn[c] = "finishing" => pending[c][i] # "none",
         conn[c] \notin {"none", "refused", "ended", "gone"},
         s = "executing" => Cardinality(UdpRunning) + Cardinality(TcpRunning) < MaxExecuting,
         accepted' = accepted + Bit(s \in Taken) - Bit(pending[c][i] \in Taken),
         accepted' <= MaxAccepted,
         failed' \in [Conns -> BOOLEAN], asked' \in [Conns -> [Ids -> Nat]], answered' \in [Conns -> [Ids -> Nat]],
         \A b \in Conns : b # c => failed'[b] = failed[b],
         failed[c] => failed'[c],
         \A b \in Conns, j \in Ids : <<b, j>> # <<c, i>> => asked'[b][j] = asked[b][j] /\ answered'[b][j] = answered[b][j],
         AnswerSound(c, i)'
  PROVE  ServiceInv'
<1>1. /\ \A b \in Conns, j \in Ids : <<b, j>> # <<c, i>> => pending'[b][j] = pending[b][j]
      /\ pending'[c][i] = s /\ pending[c][i] \in Taken \cup {"none"}
      /\ pending' \in [Conns -> [Ids -> Taken \cup {"none"}]]
  BY DEF ServiceInv, ServiceTypes
<1>2. \A q \in Slots : q # <<c, i>> => Of(q)' = Of(q)
  BY <1>1 DEF Of, Slots
<1>3. /\ Of(<<c, i>>) = pending[c][i] /\ Of(<<c, i>>)' = s /\ <<c, i>> \in Slots
  BY <1>1 DEF Of, Slots
<1>4. /\ UdpHeld' = UdpHeld /\ UdpRunning' = UdpRunning /\ ConnHeld' = ConnHeld
  BY DEF UdpHeld, UdpRunning, ConnHeld
<1>5. Cardinality(TcpHeld') = Cardinality(TcpHeld) + Bit(s \in Taken) - Bit(pending[c][i] \in Taken)
  <2>q. PICK q \in Slots : q = <<c, i>>
    BY <1>3
  <2>1. /\ TcpHeld \in SUBSET Slots /\ TcpHeld' \in SUBSET Slots
        /\ \A x \in Slots : x # q => (x \in TcpHeld <=> x \in TcpHeld')
        /\ q \in TcpHeld' <=> s \in Taken
        /\ q \in TcpHeld <=> pending[c][i] \in Taken
    BY <1>2, <1>3, <2>q DEF TcpHeld
  <2>2. PICK D, S, T : D = Slots /\ S = TcpHeld /\ T = TcpHeld'
    OBVIOUS
  <2>3. IsFiniteSet(D) /\ S \in SUBSET D /\ T \in SUBSET D /\ q \in D
    BY <2>1, <2>2, <2>q, ServiceFinite
  <2>4. \A x \in D : x # q => (x \in S <=> x \in T)
    BY <2>1, <2>2
  <2>5. Cardinality(T) = Cardinality(S) + Bit(q \in T) - Bit(q \in S)
    BY ONLY <2>3, <2>4, OneMoves
  <2> QED
    BY <2>1, <2>2, <2>5 DEF Bit
<1>6. Cardinality(TcpRunning') = Cardinality(TcpRunning) + Bit(s \in {"executing"}) - Bit(pending[c][i] \in {"executing"})
  <2>q. PICK q \in Slots : q = <<c, i>>
    BY <1>3
  <2>1. /\ TcpRunning \in SUBSET Slots /\ TcpRunning' \in SUBSET Slots
        /\ \A x \in Slots : x # q => (x \in TcpRunning <=> x \in TcpRunning')
        /\ q \in TcpRunning' <=> s \in {"executing"}
        /\ q \in TcpRunning <=> pending[c][i] \in {"executing"}
    BY <1>2, <1>3, <2>q DEF TcpRunning
  <2>2. PICK D, S, T : D = Slots /\ S = TcpRunning /\ T = TcpRunning'
    OBVIOUS
  <2>3. IsFiniteSet(D) /\ S \in SUBSET D /\ T \in SUBSET D /\ q \in D
    BY <2>1, <2>2, <2>q, ServiceFinite
  <2>4. \A x \in D : x # q => (x \in S <=> x \in T)
    BY <2>1, <2>2
  <2>5. Cardinality(T) = Cardinality(S) + Bit(q \in T) - Bit(q \in S)
    BY ONLY <2>3, <2>4, OneMoves
  <2> QED
    BY <2>1, <2>2, <2>5 DEF Bit
<1>7. Cardinality(UdpRunning) + Cardinality(TcpRunning') <= MaxExecuting
  BY <1>6, ServiceFinite, ServiceAssumption DEF Bit, ServiceInv, CapacitySound
<1>8. CapacitySound'
  BY <1>4, <1>5, <1>7, ServiceFinite, ServiceAssumption DEF Bit, ServiceInv, CapacitySound
<1>9. ServiceTypes'
  BY <1>1 DEF ServiceInv, ServiceTypes, Bit
<1>10. (\A b \in Conns : ConnSound(b))'
  <2> SUFFICES ASSUME NEW b \in Conns PROVE ConnSound(b)'
    OBVIOUS
  <2>1. CASE b # c
    <3>1. \A j \in Ids : pending'[b][j] = pending[b][j] /\ asked'[b][j] = asked[b][j] /\ answered'[b][j] = answered[b][j]
      BY <1>1, <2>1
    <3>2. failed'[b] = failed[b] /\ ConnSound(b)
      BY <2>1 DEF ServiceInv
    <3> QED
      BY <3>1, <3>2 DEF ConnSound
  <2>2. CASE b = c
    <3>1. conn[c] \in {"open", "finishing", "abandoned"}
      BY DEF ServiceInv, ServiceTypes
    <3>2. conn[c] \in {"finishing", "abandoned"} => \A j \in Ids : pending'[c][j] \in {"none", "ended"}
      BY <1>1 DEF ServiceInv, ConnSound
    <3>3. conn[c] = "finishing" => \A j \in Ids : pending'[c][j] = "ended" => j \in owed[c]
      BY <1>1 DEF ServiceInv, ConnSound
    <3> QED
      BY <2>2, <3>1, <3>2, <3>3 DEF ServiceInv, ConnSound
  <2> QED
    BY <2>1, <2>2
<1>11. (\A b \in Conns, j \in Ids : AnswerSound(b, j))'
  <2> SUFFICES ASSUME NEW b \in Conns, NEW j \in Ids PROVE AnswerSound(b, j)'
    OBVIOUS
  <2>1. CASE b = c /\ j = i
    BY <2>1
  <2>2. CASE ~(b = c /\ j = i)
    <3>1. pending'[b][j] = pending[b][j] /\ asked'[b][j] = asked[b][j] /\ answered'[b][j] = answered[b][j]
      BY <1>1, <2>2
    <3>2. ~failed'[b] => ~failed[b]
      BY DEF ServiceInv, ServiceTypes
    <3>3. AnswerSound(b, j)
      BY DEF ServiceInv
    <3> QED
      BY <3>1, <3>2, <3>3 DEF AnswerSound, Awaited
  <2> QED
    BY <2>1, <2>2
<1> QED
  BY <1>8, <1>9, <1>10, <1>11 DEF ServiceInv, DatagramSound

\* A connection takes another state.
LEMMA ConnectionMoves ==
  ASSUME ServiceInv, NEW c \in Conns, NEW s, conn' = [conn EXCEPT ![c] = s],
         UNCHANGED <<accepted, udp, pending, owed, failed, asked, answered, server>>,
         s \in {"refused", "open", "ended", "gone"},
         server = "closed" => s \in {"refused", "gone"},
         s = "open" => server = "open" /\ conn[c] = "none",
         \A i \in Ids : pending[c][i] = "none",
         connections' = connections + Bit(s \in {"open", "finishing", "abandoned", "ended"})
                          - Bit(conn[c] \in {"open", "finishing", "abandoned", "ended"}),
         connections' <= MaxConnections
  PROVE  ServiceInv'
<1>1. /\ \A b \in Conns : b # c => conn'[b] = conn[b]
      /\ conn'[c] = s
  BY DEF ServiceInv, ServiceTypes
<1>2. /\ UdpHeld' = UdpHeld /\ UdpRunning' = UdpRunning /\ TcpHeld' = TcpHeld /\ TcpRunning' = TcpRunning
  BY DEF UdpHeld, UdpRunning, TcpHeld, TcpRunning, Of, Slots
<1>3. Cardinality(ConnHeld') = Cardinality(ConnHeld) + Bit(s \in {"open", "finishing", "abandoned", "ended"})
                                 - Bit(conn[c] \in {"open", "finishing", "abandoned", "ended"})
  <2>1. /\ ConnHeld \in SUBSET Conns /\ ConnHeld' \in SUBSET Conns
        /\ \A b \in Conns : b # c => (b \in ConnHeld <=> b \in ConnHeld')
        /\ c \in ConnHeld' <=> s \in {"open", "finishing", "abandoned", "ended"}
        /\ c \in ConnHeld <=> conn[c] \in {"open", "finishing", "abandoned", "ended"}
    BY <1>1 DEF ConnHeld
  <2>3. IsFiniteSet(Conns) /\ ConnHeld \in SUBSET Conns /\ ConnHeld' \in SUBSET Conns /\ c \in Conns
        /\ \A x \in Conns : x # c => (x \in ConnHeld <=> x \in ConnHeld')
    BY <2>1, ServiceAssumption
  <2>2. Cardinality(ConnHeld') = Cardinality(ConnHeld) + Bit(c \in ConnHeld') - Bit(c \in ConnHeld)
    BY <2>3, OneMoves
  <2> QED
    BY <2>1, <2>2 DEF Bit
<1>4. CapacitySound'
  BY <1>2, <1>3, ServiceFinite, ServiceAssumption DEF Bit, ServiceInv, CapacitySound
<1>5. ServiceTypes'
  BY DEF ServiceInv, ServiceTypes, Bit
<1>6. (\A b \in Conns : ConnSound(b))'
  BY <1>1 DEF ServiceInv, ConnSound
<1>7. (\A b \in Conns, j \in Ids : AnswerSound(b, j))'
  BY <1>1 DEF ServiceInv, ServiceTypes, ConnSound, AnswerSound, Awaited, Bit
<1> QED
  BY <1>4, <1>5, <1>6, <1>7 DEF ServiceInv, DatagramSound

\* The finally clause of a connection begins.
LEMMA FinishingStarts ==
  ASSUME ServiceInv, NEW c \in Conns, conn[c] = "open", Service!Finishing(c),
         failed' \in [Conns -> BOOLEAN], \A b \in Conns : b # c => failed'[b] = failed[b]
  PROVE  ServiceInv'
<1>1. /\ \A b \in Conns : b # c => conn'[b] = conn[b] /\ pending'[b] = pending[b] /\ owed'[b] = owed[b]
      /\ conn'[c] = "finishing" /\ owed'[c] = Service!Outstanding(c)
      /\ conn' \in [Conns -> {"none", "refused", "open", "finishing", "abandoned", "ended", "gone"}]
      /\ owed' \in [Conns -> SUBSET Ids]
      /\ UNCHANGED <<accepted, connections, udp, asked, answered, server>>
  BY DEF ServiceInv, ServiceTypes, Service!Finishing, Service!Outstanding
<1>2. /\ \A i \in Ids : pending'[c][i] = IF pending[c][i] # "none" THEN "ended" ELSE "none"
      /\ pending' \in [Conns -> [Ids -> Taken \cup {"none"}]]
  <2>1. \A i \in Ids : i \in Service!Outstanding(c) <=> pending[c][i] # "none"
    BY DEF Service!Outstanding
  <2>2. pending' = [pending EXCEPT ![c] = Service!Cancelled(c)]
    BY DEF Service!Finishing
  <2>3. /\ \A i \in Ids : Service!Cancelled(c)[i] = IF pending[c][i] # "none" THEN "ended" ELSE "none"
        /\ Service!Cancelled(c) \in [Ids -> Taken \cup {"none"}]
    BY <2>1 DEF Service!Cancelled, Taken
  <2> QED
    BY <2>2, <2>3 DEF ServiceInv, ServiceTypes
<1>3. /\ UdpHeld' = UdpHeld /\ UdpRunning' = UdpRunning
  BY <1>1 DEF UdpHeld, UdpRunning
<1>4. ConnHeld' = ConnHeld
  BY <1>1 DEF ConnHeld
<1>5. /\ TcpHeld' = TcpHeld /\ TcpRunning' \subseteq TcpRunning
  <2> SUFFICES ASSUME NEW b \in Conns, NEW j \in Ids
               PROVE  /\ pending'[b][j] \in Taken <=> pending[b][j] \in Taken
                      /\ pending'[b][j] = "executing" => pending[b][j] = "executing"
    BY DEF TcpHeld, TcpRunning, Of, Slots
  <2>1. pending[b][j] \in Taken \cup {"none"}
    BY DEF ServiceInv, ServiceTypes
  <2> QED
    BY <1>1, <1>2, <2>1 DEF Taken
<1>6. Cardinality(TcpRunning') <= Cardinality(TcpRunning) /\ Cardinality(TcpRunning') \in Nat
  BY <1>5, ServiceFinite, FS_Subset, FS_CardinalityType
<1>7. CapacitySound'
  BY <1>1, <1>3, <1>4, <1>5, <1>6, ServiceFinite, ServiceAssumption DEF ServiceInv, CapacitySound
<1>8. ServiceTypes'
  BY <1>1, <1>2 DEF ServiceInv, ServiceTypes
<1>9. (\A b \in Conns : ConnSound(b))'
  <2> SUFFICES ASSUME NEW b \in Conns PROVE ConnSound(b)'
    OBVIOUS
  <2>1. CASE b # c
    BY <1>1, <2>1 DEF ServiceInv, ConnSound
  <2>2. CASE b = c
    BY <1>1, <1>2, <2>2 DEF ServiceInv, ConnSound, Service!Outstanding
  <2> QED
    BY <2>1, <2>2
<1>10. (\A b \in Conns, j \in Ids : AnswerSound(b, j))'
  <2> SUFFICES ASSUME NEW b \in Conns, NEW j \in Ids PROVE AnswerSound(b, j)'
    OBVIOUS
  <2>0. AnswerSound(b, j) /\ asked[b][j] \in Nat /\ answered[b][j] \in Nat
    BY DEF ServiceInv, ServiceTypes
  <2>1. CASE b # c
    BY <1>1, <2>0, <2>1 DEF AnswerSound, Awaited
  <2>2. CASE b = c
    BY <1>1, <1>2, <2>0, <2>2 DEF AnswerSound, Awaited, Bit
  <2> QED
    BY <2>1, <2>2
<1> QED
  BY <1>1, <1>7, <1>8, <1>9, <1>10 DEF ServiceInv, DatagramSound

\* Every step of the DNS service keeps the invariant.
LEMMA ServiceStep == ServiceInv /\ Service!Next => ServiceInv'
<1> SUFFICES ASSUME ServiceInv, Service!Next PROVE ServiceInv'
  OBVIOUS
<1>t. ServiceTypes
  BY DEF ServiceInv
<1>f. CapacitySound /\ Cardinality(UdpHeld) \in Nat /\ Cardinality(TcpHeld) \in Nat /\ Cardinality(ConnHeld) \in Nat
  BY ServiceFinite DEF ServiceInv
<1>r. Service!Executing = Cardinality(UdpRunning) + Cardinality(TcpRunning)
  <2>1. {q \in Conns \X Ids : pending[q[1]][q[2]] = "executing"} = TcpRunning
    BY DEF TcpRunning, Of, Slots
  <2>2. {d \in Datagrams : udp[d] = "executing"} = UdpRunning
    BY DEF UdpRunning
  <2> QED
    BY <2>1, <2>2, SameCardinality DEF Service!Executing
<1> USE ServiceAssumption
<1>1. ASSUME NEW d \in Datagrams, Service!Datagram(d) PROVE ServiceInv'
  <2>1. PICK s \in {"dropped", "queued"} :
          /\ udp' = [udp EXCEPT ![d] = s] /\ UNCHANGED <<connections, conn, pending, owed, failed, asked, answered, server>>
          /\ udp[d] = "none" /\ server = "open"
          /\ accepted' = accepted + Bit(s = "queued") /\ (s = "queued" => accepted < MaxAccepted)
    BY <1>1, <1>t DEF Service!Datagram, Service!Udp, Service!Admits, Service!queries, Bit, ServiceTypes
  <2>2. /\ accepted' = accepted + Bit(s \in {"queued", "executing", "lost", "sent"})
                                - Bit(udp[d] \in {"queued", "executing", "lost", "sent"})
        /\ accepted' <= MaxAccepted
    BY <1>t, <1>f, <2>1 DEF Bit, ServiceTypes, CapacitySound
  <2> QED
    BY <2>1, <2>2, DatagramMoves
<1>2. ASSUME NEW d \in Datagrams, Service!UdpExecutes(d) PROVE ServiceInv'
  <2>1. /\ udp' = [udp EXCEPT ![d] = "executing"] /\ UNCHANGED <<connections, conn, pending, owed, failed, asked, answered, server>>
        /\ udp[d] = "queued" /\ UNCHANGED accepted
        /\ Cardinality(UdpRunning) + Cardinality(TcpRunning) < MaxExecuting
    BY <1>2, <1>r DEF Service!UdpExecutes, Service!Udp, Service!queries
  <2>2. /\ accepted' = accepted + Bit("executing" \in {"queued", "executing", "lost", "sent"})
                                - Bit(udp[d] \in {"queued", "executing", "lost", "sent"})
        /\ accepted' <= MaxAccepted
    BY <1>t, <1>f, <2>1 DEF Bit, ServiceTypes, CapacitySound
  <2>3. server = "open"
    BY <1>t, <2>1 DEF ServiceInv, DatagramSound, ServiceTypes
  <2> QED
    BY <2>1, <2>2, <2>3, DatagramMoves
<1>3. ASSUME NEW d \in Datagrams, Service!UdpEnds(d) PROVE ServiceInv'
  <2>1. PICK s \in {"lost", "sent"} :
          /\ udp' = [udp EXCEPT ![d] = s] /\ UNCHANGED <<connections, conn, pending, owed, failed, asked, answered, server>>
          /\ udp[d] \in {"queued", "executing"} /\ UNCHANGED accepted
    BY <1>3 DEF Service!UdpEnds, Service!Udp, Service!queries
  <2>2. /\ accepted' = accepted + Bit(s \in {"queued", "executing", "lost", "sent"})
                                - Bit(udp[d] \in {"queued", "executing", "lost", "sent"})
        /\ accepted' <= MaxAccepted
    BY <1>t, <1>f, <2>1 DEF Bit, ServiceTypes, CapacitySound
  <2>3. server = "open"
    BY <1>t, <2>1 DEF ServiceInv, DatagramSound, ServiceTypes
  <2> QED
    BY <2>1, <2>2, <2>3, DatagramMoves
<1>4. ASSUME NEW d \in Datagrams, Service!UdpCompleted(d) PROVE ServiceInv'
  <2>1. /\ udp' = [udp EXCEPT ![d] = "gone"] /\ UNCHANGED <<connections, conn, pending, owed, failed, asked, answered, server>>
        /\ udp[d] \in {"lost", "sent"} /\ accepted' = accepted - 1
    BY <1>4 DEF Service!UdpCompleted, Service!Udp, Service!queries
  <2>2. /\ accepted' = accepted + Bit("gone" \in {"queued", "executing", "lost", "sent"})
                                - Bit(udp[d] \in {"queued", "executing", "lost", "sent"})
        /\ accepted' <= MaxAccepted
    BY <1>t, <1>f, <2>1 DEF Bit, ServiceTypes, CapacitySound
  <2> QED
    BY <2>1, <2>2, DatagramMoves
<1>5. ASSUME NEW c \in Conns, Service!Connect(c) PROVE ServiceInv'
  <2>1. PICK s \in {"refused", "open"} :
          /\ conn' = [conn EXCEPT ![c] = s] /\ UNCHANGED <<accepted, udp, pending, owed, failed, asked, answered, server>>
          /\ conn[c] = "none" /\ server = "open"
          /\ connections' = connections + Bit(s = "open") /\ (s = "open" => connections < MaxConnections)
    BY <1>5, <1>t, <1>f DEF Service!Connect, Service!queries, Bit, ServiceTypes, CapacitySound
  <2>2. /\ connections' = connections + Bit(s \in {"open", "finishing", "abandoned", "ended"})
                          - Bit(conn[c] \in {"open", "finishing", "abandoned", "ended"})
        /\ connections' <= MaxConnections
    BY <1>t, <1>f, <2>1 DEF Bit, ServiceTypes, CapacitySound
  <2>3. \A i \in Ids : pending[c][i] = "none"
    BY <2>1 DEF ServiceInv, ConnSound
  <2> QED
    BY <2>1, <2>2, <2>3, ConnectionMoves
<1>6. ASSUME NEW c \in Conns, Service!Breaks(c) PROVE ServiceInv'
  <2>1. conn[c] = "open" /\ Service!Finishing(c) /\ \E resets \in BOOLEAN : failed' = [failed EXCEPT ![c] = failed[c] \/ resets]
    BY <1>6 DEF Service!Breaks
  <2>2. failed' \in [Conns -> BOOLEAN] /\ \A b \in Conns : b # c => failed'[b] = failed[b]
    BY <1>t, <2>1 DEF ServiceTypes
  <2> QED
    BY <2>1, <2>2, FinishingStarts
<1>7. ASSUME NEW c \in Conns, NEW i \in Ids, Service!Frame(c, i) PROVE ServiceInv'
  <2> DEFINE Refused == i \in Service!Outstanding(c) \/ Service!Cardinality(Service!Outstanding(c)) >= MaxOutstanding \/ ~Service!Admits
  <2>1. CASE Refused
    <3>1. conn[c] = "open" /\ Service!Finishing(c) /\ failed' = [failed EXCEPT ![c] = TRUE]
      BY <1>7, <2>1 DEF Service!Frame
    <3>2. failed' \in [Conns -> BOOLEAN] /\ \A b \in Conns : b # c => failed'[b] = failed[b]
      BY <1>t, <3>1 DEF ServiceTypes
    <3> QED
      BY <3>1, <3>2, FinishingStarts
  <2>2. CASE ~Refused
    <3>1. /\ conn[c] = "open" /\ server = "open" /\ pending[c][i] = "none" /\ accepted < MaxAccepted
          /\ accepted' = accepted + 1
          /\ pending' = [pending EXCEPT ![c][i] = "queued"]
          /\ asked' = [asked EXCEPT ![c][i] = asked[c][i] + 1]
          /\ UNCHANGED <<connections, udp, conn, owed, failed, answered, server>>
      BY <1>7, <2>2 DEF Service!Frame, Service!Outstanding, Service!Admits
    <3>2. /\ asked' \in [Conns -> [Ids -> Nat]] /\ asked'[c][i] = asked[c][i] + 1
          /\ \A b \in Conns, j \in Ids : <<b, j>> # <<c, i>> => asked'[b][j] = asked[b][j]
          /\ pending'[c][i] = "queued"
      BY <1>t, <3>1 DEF ServiceTypes
    <3>3. AnswerSound(c, i) /\ asked[c][i] \in Nat /\ answered[c][i] \in Nat
      BY <1>t DEF ServiceInv, ServiceTypes
    <3>4. AnswerSound(c, i)'
      BY <3>1, <3>2, <3>3 DEF AnswerSound, Awaited, Bit
    <3>5. /\ accepted' = accepted + Bit("queued" \in Taken) - Bit(pending[c][i] \in Taken)
          /\ accepted' <= MaxAccepted /\ "queued" \in Taken \cup {"none"}
      BY <1>t, <3>1 DEF ServiceTypes, Bit, Taken
    <3>6. failed' \in [Conns -> BOOLEAN] /\ answered' \in [Conns -> [Ids -> Nat]]
      BY <1>t, <3>1 DEF ServiceTypes
    <3> QED
      BY <3>1, <3>2, <3>4, <3>5, <3>6, QueryMoves
  <2> HIDE DEF Refused
  <2> QED
    BY <2>1, <2>2
<1>q. ASSUME NEW c \in Conns, NEW i \in Ids, NEW s \in Taken, Service!Query(c, i, s), pending[c][i] \in Taken,
             pending[c][i] # "ended",
             s = "executing" => Cardinality(UdpRunning) + Cardinality(TcpRunning) < MaxExecuting,
             failed' \in [Conns -> BOOLEAN], answered' \in [Conns -> [Ids -> Nat]],
             \A b \in Conns : b # c => failed'[b] = failed[b], failed[c] => failed'[c],
             \A b \in Conns, j \in Ids : <<b, j>> # <<c, i>> => answered'[b][j] = answered[b][j],
             \/ UNCHANGED answered /\ failed'[c] /\ s = "ended"
             \/ UNCHANGED <<answered, failed>> /\ Bit(s \in {"queued", "executing", "ready"}) = Awaited(c, i)
             \/ /\ UNCHANGED failed /\ answered'[c][i] = answered[c][i] + 1
                /\ Bit(s \in {"queued", "executing", "ready"}) + 1 = Awaited(c, i)
      PROVE  ServiceInv'
  <2>1. /\ pending' = [pending EXCEPT ![c][i] = s]
        /\ UNCHANGED <<accepted, connections, udp, conn, owed, asked, server>>
    BY <1>q DEF Service!Query
  <2>2. conn[c] = "open"
    BY <1>t, <1>q DEF ServiceInv, ConnSound, ServiceTypes, Taken
  <2>3. /\ accepted' = accepted + Bit(s \in Taken) - Bit(pending[c][i] \in Taken)
        /\ accepted' <= MaxAccepted
    BY <1>t, <1>f, <1>q, <2>1 DEF Bit, ServiceTypes, CapacitySound
  <2>4. AnswerSound(c, i) /\ asked[c][i] \in Nat /\ answered[c][i] \in Nat /\ failed[c] \in BOOLEAN
    BY <1>t DEF ServiceInv, ServiceTypes
  <2>5. pending'[c][i] = s /\ asked' = asked /\ conn' = conn /\ asked' \in [Conns -> [Ids -> Nat]]
    BY <1>t, <2>1 DEF ServiceTypes
  <2>6. AnswerSound(c, i)'
    <3>1. CASE UNCHANGED answered /\ failed'[c] /\ s = "ended"
      BY <3>1, <2>4, <2>5 DEF AnswerSound, Awaited, Bit
    <3>2. CASE UNCHANGED <<answered, failed>> /\ Bit(s \in {"queued", "executing", "ready"}) = Awaited(c, i)
      BY <3>2, <2>2, <2>4, <2>5 DEF AnswerSound, Awaited
    <3>3. CASE /\ UNCHANGED failed /\ answered'[c][i] = answered[c][i] + 1
               /\ Bit(s \in {"queued", "executing", "ready"}) + 1 = Awaited(c, i)
      BY <3>3, <2>2, <2>4, <2>5 DEF AnswerSound, Awaited, Bit
    <3> QED
      BY <1>q, <3>1, <3>2, <3>3
  <2>7. s \in Taken \cup {"none"}
    OBVIOUS
  <2> QED
    BY <1>q, <2>1, <2>2, <2>3, <2>5, <2>6, <2>7, QueryMoves
<1>8. ASSUME NEW c \in Conns, NEW i \in Ids, Service!Executes(c, i) PROVE ServiceInv'
  <2>1. /\ pending[c][i] = "queued" /\ Service!Query(c, i, "executing") /\ UNCHANGED <<failed, answered>>
        /\ Cardinality(UdpRunning) + Cardinality(TcpRunning) < MaxExecuting
    BY <1>8, <1>r DEF Service!Executes
  <2>2. /\ "executing" \in Taken /\ pending[c][i] \in Taken /\ Bit("executing" \in {"queued", "executing", "ready"}) = Awaited(c, i)
    BY <2>1 DEF Taken, Awaited, Bit
  <2>3. failed' \in [Conns -> BOOLEAN] /\ answered' \in [Conns -> [Ids -> Nat]]
    BY <1>t, <2>1 DEF ServiceTypes
  <2> QED
    BY <1>q, <2>1, <2>2, <2>3
<1>9. ASSUME NEW c \in Conns, NEW i \in Ids, Service!Ready(c, i) PROVE ServiceInv'
  <2>1. /\ pending[c][i] = "executing" /\ Service!Query(c, i, "ready") /\ UNCHANGED <<failed, answered>>
    BY <1>9 DEF Service!Ready
  <2>2. /\ "ready" \in Taken /\ pending[c][i] \in Taken /\ Bit("ready" \in {"queued", "executing", "ready"}) = Awaited(c, i)
    BY <2>1 DEF Taken, Awaited, Bit
  <2>3. failed' \in [Conns -> BOOLEAN] /\ answered' \in [Conns -> [Ids -> Nat]]
    BY <1>t, <2>1 DEF ServiceTypes
  <2> QED
    BY <1>q, <2>1, <2>2, <2>3
<1>10. ASSUME NEW c \in Conns, NEW i \in Ids, Service!Writes(c, i) PROVE ServiceInv'
  <2>0. pending[c][i] = "ready"
    BY <1>10 DEF Service!Writes
  <2>1. CASE failed[c]
    <3>1. Service!Query(c, i, "ended") /\ UNCHANGED <<failed, answered>>
      BY <1>10, <2>1 DEF Service!Writes
    <3>2. "ended" \in Taken /\ pending[c][i] \in Taken /\ pending[c][i] # "ended" /\ failed'[c]
      BY <2>0, <2>1, <3>1 DEF Taken
    <3>3. failed' \in [Conns -> BOOLEAN] /\ answered' \in [Conns -> [Ids -> Nat]]
      BY <1>t, <3>1 DEF ServiceTypes
    <3> QED
      BY <1>q, <3>1, <3>2, <3>3
  <2>2. CASE ~failed[c]
    <3>1. Service!Query(c, i, "writing") /\ UNCHANGED failed /\ answered' = [answered EXCEPT ![c][i] = answered[c][i] + 1]
      BY <1>10, <2>2 DEF Service!Writes
    <3>2. /\ "writing" \in Taken /\ pending[c][i] \in Taken /\ pending[c][i] # "ended"
          /\ Bit("writing" \in {"queued", "executing", "ready"}) + 1 = Awaited(c, i)
      BY <2>0 DEF Taken, Awaited, Bit
    <3>3. /\ failed' \in [Conns -> BOOLEAN] /\ answered' \in [Conns -> [Ids -> Nat]]
          /\ answered'[c][i] = answered[c][i] + 1
          /\ \A b \in Conns, j \in Ids : <<b, j>> # <<c, i>> => answered'[b][j] = answered[b][j]
      BY <1>t, <3>1 DEF ServiceTypes
    <3> QED
      BY <1>q, <3>1, <3>2, <3>3
  <2> QED
    BY <2>1, <2>2
<1>11. ASSUME NEW c \in Conns, NEW i \in Ids, Service!Drained(c, i) PROVE ServiceInv'
  <2>1. /\ pending[c][i] = "writing" /\ Service!Query(c, i, "ended") /\ UNCHANGED <<failed, answered>>
    BY <1>11 DEF Service!Drained
  <2>2. /\ "ended" \in Taken /\ pending[c][i] \in Taken /\ Bit("ended" \in {"queued", "executing", "ready"}) = Awaited(c, i)
    BY <2>1 DEF Taken, Awaited, Bit
  <2>3. failed' \in [Conns -> BOOLEAN] /\ answered' \in [Conns -> [Ids -> Nat]]
    BY <1>t, <2>1 DEF ServiceTypes
  <2> QED
    BY <1>q, <2>1, <2>2, <2>3
<1>12. ASSUME NEW c \in Conns, NEW i \in Ids, Service!Fails(c, i) PROVE ServiceInv'
  <2>1. /\ pending[c][i] \in {"queued", "executing", "ready", "writing"} /\ Service!Query(c, i, "ended")
        /\ failed' = [failed EXCEPT ![c] = TRUE] /\ UNCHANGED answered
    BY <1>12 DEF Service!Fails
  <2>2. /\ "ended" \in Taken /\ pending[c][i] \in Taken /\ pending[c][i] # "ended"
    BY <2>1 DEF Taken
  <2>3. /\ failed' \in [Conns -> BOOLEAN] /\ answered' \in [Conns -> [Ids -> Nat]] /\ failed'[c]
        /\ \A b \in Conns : b # c => failed'[b] = failed[b]
    BY <1>t, <2>1 DEF ServiceTypes
  <2> QED
    BY <1>q, <2>1, <2>2, <2>3
<1>13. ASSUME NEW c \in Conns, NEW i \in Ids, Service!Callback(c, i) PROVE ServiceInv'
  <2>1. /\ pending[c][i] = "ended" /\ accepted' = accepted - 1 /\ pending' = [pending EXCEPT ![c][i] = "none"]
        /\ UNCHANGED <<connections, udp, conn, owed, failed, asked, answered, server>>
    BY <1>13 DEF Service!Callback
  <2>2. conn[c] \notin {"none", "refused", "ended", "gone"}
    BY <2>1 DEF ServiceInv, ConnSound
  <2>3. /\ accepted' = accepted + Bit("none" \in Taken) - Bit(pending[c][i] \in Taken)
        /\ accepted' <= MaxAccepted /\ "none" \in Taken \cup {"none"}
    BY <1>t, <1>f, <2>1 DEF Bit, ServiceTypes, CapacitySound, Taken
  <2>4. /\ failed' \in [Conns -> BOOLEAN] /\ asked' \in [Conns -> [Ids -> Nat]] /\ answered' \in [Conns -> [Ids -> Nat]]
        /\ pending'[c][i] = "none"
    BY <1>t, <2>1 DEF ServiceTypes
  <2>5. AnswerSound(c, i)
    BY DEF ServiceInv
  <2>6. AnswerSound(c, i)'
    BY <2>1, <2>4, <2>5 DEF AnswerSound, Awaited, Bit
  <2> QED
    BY <2>1, <2>2, <2>3, <2>4, <2>6, QueryMoves
<1>14. ASSUME NEW c \in Conns, Service!Collected(c) PROVE ServiceInv'
  <2>1. /\ conn[c] = "finishing"
        /\ accepted' = accepted - Cardinality(Service!Collects(c))
        /\ pending' = [pending EXCEPT ![c] = [i \in Ids |-> "none"]]
        /\ owed' = [owed EXCEPT ![c] = {}]
        /\ conn' = [conn EXCEPT ![c] = "ended"]
        /\ UNCHANGED <<connections, udp, failed, asked, answered, server>>
    BY <1>14, SameCardinality DEF Service!Collected
  <2>2. PICK C \in SUBSET Ids : C = Service!Collects(c)
    BY <1>t DEF Service!Collects, ServiceTypes
  <2>3. \A i \in Ids : i \in C <=> pending[c][i] \in Taken
    BY <1>t, <2>1, <2>2 DEF ServiceInv, ConnSound, ServiceTypes, Service!Collects, Taken
  <2>4. /\ \A b \in Conns : b # c => pending'[b] = pending[b] /\ owed'[b] = owed[b] /\ conn'[b] = conn[b]
        /\ \A i \in Ids : pending'[c][i] = "none"
        /\ conn'[c] = "ended" /\ server # "closed"
        /\ ServiceTypes'
    <3>1. /\ \A b \in Conns : b # c => pending'[b] = pending[b] /\ owed'[b] = owed[b] /\ conn'[b] = conn[b]
          /\ pending'[c] = [i \in Ids |-> "none"] /\ conn'[c] = "ended" /\ server # "closed"
      <4>1. /\ pending = [b \in Conns |-> pending[b]] /\ owed = [b \in Conns |-> owed[b]]
            /\ conn = [b \in Conns |-> conn[b]]
        BY <1>t DEF ServiceTypes
      <4>2. /\ \A b \in Conns : b # c => pending'[b] = pending[b] /\ owed'[b] = owed[b] /\ conn'[b] = conn[b]
            /\ pending'[c] = [i \in Ids |-> "none"] /\ conn'[c] = "ended"
        BY <2>1, <4>1
      <4>3. server # "closed"
        BY <2>1 DEF ServiceInv, ConnSound
      <4> QED
        BY <4>2, <4>3
    <3>2. Cardinality(C) \in Nat
      BY FS_Subset, FS_CardinalityType
    <3>3. ServiceTypes'
      BY <1>t, <2>1, <2>2, <3>2 DEF ServiceTypes
    <3> QED
      BY <3>1, <3>3
  <2>r. PICK R : R = {c} \X C
    OBVIOUS
  <2>5. TcpHeld' = TcpHeld \ R /\ TcpHeld \cap R = R
    <3>1. ASSUME NEW b \in Conns, NEW i \in Ids
          PROVE  pending'[b][i] \in Taken <=> (pending[b][i] \in Taken /\ ~(b = c /\ i \in C))
      BY <2>3, <2>4 DEF Taken
    <3> QED
      BY <2>3, <2>r, <3>1 DEF TcpHeld, Of, Slots
  <2>6. Cardinality(R) = Cardinality(C) /\ Cardinality(C) \in Nat
    <3>1. IsFiniteSet({c}) /\ Cardinality({c}) = 1 /\ IsFiniteSet(C) /\ Cardinality(C) \in Nat
      BY FS_Singleton, FS_Subset, FS_CardinalityType
    <3>2. Cardinality(R) = Cardinality({c}) * Cardinality(C)
      BY <2>r, <3>1, FS_Product
    <3> QED
      BY <3>1, <3>2
  <2>7. Cardinality(TcpHeld') = Cardinality(TcpHeld) - Cardinality(C) /\ Cardinality(TcpHeld') \in Nat
    <3>0. Cardinality(TcpHeld \ R) = Cardinality(TcpHeld) - Cardinality(TcpHeld \cap R)
      BY ServiceFinite, FS_Difference
    <3>1. Cardinality(TcpHeld') = Cardinality(TcpHeld) - Cardinality(R)
      BY <2>5, <3>0
    <3>2. IsFiniteSet(TcpHeld')
      BY <2>5, ServiceFinite, FS_Difference
    <3> QED
      BY <2>6, <3>1, <3>2, FS_CardinalityType
  <2>8. TcpRunning' \subseteq TcpRunning /\ UdpHeld' = UdpHeld /\ UdpRunning' = UdpRunning /\ ConnHeld' = ConnHeld
    BY <2>1, <2>4 DEF TcpRunning, UdpHeld, UdpRunning, ConnHeld, Of, Slots, Taken
  <2>9. Cardinality(TcpRunning') <= Cardinality(TcpRunning) /\ Cardinality(TcpRunning') \in Nat
    BY <2>8, ServiceFinite, FS_Subset, FS_CardinalityType
  <2>10. CapacitySound'
    BY <1>f, <2>1, <2>2, <2>6, <2>7, <2>8, <2>9, ServiceFinite DEF CapacitySound
  <2>11. (\A b \in Conns : ConnSound(b))'
    BY <2>1, <2>4 DEF ServiceInv, ConnSound
  <2>12. (\A b \in Conns, j \in Ids : AnswerSound(b, j))'
    <3> SUFFICES ASSUME NEW b \in Conns, NEW j \in Ids PROVE AnswerSound(b, j)'
      OBVIOUS
    <3>1. AnswerSound(b, j) /\ asked[b][j] \in Nat /\ answered[b][j] \in Nat
      BY <1>t DEF ServiceInv, ServiceTypes
    <3>2. CASE b # c
      BY <2>1, <2>4, <3>1, <3>2 DEF AnswerSound, Awaited
    <3>3. CASE b = c
      BY <2>1, <2>4, <3>1, <3>3 DEF AnswerSound, Awaited, Bit
    <3> QED
      BY <3>2, <3>3
  <2> QED
    BY <2>1, <2>4, <2>10, <2>11, <2>12 DEF ServiceInv, DatagramSound
<1>15. ASSUME NEW c \in Conns, Service!Abandoned(c) PROVE ServiceInv'
  <2>1. /\ conn[c] = "abandoned" /\ conn' = [conn EXCEPT ![c] = "ended"]
        /\ UNCHANGED <<accepted, connections, udp, pending, owed, failed, asked, answered, server>>
        /\ \A i \in Ids : pending[c][i] = "none"
    BY <1>15 DEF Service!Abandoned, Service!queries, Service!Outstanding
  <2>2. /\ connections' = connections + Bit("ended" \in {"open", "finishing", "abandoned", "ended"})
                          - Bit(conn[c] \in {"open", "finishing", "abandoned", "ended"})
        /\ connections' <= MaxConnections /\ server # "closed"
    BY <1>t, <1>f, <2>1 DEF Bit, ServiceTypes, CapacitySound, ServiceInv, ConnSound
  <2> QED
    BY <2>1, <2>2, ConnectionMoves
<1>16. ASSUME NEW c \in Conns, Service!ConnectionCompleted(c) PROVE ServiceInv'
  <2>1. /\ conn[c] = "ended" /\ conn' = [conn EXCEPT ![c] = "gone"] /\ connections' = connections - 1
        /\ UNCHANGED <<accepted, udp, pending, owed, failed, asked, answered, server>>
    BY <1>16 DEF Service!ConnectionCompleted, Service!queries
  <2>2. \A i \in Ids : pending[c][i] = "none"
    BY <2>1 DEF ServiceInv, ConnSound
  <2>3. /\ connections' = connections + Bit("gone" \in {"open", "finishing", "abandoned", "ended"})
                          - Bit(conn[c] \in {"open", "finishing", "abandoned", "ended"})
        /\ connections' <= MaxConnections
    BY <1>t, <1>f, <2>1 DEF Bit, ServiceTypes, CapacitySound
  <2> QED
    BY <2>1, <2>2, <2>3, ConnectionMoves
<1>17. CASE Service!Close
  <2>1. /\ server = "open" /\ server' = "closing" /\ UNCHANGED <<accepted, connections, asked, answered>>
        /\ udp' = [d \in Datagrams |-> IF udp[d] \in {"queued", "executing"} THEN "lost" ELSE udp[d]]
        /\ failed' = [c \in Conns |-> failed[c] \/ Service!Live(c)]
        /\ pending' = [c \in Conns |-> IF conn[c] = "open" THEN Service!Cancelled(c) ELSE pending[c]]
        /\ owed' = [c \in Conns |-> IF conn[c] = "open" THEN Service!Outstanding(c) ELSE owed[c]]
    BY <1>17 DEF Service!Close
  <2>2. conn' = [c \in Conns |-> IF conn[c] = "open" THEN "finishing"
                                 ELSE IF conn[c] = "finishing" THEN "abandoned" ELSE conn[c]]
    BY <1>17 DEF Service!Close
  <2>3. /\ \A c \in Conns : conn[c] # "open" => pending'[c] = pending[c] /\ owed'[c] = owed[c]
        /\ \A c \in Conns : conn[c] = "open" =>
             \A i \in Ids : /\ pending'[c][i] = IF pending[c][i] # "none" THEN "ended" ELSE "none"
                            /\ i \in owed'[c] <=> pending[c][i] # "none"
    BY <2>1 DEF Service!Cancelled, Service!Outstanding
  <2>4. ServiceTypes'
    <3>1. pending' \in [Conns -> [Ids -> Taken \cup {"none"}]]
      <4>1. \A c \in Conns : Service!Cancelled(c) \in [Ids -> Taken \cup {"none"}]
        BY DEF Service!Cancelled, Taken
      <4> QED
        BY <1>t, <2>1, <4>1 DEF ServiceTypes
    <3>2. owed' \in [Conns -> SUBSET Ids]
      <4>1. \A c \in Conns : Service!Outstanding(c) \in SUBSET Ids
        BY DEF Service!Outstanding
      <4> QED
        BY <1>t, <2>1, <4>1 DEF ServiceTypes
    <3>3. failed' \in [Conns -> BOOLEAN]
      BY <2>1
    <3>4. conn' \in [Conns -> {"none", "refused", "open", "finishing", "abandoned", "ended", "gone"}]
      BY <1>t, <2>2 DEF ServiceTypes
    <3>5. udp' \in [Datagrams -> {"none", "dropped", "queued", "executing", "lost", "sent", "gone"}]
      BY <1>t, <2>1 DEF ServiceTypes
    <3> QED
      BY <1>t, <2>1, <3>1, <3>2, <3>3, <3>4, <3>5 DEF ServiceTypes
  <2>5. UdpHeld' = UdpHeld /\ UdpRunning' \subseteq UdpRunning
    BY <1>t, <2>1 DEF UdpHeld, UdpRunning, ServiceTypes
  <2>6. ConnHeld' = ConnHeld
    BY <1>t, <2>2 DEF ConnHeld, ServiceTypes
  <2>7. TcpHeld' = TcpHeld /\ TcpRunning' \subseteq TcpRunning
    <3> SUFFICES ASSUME NEW b \in Conns, NEW j \in Ids
                 PROVE  /\ pending'[b][j] \in Taken <=> pending[b][j] \in Taken
                        /\ pending'[b][j] = "executing" => pending[b][j] = "executing"
      BY DEF TcpHeld, TcpRunning, Of, Slots
    <3>1. pending[b][j] \in Taken \cup {"none"}
      BY <1>t DEF ServiceTypes
    <3> QED
      BY <2>3, <3>1 DEF Taken
  <2>8. /\ Cardinality(TcpRunning') <= Cardinality(TcpRunning) /\ Cardinality(TcpRunning') \in Nat
        /\ Cardinality(UdpRunning') <= Cardinality(UdpRunning) /\ Cardinality(UdpRunning') \in Nat
    BY <2>5, <2>7, ServiceFinite, FS_Subset, FS_CardinalityType
  <2>9. CapacitySound'
    BY <1>f, <2>1, <2>5, <2>6, <2>7, <2>8, ServiceFinite DEF CapacitySound
  <2>10. (\A c \in Conns : ConnSound(c))'
    <3> SUFFICES ASSUME NEW c \in Conns PROVE ConnSound(c)'
      OBVIOUS
    <3>1. ConnSound(c)
      BY DEF ServiceInv
    <3>2. CASE conn[c] = "open"
      BY <2>1, <2>2, <2>3, <3>2 DEF ConnSound
    <3>3. CASE conn[c] # "open"
      <4>1. conn[c] = "none" => failed'[c] = failed[c]
        BY <1>t, <2>1 DEF Service!Live, ServiceTypes
      <4> QED
        BY <2>1, <2>2, <2>3, <3>1, <3>3, <4>1 DEF ConnSound
    <3> QED
      BY <3>2, <3>3
  <2>11. (\A d \in Datagrams : DatagramSound(d))'
    BY <1>t, <2>1 DEF DatagramSound, ServiceTypes
  <2>12. (\A b \in Conns, j \in Ids : AnswerSound(b, j))'
    <3> SUFFICES ASSUME NEW b \in Conns, NEW j \in Ids PROVE AnswerSound(b, j)'
      OBVIOUS
    <3>1. AnswerSound(b, j) /\ asked[b][j] \in Nat /\ answered[b][j] \in Nat
      BY <1>t DEF ServiceInv, ServiceTypes
    <3>2. conn'[b] # "open"
      BY <2>2
    <3>3. Awaited(b, j)' <= Awaited(b, j) /\ Awaited(b, j) \in Nat /\ Awaited(b, j)' \in Nat
      BY <2>3 DEF Awaited, Bit
    <3> QED
      BY <2>1, <3>1, <3>2, <3>3 DEF AnswerSound
  <2> QED
    BY <2>4, <2>9, <2>10, <2>11, <2>12 DEF ServiceInv
<1>18. CASE Service!Closed
  <2>1. /\ server = "closing" /\ server' = "closed"
        /\ \A c \in Conns : conn[c] \notin {"finishing", "abandoned"}
        /\ accepted' = accepted - Cardinality({d \in Datagrams : udp[d] \in {"lost", "sent"}})
        /\ connections' = connections - Cardinality({c \in Conns : conn[c] = "ended"})
        /\ udp' = [d \in Datagrams |-> IF udp[d] \in {"lost", "sent"} THEN "gone" ELSE udp[d]]
        /\ conn' = [c \in Conns |-> IF conn[c] = "ended" THEN "gone" ELSE conn[c]]
        /\ UNCHANGED <<pending, owed, failed, asked, answered>>
    BY <1>18, SameCardinality DEF Service!Closed, Service!queries
  <2>2. /\ \A c \in Conns : conn[c] \in {"none", "refused", "ended", "gone"}
        /\ \A d \in Datagrams : udp[d] \in {"none", "dropped", "lost", "sent", "gone"}
    BY <1>t, <2>1 DEF ServiceInv, ConnSound, DatagramSound, ServiceTypes
  <2>3. {d \in Datagrams : udp[d] \in {"lost", "sent"}} = UdpHeld /\ {c \in Conns : conn[c] = "ended"} = ConnHeld
    BY <2>2 DEF UdpHeld, ConnHeld
  <2>4. UdpHeld' = {} /\ ConnHeld' = {} /\ UdpRunning' = {} /\ UdpRunning = {} /\ TcpHeld' = TcpHeld /\ TcpRunning' = TcpRunning
    BY <2>1, <2>2 DEF UdpHeld, ConnHeld, UdpRunning, TcpHeld, TcpRunning, Of, Slots
  <2>5. /\ Cardinality(UdpHeld') = 0 /\ Cardinality(ConnHeld') = 0
        /\ Cardinality(UdpRunning') = Cardinality(UdpRunning)
    BY <2>4, FS_EmptySet
  <2>6. CapacitySound'
    <3>0. /\ accepted' = accepted - Cardinality(UdpHeld) /\ connections' = connections - Cardinality(ConnHeld)
          /\ accepted = Cardinality(UdpHeld) + Cardinality(TcpHeld) /\ connections = Cardinality(ConnHeld)
          /\ Cardinality(UdpHeld) \in Nat /\ Cardinality(TcpHeld) \in Nat /\ Cardinality(ConnHeld) \in Nat
      BY <1>f, <2>1, <2>3 DEF CapacitySound
    <3>1. accepted' = Cardinality(TcpHeld) /\ connections' = 0 /\ accepted' <= accepted
      BY ONLY <3>0
    <3>2. accepted' <= MaxAccepted /\ connections' <= MaxConnections
      BY <1>f, <1>t, <3>1 DEF CapacitySound, ServiceTypes
    <3>3. Cardinality(UdpRunning') + Cardinality(TcpRunning') <= MaxExecuting
      BY <1>f, <2>4, <2>5 DEF CapacitySound
    <3>4. Cardinality(UdpHeld') + Cardinality(TcpHeld') = Cardinality(TcpHeld)
      BY <1>f, <2>4, <2>5
    <3> QED
      BY <2>4, <2>5, <3>1, <3>2, <3>3, <3>4 DEF CapacitySound
  <2>7. ServiceTypes'
    <3>1. conn' \in [Conns -> {"none", "refused", "open", "finishing", "abandoned", "ended", "gone"}]
      BY <1>t, <2>1 DEF ServiceTypes
    <3>2. udp' \in [Datagrams -> {"none", "dropped", "queued", "executing", "lost", "sent", "gone"}]
      BY <1>t, <2>1 DEF ServiceTypes
    <3>3. accepted' \in Int /\ connections' \in Int
      BY <1>t, <1>f, <2>1, <2>3 DEF ServiceTypes
    <3> QED
      BY <1>t, <2>1, <3>1, <3>2, <3>3 DEF ServiceTypes
  <2>8. (\A c \in Conns : ConnSound(c))'
    BY <2>1, <2>2 DEF ServiceInv, ConnSound
  <2>9. (\A d \in Datagrams : DatagramSound(d))'
    BY <2>1, <2>2 DEF DatagramSound
  <2>10. (\A b \in Conns, j \in Ids : AnswerSound(b, j))'
    BY <2>1, <2>2 DEF ServiceInv, AnswerSound, Awaited
  <2> QED
    BY <2>6, <2>7, <2>8, <2>9, <2>10 DEF ServiceInv
<1> QED
  BY <1>1, <1>2, <1>3, <1>4, <1>5, <1>6, <1>7, <1>8, <1>9, <1>10, <1>11, <1>12, <1>13, <1>14, <1>15, <1>16, <1>17, <1>18
  DEF Service!Next

-----------------------------------------------------------------------------
(***************************************************************************)
(* CertificateMirror: what was shown stays true.                           *)
(***************************************************************************)

\* The authorities with `m` serials and `k` crashes.
Auth(m, k) == {<<"signer", 0>>} \cup {<<"process", j>> : j \in 0..k} \cup {<<"bridge", s>> : s \in 1..m}
Kinds == {"idle", "pair", "mirror", "validated", "presented"}

MirrorTypes(m, k) ==
    /\ m \in Nat /\ k \in Nat /\ serial \in 0..m /\ crashes \in 0..k
    /\ mirrorConn \in [pc : Kinds, issuer : {"known", "unknown", "absent"}, revoked : SUBSET Nat, own : Seq(Nat),
                       at : Int, now : Int]
    /\ mirrorClock \in Int
    /\ pair \in [serial : Nat, stage : {"none", "prepared", "published", "active"}]
    /\ pair.serial <= serial
    /\ heads = [a \in Auth(m, k) |-> heads[a]]
    /\ \A a \in Auth(m, k) : heads[a].number \in Nat /\ heads[a].listed \subseteq 1..serial
    /\ service \in [up : BOOLEAN, open : Int, served : [FetchedCrls -> Nat]]

\* The certificates of a mirror in composition are new, and listed once their depth's
\* signer has published.
ComposedSound(m, k) ==
    /\ mirrorConn.pc = "pair" => pair.serial # 0
    /\ mirrorConn.pc = "validated" => mirrorConn.at < 0
    /\ mirrorConn.pc \in {"mirror", "validated"} =>
         /\ mirrorConn.at < Len(mirrorConn.own)
         /\ Len(mirrorConn.own) > (IF mirrorConn.issuer = "absent" THEN 1 ELSE 0)
         /\ \A d \in mirrorConn.revoked :
              /\ d + 1 <= Len(mirrorConn.own)
              /\ d > mirrorConn.at => mirrorConn.own[d + 1] \in heads[Mirror!Signer(d)].listed
         /\ \A j \in 1..Len(mirrorConn.own) :
              /\ mirrorConn.own[j] \in 1..serial /\ mirrorConn.own[j] # pair.serial
              /\ \A i \in mirrorShown : \A x \in i.revoked \cup i.sound : x[2] # mirrorConn.own[j]
              /\ \A l \in 1..Len(mirrorConn.own) : l # j => mirrorConn.own[l] # mirrorConn.own[j]
              /\ (j - 1 \notin mirrorConn.revoked \/ j - 1 <= mirrorConn.at) =>
                   \A a \in Auth(m, k) : mirrorConn.own[j] \notin heads[a].listed

PairSound(m, k) == \A a \in Auth(m, k) : pair.serial \notin heads[a].listed
ShownSound(m, k) ==
    \A i \in mirrorShown :
      /\ \A x \in i.revoked : x[1] \in Auth(m, k) /\ x[2] \in 1..serial /\ x[2] \in heads[x[1]].listed
      /\ \A x \in i.sound : x[1] \in Auth(m, k) /\ x[2] \in 1..serial /\ \A a \in Auth(m, k) : x[2] \notin heads[a].listed
      /\ i.kind = "pair" => pair.serial # 0 /\ i.sound = {<< <<"signer", 0>>, pair.serial>>}
ServedSound == \A a \in FetchedCrls : service.served[a] <= heads[a].number

MirrorInv(m, k) ==
    MirrorTypes(m, k) /\ ComposedSound(m, k) /\ PairSound(m, k) /\ ShownSound(m, k) /\ ServedSound

\* The invariant is what is promised of what guests were shown.
LEMMA MirrorMeans == \A m, k \in Nat : MirrorInv(m, k) => Mirror!ShownStands
<1> SUFFICES ASSUME NEW m \in Nat, NEW k \in Nat, MirrorInv(m, k) PROVE Mirror!ShownStands
  OBVIOUS
<1>1. Mirror!RevocationsStayListed
  BY DEF MirrorInv, ShownSound, Mirror!RevocationsStayListed
<1>2. Mirror!NumbersAreNotReused
  BY DEF MirrorInv, ServedSound, Mirror!NumbersAreNotReused
<1>3. Mirror!PairIsStable
  BY DEF MirrorInv, ShownSound, Mirror!PairIsStable
<1> QED
  BY <1>1, <1>2, <1>3 DEF Mirror!ShownStands

\* A head that publishes keeps what it lists and adds at most the serial it is given.
LEMMA PublicationGrows ==
  ASSUME NEW crl, NEW s, NEW time, crl.number \in Nat
  PROVE  /\ Mirror!Published(crl, s, time).number \in Nat
         /\ Mirror!Published(crl, s, time).number >= crl.number
         /\ Mirror!Published(crl, s, time).listed = Mirror!Listing(crl, s)
<1>1. CASE Mirror!Kept(crl, s, time)
  BY <1>1 DEF Mirror!Published, Mirror!Kept
<1>2. CASE ~Mirror!Kept(crl, s, time)
  BY <1>2 DEF Mirror!Published
<1> QED
  BY <1>1, <1>2

\* The heads of the authorities grow by the serial `s`, or by none when `s` is 0.
LEMMA HeadsGrow ==
  ASSUME NEW m \in Nat, NEW k \in Nat, MirrorTypes(m, k), NEW a \in Auth(m, k), NEW s \in 0..serial, NEW time,
         heads' = [heads EXCEPT ![a] = Mirror!Published(heads[a], s, time)], UNCHANGED serial
  PROVE  /\ heads' = [b \in Auth(m, k) |-> heads'[b]]
         /\ \A b \in Auth(m, k) : /\ heads'[b].number \in Nat /\ heads'[b].listed \subseteq 1..serial
                                  /\ heads[b].number <= heads'[b].number
                                  /\ heads[b].listed \subseteq heads'[b].listed
                                  /\ heads'[b].listed \subseteq heads[b].listed \cup ({s} \ {0})
         /\ s # 0 => s \in heads'[a].listed
<1>1. /\ heads = [b \in Auth(m, k) |-> heads[b]]
      /\ \A b \in Auth(m, k) : heads[b].number \in Nat /\ heads[b].listed \subseteq 1..serial
  BY DEF MirrorTypes
<1>2. /\ heads' = [b \in Auth(m, k) |-> heads'[b]] /\ heads'[a] = Mirror!Published(heads[a], s, time)
      /\ \A b \in Auth(m, k) : b # a => heads'[b] = heads[b]
  BY <1>1
<1>3. /\ heads'[a].number \in Nat /\ heads'[a].number >= heads[a].number
      /\ heads'[a].listed = Mirror!Listing(heads[a], s)
  BY <1>1, <1>2, PublicationGrows
<1>4. serial \in Nat
  BY DEF MirrorTypes
<1>5. /\ heads[a].listed \subseteq heads'[a].listed
      /\ heads'[a].listed \subseteq heads[a].listed \cup ({s} \ {0})
      /\ s # 0 => s \in heads'[a].listed
  BY <1>3 DEF Mirror!Listing
<1>6. heads'[a].listed \subseteq 1..serial
  BY <1>1, <1>4, <1>5
<1> QED
  BY <1>1, <1>2, <1>3, <1>5, <1>6

\* The actions that meet a bound of the model, for any bounds.
Finds(m) ==
    /\ mirrorConn.pc = "idle"
    /\ mirrorConn' = [Mirror!Idle EXCEPT !.pc = "pair"]
    /\ IF pair.serial # 0
         THEN UNCHANGED <<pair, serial>>
         ELSE serial < m /\ serial' = serial + 1 /\ pair' = [serial |-> serial + 1, stage |-> "prepared"]
    /\ UNCHANGED <<heads, service, mirrorShown, mirrorClock, crashes>>
Starts(m) ==
    /\ mirrorConn.pc = "idle"
    /\ \E o \in Mirror!Origins :
         LET n == Mirror!Deepest(o) + (IF o.issuer = "absent" THEN 2 ELSE 1)
         IN  /\ serial + n <= m /\ serial' = serial + n
             /\ mirrorConn' = [pc |-> "mirror", issuer |-> o.issuer, revoked |-> o.revoked,
                               own |-> [j \in 1..n |-> serial + j],
                               at |-> IF o.revoked = {} THEN -1 ELSE Mirror!Deepest(o), now |-> mirrorClock]
    /\ UNCHANGED <<pair, heads, service, mirrorShown, mirrorClock, crashes>>
Crashes(k) ==
    /\ crashes < k /\ crashes' = crashes + 1 /\ mirrorConn' = Mirror!Idle
    /\ service' = [service EXCEPT !.up = TRUE, !.open = 0]
    /\ UNCHANGED <<pair, heads, mirrorShown, serial, mirrorClock>>
Unbounded ==
    \/ Mirror!Refuse \/ Mirror!Finished \/ Mirror!AdvancePair \/ Mirror!PresentPair
    \/ Mirror!PublishMirror \/ Mirror!ValidateMirror \/ Mirror!PresentMirror \/ Mirror!HealthPublishes
    \/ Mirror!CrlAccept \/ (\E a \in FetchedCrls : Mirror!CrlServe(a)) \/ Mirror!CrlDeny
Ticks == mirrorClock' \in Int /\ UNCHANGED <<mirrorConn, pair, heads, service, mirrorShown, serial, crashes>>

\* The signer of every certificate of a mirror in composition is an authority with a head.
LEMMA SignersHaveHeads ==
  ASSUME NEW m \in Nat, NEW k \in Nat, MirrorTypes(m, k), ComposedSound(m, k), mirrorConn.pc \in {"mirror", "validated"},
         NEW d \in Nat, d < Len(mirrorConn.own)
  PROVE  Mirror!Signer(d) \in Auth(m, k)
<1>1. CASE d + 1 < Len(mirrorConn.own)
  <2>1. mirrorConn.own \in Seq(Nat) /\ d + 2 \in 1..Len(mirrorConn.own)
    BY <1>1 DEF MirrorTypes
  <2>2. \A j \in 1..Len(mirrorConn.own) : mirrorConn.own[j] \in 1..serial
    BY DEF ComposedSound
  <2>3. serial \in Nat /\ serial <= m
    BY DEF MirrorTypes
  <2>4. mirrorConn.own[d + 2] \in 1..m
    BY <2>1, <2>2, <2>3
  <2>5. Mirror!Signer(d) = <<"bridge", mirrorConn.own[d + 2]>>
    BY <1>1 DEF Mirror!Signer
  <2> QED
    BY <2>4, <2>5 DEF Auth
<1>2. CASE ~(d + 1 < Len(mirrorConn.own)) /\ mirrorConn.issuer = "known"
  BY <1>2 DEF Mirror!Signer, Auth
<1>3. CASE ~(d + 1 < Len(mirrorConn.own)) /\ mirrorConn.issuer # "known"
  <2>1. Mirror!Signer(d) = <<"process", crashes>> /\ crashes \in 0..k
    BY <1>3 DEF Mirror!Signer, MirrorTypes
  <2> QED
    BY <2>1 DEF Auth
<1> QED
  BY <1>1, <1>2, <1>3

\* A composition that is idle is typed.
LEMMA IdleTyped ==
    /\ Mirror!Idle \in [pc : Kinds, issuer : {"known", "unknown", "absent"}, revoked : SUBSET Nat, own : Seq(Nat),
                        at : Int, now : Int]
    /\ [Mirror!Idle EXCEPT !.pc = "pair"]
          \in [pc : Kinds, issuer : {"known", "unknown", "absent"}, revoked : SUBSET Nat, own : Seq(Nat),
               at : Int, now : Int]
    /\ Mirror!Idle.pc = "idle" /\ [Mirror!Idle EXCEPT !.pc = "pair"].pc = "pair"
<1>1. << >> \in Seq(Nat) /\ {} \in SUBSET Nat
  OBVIOUS
<1>2. PICK i : i = Mirror!Idle
  OBVIOUS
<1>3. i = [pc |-> "idle", issuer |-> "known", revoked |-> {}, own |-> << >>, at |-> 0, now |-> 0]
  BY <1>2 DEF Mirror!Idle
<1>4. i \in [pc : Kinds, issuer : {"known", "unknown", "absent"}, revoked : SUBSET Nat, own : Seq(Nat), at : Int, now : Int]
  BY <1>1, <1>3 DEF Kinds
<1>5. /\ [i EXCEPT !.pc = "pair"] \in [pc : Kinds, issuer : {"known", "unknown", "absent"}, revoked : SUBSET Nat,
                                     own : Seq(Nat), at : Int, now : Int]
      /\ [i EXCEPT !.pc = "pair"].pc = "pair" /\ i.pc = "idle"
  BY <1>3, <1>4 DEF Kinds
<1> QED
  BY <1>2, <1>4, <1>5

\* The deepest certificate whose defect is carried lies in the chain, no shallower than any.
LEMMA DeepestOfAll ==
  ASSUME NEW o \in Mirror!Origins
  PROVE  Mirror!Deepest(o) \in Nat /\ \A d \in o.revoked : d \in Nat /\ d <= Mirror!Deepest(o)
<1>1. PICK S \in SUBSET Nat : S = {0} \cup o.defects \cup o.stapled \cup o.revoked
  <2>1. /\ o.defects \subseteq 0..TopLevel /\ o.stapled \subseteq 0..TopLevel /\ o.revoked \subseteq 0..TopLevel
    BY DEF Mirror!Origins, Mirror!Depths
  <2>2. {0} \cup o.defects \cup o.stapled \cup o.revoked \in SUBSET Nat
    BY <2>1, MirrorAssumption
  <2> QED
    BY <2>2
<1>2. \A d \in S : d <= TopLevel
  BY <1>1, MirrorAssumption DEF Mirror!Origins, Mirror!Depths
<1>3. \E d \in S : \A e \in S : e <= d
  BY <1>1, <1>2, MirrorAssumption, GreatestExists
<1>4. Mirror!Deepest(o) = CHOOSE d \in S : \A e \in S : e <= d
  BY <1>1 DEF Mirror!Deepest
<1>5. Mirror!Deepest(o) \in S /\ \A e \in S : e <= Mirror!Deepest(o)
  BY <1>3, <1>4
<1> QED
  BY <1>1, <1>5

\* Every action keeps the invariant, for any bounds on serials and crashes.
LEMMA MirrorKeeps ==
  ASSUME NEW m \in Nat, NEW k \in Nat, MirrorInv(m, k), Unbounded \/ Finds(m) \/ Starts(m) \/ Crashes(k) \/ Ticks
  PROVE  MirrorInv(m, k)'
<1>t. MirrorTypes(m, k)
  BY DEF MirrorInv
<1>a. \A a \in FetchedCrls : a \in Auth(m, k)
  BY MirrorAssumption DEF Auth
<1>1. ASSUME UNCHANGED <<pair, heads, service, mirrorShown, serial>>, mirrorClock' \in Int, crashes' \in 0..k,
             mirrorConn' = Mirror!Idle
      PROVE  MirrorInv(m, k)'
  <2>1. MirrorTypes(m, k)'
    BY <1>t, <1>1, IdleTyped DEF MirrorTypes
  <2>2. ComposedSound(m, k)'
    BY <1>1, IdleTyped DEF ComposedSound
  <2> QED
    BY <1>1, <2>1, <2>2 DEF MirrorInv, PairSound, ShownSound, ServedSound
<1>2. CASE Mirror!Refuse \/ Mirror!Finished
  BY <1>t, <1>1, <1>2 DEF Mirror!Refuse, Mirror!Finished, MirrorTypes
<1>3. CASE Mirror!AdvancePair
  <2>1. /\ mirrorConn.pc = "pair" /\ UNCHANGED <<mirrorConn, heads, service, mirrorShown, serial, mirrorClock, crashes>>
        /\ pair' \in [serial : Nat, stage : {"none", "prepared", "published", "active"}] /\ pair'.serial = pair.serial
    BY <1>t, <1>3 DEF Mirror!AdvancePair, MirrorTypes
  <2>2. MirrorTypes(m, k)'
    BY <1>t, <2>1 DEF MirrorTypes
  <2>3. ComposedSound(m, k)' /\ PairSound(m, k)' /\ ShownSound(m, k)' /\ ServedSound'
    BY <2>1 DEF MirrorInv, ComposedSound, PairSound, ShownSound, ServedSound
  <2> QED
    BY <2>2, <2>3 DEF MirrorInv
<1>4. CASE Mirror!PresentPair
  <2>1. /\ mirrorConn.pc = "pair" /\ mirrorConn' = [mirrorConn EXCEPT !.pc = "presented"]
        /\ UNCHANGED <<pair, heads, service, serial, mirrorClock, crashes>>
    BY <1>4 DEF Mirror!PresentPair
  <2>2. PICK i : /\ mirrorShown' = mirrorShown \cup {i}
                 /\ i = [kind |-> "pair", revoked |-> {}, sound |-> {<< <<"signer", 0>>, pair.serial>>}]
    BY <1>4 DEF Mirror!PresentPair
  <2>3. mirrorConn'.pc = "presented" /\ MirrorTypes(m, k)'
    BY <1>t, <2>1 DEF MirrorTypes, Kinds
  <2>4. ComposedSound(m, k)'
    BY <2>3 DEF ComposedSound
  <2>5. /\ i.kind = "pair" /\ i.revoked = {} /\ i.sound = {<< <<"signer", 0>>, pair.serial>>}
        /\ pair.serial \in 1..serial
    BY <1>t, <2>1, <2>2 DEF MirrorInv, ComposedSound, MirrorTypes
  <2>6. \A x \in i.sound : x[1] \in Auth(m, k) /\ x[2] = pair.serial
    BY <2>5 DEF Auth
  <2>7. ShownSound(m, k)'
    BY <2>1, <2>2, <2>5, <2>6 DEF MirrorInv, ShownSound, PairSound
  <2> QED
    BY <2>1, <2>3, <2>4, <2>7 DEF MirrorInv, PairSound, ServedSound
<1>5. CASE Finds(m)
  <2>1. /\ mirrorConn'.pc = "pair" /\ UNCHANGED <<heads, service, mirrorShown, mirrorClock, crashes>>
        /\ mirrorConn' \in [pc : Kinds, issuer : {"known", "unknown", "absent"}, revoked : SUBSET Nat, own : Seq(Nat),
                            at : Int, now : Int]
    BY <1>5, IdleTyped DEF Finds
  <2>2. CASE pair.serial # 0
    <3>1. UNCHANGED <<pair, serial>>
      BY <1>5, <2>2 DEF Finds
    <3> QED
      BY <1>t, <2>1, <2>2, <3>1 DEF MirrorInv, MirrorTypes, ComposedSound, PairSound, ShownSound, ServedSound
  <2>3. CASE pair.serial = 0
    <3>1. serial < m /\ serial' = serial + 1 /\ pair' = [serial |-> serial + 1, stage |-> "prepared"] /\ serial \in Nat
      BY <1>5, <1>t, <2>3 DEF Finds, MirrorTypes
    <3>2. pair'.serial = serial + 1 /\ pair' \in [serial : Nat, stage : {"none", "prepared", "published", "active"}]
      BY <3>1
    <3>3. \A a \in Auth(m, k) : heads[a].listed \subseteq 1..serial' /\ serial + 1 \notin heads[a].listed
      BY <1>t, <3>1 DEF MirrorTypes
    <3>4. MirrorTypes(m, k)'
      BY <1>t, <2>1, <3>1, <3>2, <3>3 DEF MirrorTypes
    <3>5. ShownSound(m, k)'
      BY <2>1, <2>3, <3>1 DEF MirrorInv, ShownSound
    <3>6. PairSound(m, k)' /\ ServedSound' /\ ComposedSound(m, k)'
      BY <2>1, <3>1, <3>2, <3>3 DEF MirrorInv, PairSound, ServedSound, ComposedSound
    <3> QED
      BY <3>4, <3>5, <3>6 DEF MirrorInv
  <2> QED
    BY <2>2, <2>3
<1>6. CASE Starts(m)
  <2>0. PICK o \in Mirror!Origins :
         LET n == Mirror!Deepest(o) + (IF o.issuer = "absent" THEN 2 ELSE 1)
         IN  /\ serial + n <= m /\ serial' = serial + n
             /\ mirrorConn' = [pc |-> "mirror", issuer |-> o.issuer, revoked |-> o.revoked,
                               own |-> [j \in 1..n |-> serial + j],
                               at |-> IF o.revoked = {} THEN -1 ELSE Mirror!Deepest(o), now |-> mirrorClock]
    BY <1>6 DEF Starts
  <2>1. PICK n :
          /\ n = Mirror!Deepest(o) + (IF o.issuer = "absent" THEN 2 ELSE 1)
          /\ serial + n <= m /\ serial' = serial + n
          /\ mirrorConn' = [pc |-> "mirror", issuer |-> o.issuer, revoked |-> o.revoked,
                            own |-> [j \in 1..n |-> serial + j],
                            at |-> IF o.revoked = {} THEN -1 ELSE Mirror!Deepest(o), now |-> mirrorClock]
          /\ UNCHANGED <<pair, heads, service, mirrorShown, mirrorClock, crashes>>
    BY <1>6, <2>0 DEF Starts
  <2>2. PICK own : own = [j \in 1..n |-> serial + j]
    OBVIOUS
  <2>3. /\ Mirror!Deepest(o) \in Nat /\ \A d \in o.revoked : d \in Nat /\ d <= Mirror!Deepest(o)
        /\ o.issuer \in {"known", "unknown", "absent"} /\ serial \in Nat /\ mirrorClock \in Int
    BY <1>t, DeepestOfAll DEF Mirror!Origins, MirrorTypes
  <2>4. n \in Nat /\ n > Mirror!Deepest(o) /\ (o.issuer = "absent" => n > Mirror!Deepest(o) + 1)
    BY <2>1, <2>3
  <2>5. own \in Seq(Nat) /\ Len(own) = n /\ \A j \in 1..n : own[j] = serial + j
    BY <2>2, <2>3, <2>4
  <2>6. /\ mirrorConn'.pc = "mirror" /\ mirrorConn'.issuer = o.issuer /\ mirrorConn'.revoked = o.revoked
        /\ mirrorConn'.own = own
        /\ mirrorConn'.at = IF o.revoked = {} THEN -1 ELSE Mirror!Deepest(o)
    BY <2>1, <2>2
  <2>7. MirrorTypes(m, k)'
    <3>1. o.revoked \in SUBSET Nat
      BY <2>3
    <3>2. (IF o.revoked = {} THEN -1 ELSE Mirror!Deepest(o)) \in Int
      BY <2>3
    <3>3. mirrorConn' \in [pc : Kinds, issuer : {"known", "unknown", "absent"}, revoked : SUBSET Nat, own : Seq(Nat),
                           at : Int, now : Int]
      BY <2>1, <2>2, <2>3, <2>5, <3>1, <3>2 DEF Kinds
    <3>4. serial' \in 0..m /\ serial <= serial'
      BY <2>1, <2>3, <2>4
    <3>5. 1..serial \subseteq 1..serial' /\ pair.serial <= serial'
      BY <1>t, <2>3, <3>4 DEF MirrorTypes
    <3>6. \A a \in Auth(m, k) : heads[a].number \in Nat /\ heads[a].listed \subseteq 1..serial'
      BY <1>t, <3>5 DEF MirrorTypes
    <3>7. UNCHANGED <<pair, heads, service, mirrorClock, crashes>> /\ mirrorClock \in Int
      BY <2>1, <2>3
    <3>8. /\ m \in Nat /\ k \in Nat /\ crashes \in 0..k /\ heads = [a \in Auth(m, k) |-> heads[a]]
          /\ pair \in [serial : Nat, stage : {"none", "prepared", "published", "active"}]
          /\ service \in [up : BOOLEAN, open : Int, served : [FetchedCrls -> Nat]]
      BY <1>t DEF MirrorTypes
    <3> QED
      BY <3>3, <3>4, <3>5, <3>6, <3>7, <3>8 DEF MirrorTypes
  <2>8. \A j \in 1..n : /\ own[j] \in 1..serial' /\ own[j] > serial
                        /\ \A l \in 1..n : l # j => own[l] # own[j]
    <3>1. \A j, l \in 1..n : /\ serial + j \in 1..serial + n /\ serial + j > serial
                             /\ (l # j => serial + l # serial + j)
      BY <2>3, <2>4
    <3> QED
      BY <2>1, <2>5, <3>1
  <2>9. \A j \in 1..n : \A a \in Auth(m, k) : own[j] \notin heads[a].listed
    BY <1>t, <2>3, <2>5, <2>8 DEF MirrorTypes
  <2>10. \A j \in 1..n : /\ own[j] # pair.serial
                         /\ \A i \in mirrorShown : \A x \in i.revoked \cup i.sound : x[2] # own[j]
    <3>1. \A i \in mirrorShown : \A x \in i.revoked \cup i.sound : x[2] \in 1..serial
      BY DEF MirrorInv, ShownSound
    <3>2. pair.serial \in Nat /\ pair.serial <= serial
      BY <1>t DEF MirrorTypes
    <3>3. \A j \in 1..n : own[j] \in Nat /\ own[j] > serial /\ own[j] \notin 1..serial
      BY <2>3, <2>5, <2>8
    <3>4. \A j \in 1..n : own[j] # pair.serial
      BY <2>3, <3>2, <3>3
    <3> QED
      BY <3>1, <3>3, <3>4
  <2>11. ComposedSound(m, k)'
    <3>1. \A d \in o.revoked : d + 1 <= n /\ ~(d > (IF o.revoked = {} THEN -1 ELSE Mirror!Deepest(o)))
      BY <2>3, <2>4
    <3>2. (IF o.revoked = {} THEN -1 ELSE Mirror!Deepest(o)) < n /\ n > (IF o.issuer = "absent" THEN 1 ELSE 0)
      BY <2>3, <2>4
    <3> QED
      BY <2>1, <2>5, <2>6, <2>8, <2>9, <2>10, <3>1, <3>2 DEF ComposedSound
  <2>12. ShownSound(m, k)'
    <3>1. 1..serial \subseteq 1..serial'
      BY <2>1, <2>3, <2>4
    <3> QED
      BY <2>1, <3>1 DEF MirrorInv, ShownSound
  <2> QED
    BY <2>1, <2>7, <2>11, <2>12 DEF MirrorInv, PairSound, ServedSound
<1>7. CASE Mirror!PublishMirror
  <2>1. PICK s, a :
          /\ a = Mirror!Signer(mirrorConn.at)
          /\ s = IF mirrorConn.at \in mirrorConn.revoked THEN mirrorConn.own[mirrorConn.at + 1] ELSE 0
          /\ heads' = [heads EXCEPT ![a] = Mirror!Published(heads[a], s, mirrorConn.now)]
          /\ mirrorConn.pc = "mirror" /\ mirrorConn.at >= 0
          /\ mirrorConn' = [mirrorConn EXCEPT !.at = mirrorConn.at - 1]
          /\ UNCHANGED <<pair, service, mirrorShown, serial, mirrorClock, crashes>>
    BY <1>7 DEF Mirror!PublishMirror
  <2>2. PICK own, at : own = mirrorConn.own /\ at = mirrorConn.at
    OBVIOUS
  <2>3. own \in Seq(Nat) /\ at \in Nat /\ at < Len(own) /\ at + 1 \in 1..Len(own) /\ serial \in Nat
    BY <1>t, <2>1, <2>2 DEF MirrorInv, ComposedSound, MirrorTypes
  <2>4. /\ \A j \in 1..Len(own) :
             /\ own[j] \in 1..serial /\ own[j] # pair.serial
             /\ \A i \in mirrorShown : \A x \in i.revoked \cup i.sound : x[2] # own[j]
             /\ \A l \in 1..Len(own) : l # j => own[l] # own[j]
             /\ (j - 1 \notin mirrorConn.revoked \/ j - 1 <= at) => \A b \in Auth(m, k) : own[j] \notin heads[b].listed
        /\ \A d \in mirrorConn.revoked :
             /\ d + 1 <= Len(own) /\ d \in Nat
             /\ d > at => own[d + 1] \in heads[Mirror!Signer(d)].listed
        /\ Len(own) > (IF mirrorConn.issuer = "absent" THEN 1 ELSE 0)
    BY <1>t, <2>1, <2>2 DEF MirrorInv, ComposedSound, MirrorTypes
  <2>5. a \in Auth(m, k)
    <3>1. ComposedSound(m, k)
      BY DEF MirrorInv
    <3> QED
      BY <1>t, <2>1, <2>2, <2>3, <3>1, SignersHaveHeads
  <2>6. s \in 0..serial /\ s = IF at \in mirrorConn.revoked THEN own[at + 1] ELSE 0
    BY <2>1, <2>2, <2>3, <2>4
  <2>7. /\ heads' = [b \in Auth(m, k) |-> heads'[b]]
        /\ \A b \in Auth(m, k) : /\ heads'[b].number \in Nat /\ heads'[b].listed \subseteq 1..serial
                                 /\ heads[b].number <= heads'[b].number
                                 /\ heads[b].listed \subseteq heads'[b].listed
                                 /\ heads'[b].listed \subseteq heads[b].listed \cup ({s} \ {0})
        /\ s # 0 => s \in heads'[a].listed
    <3>1. heads' = [heads EXCEPT ![a] = Mirror!Published(heads[a], s, mirrorConn.now)] /\ UNCHANGED serial
      BY <2>1
    <3>2. s \in 0..serial
      BY <2>6
    <3>3. PICK time : heads' = [heads EXCEPT ![a] = Mirror!Published(heads[a], s, time)] /\ UNCHANGED serial
      BY ONLY <3>1
    <3> QED
      BY ONLY <1>t, <2>5, <3>2, <3>3, HeadsGrow, m \in Nat, k \in Nat
  <2>8. /\ mirrorConn'.pc = "mirror" /\ mirrorConn'.issuer = mirrorConn.issuer /\ mirrorConn'.revoked = mirrorConn.revoked
        /\ mirrorConn'.own = own /\ mirrorConn'.at = at - 1
        /\ mirrorConn' \in [pc : Kinds, issuer : {"known", "unknown", "absent"}, revoked : SUBSET Nat, own : Seq(Nat),
                            at : Int, now : Int]
    <3>1. mirrorConn.at - 1 \in Int
      BY <2>2, <2>3
    <3> QED
      BY <1>t, <2>1, <2>2, <3>1 DEF MirrorTypes, Kinds
  <2>9. MirrorTypes(m, k)'
    BY <1>t, <2>1, <2>7, <2>8 DEF MirrorTypes
  <2>10. \A d : Mirror!Signer(d)' = Mirror!Signer(d)
    BY <2>1, <2>2, <2>8 DEF Mirror!Signer
  <2>11. \A d \in mirrorConn.revoked : d > at - 1 => own[d + 1] \in heads'[Mirror!Signer(d)].listed
    <3> SUFFICES ASSUME NEW d \in mirrorConn.revoked, d > at - 1 PROVE own[d + 1] \in heads'[Mirror!Signer(d)].listed
      OBVIOUS
    <3>1. d \in Nat /\ d + 1 \in 1..Len(own)
      BY <2>3, <2>4
    <3>2. CASE d = at
      BY <2>1, <2>2, <2>3, <2>4, <2>6, <2>7, <3>2
    <3>3. CASE d # at
      <4>1. d > at
        BY <2>3, <3>1, <3>3
      <4>2. Mirror!Signer(d) \in Auth(m, k)
        <5>1. ComposedSound(m, k) /\ d < Len(mirrorConn.own)
          BY <2>2, <2>3, <3>1 DEF MirrorInv
        <5> QED
          BY <1>t, <2>1, <3>1, <5>1, SignersHaveHeads
      <4> QED
        BY <2>4, <2>7, <4>1, <4>2
    <3> QED
      BY <3>2, <3>3
  <2>12. ASSUME NEW j \in 1..Len(own), j - 1 \notin mirrorConn.revoked \/ j - 1 <= at - 1, NEW b \in Auth(m, k)
         PROVE  own[j] \notin heads'[b].listed
    <3>1. own[j] \notin heads[b].listed
      BY <2>3, <2>4, <2>12
    <3>2. s # 0 => own[j] # s
      <4>1. at \in mirrorConn.revoked => j # at + 1
        BY <2>3, <2>12
      <4> QED
        BY <2>3, <2>4, <2>6, <4>1
    <3> QED
      BY <2>7, <3>1, <3>2
  <2>13. ComposedSound(m, k)'
    <3>1. at - 1 < Len(own)
      BY <2>3
    <3> QED
      BY <2>1, <2>4, <2>8, <2>10, <2>11, <2>12, <3>1 DEF ComposedSound
  <2>14. \A x : (\A j \in 1..Len(own) : own[j] # x) => \A b \in Auth(m, k) : x \in heads'[b].listed <=> x \in heads[b].listed
    BY <2>3, <2>6, <2>7
  <2>15. ShownSound(m, k)'
    <3> SUFFICES ASSUME NEW i \in mirrorShown
                 PROVE  /\ \A x \in i.revoked : x[1] \in Auth(m, k) /\ x[2] \in 1..serial /\ x[2] \in heads'[x[1]].listed
                        /\ \A x \in i.sound : x[1] \in Auth(m, k) /\ x[2] \in 1..serial /\ \A b \in Auth(m, k) : x[2] \notin heads'[b].listed
                        /\ i.kind = "pair" => pair.serial # 0 /\ i.sound = {<< <<"signer", 0>>, pair.serial>>}
      BY <2>1 DEF ShownSound
    <3>1. \A x \in i.revoked \cup i.sound : \A j \in 1..Len(own) : own[j] # x[2]
      BY <2>4
    <3>2. \A x \in i.sound : \A b \in Auth(m, k) : x[2] \notin heads'[b].listed
      BY <2>14, <3>1 DEF MirrorInv, ShownSound
    <3> QED
      BY <2>7, <3>2 DEF MirrorInv, ShownSound
  <2>16. PairSound(m, k)'
    BY <2>1, <2>4, <2>14 DEF MirrorInv, PairSound
  <2>17. ServedSound'
    <3> SUFFICES ASSUME NEW b \in FetchedCrls PROVE service.served[b] <= heads'[b].number
      BY <2>1 DEF ServedSound
    <3>1. b \in Auth(m, k) /\ service.served[b] \in Nat /\ heads[b].number \in Nat
      BY <1>a, <1>t DEF MirrorTypes
    <3> QED
      BY <2>7, <3>1 DEF MirrorInv, ServedSound
  <2> QED
    BY <2>9, <2>13, <2>15, <2>16, <2>17 DEF MirrorInv
<1>8. CASE Mirror!ValidateMirror
  <2>1. /\ mirrorConn.pc = "mirror" /\ mirrorConn.at < 0 /\ mirrorConn' = [mirrorConn EXCEPT !.pc = "validated"]
        /\ UNCHANGED <<pair, heads, service, mirrorShown, serial, mirrorClock, crashes>>
    BY <1>8 DEF Mirror!ValidateMirror
  <2>2. /\ mirrorConn'.pc = "validated" /\ mirrorConn'.issuer = mirrorConn.issuer /\ mirrorConn'.revoked = mirrorConn.revoked
        /\ mirrorConn'.own = mirrorConn.own /\ mirrorConn'.at = mirrorConn.at
        /\ MirrorTypes(m, k)'
    BY <1>t, <2>1 DEF MirrorTypes, Kinds
  <2>3. \A d : Mirror!Signer(d)' = Mirror!Signer(d)
    BY <2>1, <2>2 DEF Mirror!Signer
  <2>4. ComposedSound(m, k)'
    BY <2>1, <2>2, <2>3 DEF MirrorInv, ComposedSound
  <2> QED
    BY <2>1, <2>2, <2>4 DEF MirrorInv, PairSound, ShownSound, ServedSound
<1>9. CASE Mirror!PresentMirror
  <2>1. PICK i :
          /\ i = [kind |-> "mirror", revoked |-> {<<Mirror!Signer(d), mirrorConn.own[d + 1]>> : d \in mirrorConn.revoked},
                  sound |-> {<<Mirror!Signer(d), mirrorConn.own[d + 1]>> : d \in Mirror!Mirrored \ mirrorConn.revoked}]
          /\ mirrorShown' = mirrorShown \cup {i}
          /\ mirrorConn.pc = "validated" /\ mirrorConn' = [mirrorConn EXCEPT !.pc = "presented"]
          /\ UNCHANGED <<pair, heads, service, serial, mirrorClock, crashes>>
    BY <1>9 DEF Mirror!PresentMirror
  <2>2. mirrorConn'.pc = "presented" /\ MirrorTypes(m, k)'
    BY <1>t, <2>1 DEF MirrorTypes, Kinds
  <2>3. ComposedSound(m, k)'
    BY <2>2 DEF ComposedSound
  <2>4. mirrorConn.at < 0 /\ mirrorConn.own \in Seq(Nat) /\ mirrorConn.at \in Int /\ mirrorConn.revoked \subseteq Nat
    BY <1>t, <2>1 DEF MirrorInv, ComposedSound, MirrorTypes
  <2>5. \A d \in Mirror!Mirrored : d \in Nat /\ d + 1 \in 1..Len(mirrorConn.own)
    <3>1. PICK last \in Nat : last = Len(mirrorConn.own)
      BY <2>4
    <3> QED
      BY <3>1 DEF Mirror!Mirrored
  <2>6. \A d \in mirrorConn.revoked :
           /\ d \in Nat /\ d + 1 \in 1..Len(mirrorConn.own) /\ Mirror!Signer(d) \in Auth(m, k)
           /\ mirrorConn.own[d + 1] \in heads[Mirror!Signer(d)].listed
    <3> SUFFICES ASSUME NEW d \in mirrorConn.revoked
                 PROVE  /\ d \in Nat /\ d + 1 \in 1..Len(mirrorConn.own) /\ Mirror!Signer(d) \in Auth(m, k)
                        /\ mirrorConn.own[d + 1] \in heads[Mirror!Signer(d)].listed
      OBVIOUS
    <3>1. d \in Nat /\ d + 1 \in 1..Len(mirrorConn.own) /\ d > mirrorConn.at /\ d < Len(mirrorConn.own)
      BY <2>1, <2>4 DEF MirrorInv, ComposedSound
    <3>2. ComposedSound(m, k)
      BY DEF MirrorInv
    <3> QED
      BY <1>t, <2>1, <3>1, <3>2, SignersHaveHeads DEF ComposedSound
  <2>7. \A d \in Mirror!Mirrored \ mirrorConn.revoked :
           /\ Mirror!Signer(d) \in Auth(m, k)
           /\ \A a \in Auth(m, k) : mirrorConn.own[d + 1] \notin heads[a].listed
    <3> SUFFICES ASSUME NEW d \in Mirror!Mirrored \ mirrorConn.revoked
                 PROVE  /\ Mirror!Signer(d) \in Auth(m, k)
                        /\ \A a \in Auth(m, k) : mirrorConn.own[d + 1] \notin heads[a].listed
      OBVIOUS
    <3>1. d \in Nat /\ d + 1 \in 1..Len(mirrorConn.own) /\ d < Len(mirrorConn.own) /\ (d + 1) - 1 \notin mirrorConn.revoked
      BY <2>4, <2>5
    <3>2. ComposedSound(m, k)
      BY DEF MirrorInv
    <3> QED
      BY <1>t, <2>1, <3>1, <3>2, SignersHaveHeads DEF ComposedSound
  <2>8. \A d \in mirrorConn.revoked \cup Mirror!Mirrored : mirrorConn.own[d + 1] \in 1..serial
    BY <2>1, <2>5, <2>6 DEF MirrorInv, ComposedSound
  <2>9. /\ \A x \in i.revoked : x[1] \in Auth(m, k) /\ x[2] \in 1..serial /\ x[2] \in heads[x[1]].listed
        /\ \A x \in i.sound : x[1] \in Auth(m, k) /\ x[2] \in 1..serial /\ \A a \in Auth(m, k) : x[2] \notin heads[a].listed
        /\ i.kind # "pair"
    BY <2>1, <2>6, <2>7, <2>8
  <2>10. ShownSound(m, k)'
    BY <2>1, <2>9 DEF MirrorInv, ShownSound
  <2> QED
    BY <2>1, <2>2, <2>3, <2>10 DEF MirrorInv, PairSound, ServedSound
<1>10. CASE Mirror!HealthPublishes
  <2>1. PICK a : /\ a = <<"signer", 0>> /\ heads' = [heads EXCEPT ![a] = Mirror!Published(heads[a], 0, mirrorClock)]
                 /\ mirrorConn.pc \notin {"pair", "mirror", "validated"}
                 /\ UNCHANGED <<mirrorConn, pair, service, mirrorShown, serial, mirrorClock, crashes>>
    BY <1>10 DEF Mirror!HealthPublishes
  <2>2. a \in Auth(m, k) /\ 0 \in 0..serial
    BY <1>t, <2>1 DEF Auth, MirrorTypes
  <2>3. /\ heads' = [b \in Auth(m, k) |-> heads'[b]]
        /\ \A b \in Auth(m, k) : /\ heads'[b].number \in Nat /\ heads'[b].listed \subseteq 1..serial
                                 /\ heads[b].number <= heads'[b].number
                                 /\ heads[b].listed = heads'[b].listed
    <3>1. /\ heads' = [b \in Auth(m, k) |-> heads'[b]]
          /\ \A b \in Auth(m, k) : /\ heads'[b].number \in Nat /\ heads'[b].listed \subseteq 1..serial
                                   /\ heads[b].number <= heads'[b].number
                                   /\ heads[b].listed \subseteq heads'[b].listed
                                   /\ heads'[b].listed \subseteq heads[b].listed \cup ({0} \ {0})
      BY <1>t, <2>1, <2>2, HeadsGrow
    <3> QED
      BY <3>1
  <2>4. MirrorTypes(m, k)'
    BY <1>t, <2>1, <2>3 DEF MirrorTypes
  <2>5. ServedSound'
    <3> SUFFICES ASSUME NEW b \in FetchedCrls PROVE service.served[b] <= heads'[b].number
      BY <2>1 DEF ServedSound
    <3>1. b \in Auth(m, k) /\ service.served[b] \in Nat /\ heads[b].number \in Nat
      BY <1>a, <1>t DEF MirrorTypes
    <3> QED
      BY <2>3, <3>1 DEF MirrorInv, ServedSound
  <2>6. ComposedSound(m, k)' /\ PairSound(m, k)' /\ ShownSound(m, k)'
    BY <2>1, <2>3 DEF MirrorInv, ComposedSound, PairSound, ShownSound
  <2> QED
    BY <2>4, <2>5, <2>6 DEF MirrorInv
<1>s. ASSUME UNCHANGED <<mirrorConn, pair, heads, mirrorShown, serial, mirrorClock, crashes>>,
             service' \in [up : BOOLEAN, open : Int, served : [FetchedCrls -> Nat]],
             \A a \in FetchedCrls : service'.served[a] <= heads[a].number
      PROVE  MirrorInv(m, k)'
  <2>1. MirrorTypes(m, k)'
    BY <1>t, <1>s DEF MirrorTypes
  <2>2. \A d : Mirror!Signer(d)' = Mirror!Signer(d)
    BY <1>s DEF Mirror!Signer
  <2>3. ComposedSound(m, k)' /\ PairSound(m, k)' /\ ShownSound(m, k)' /\ ServedSound'
    BY <1>s, <2>2 DEF MirrorInv, ComposedSound, PairSound, ShownSound, ServedSound
  <2> QED
    BY <2>1, <2>3 DEF MirrorInv
<1>11. CASE Mirror!CrlAccept
  <2>1. service' = [service EXCEPT !.open = service.open + 1]
        /\ UNCHANGED <<mirrorConn, pair, heads, mirrorShown, serial, mirrorClock, crashes>>
    BY <1>11 DEF Mirror!CrlAccept
  <2>2. service' \in [up : BOOLEAN, open : Int, served : [FetchedCrls -> Nat]] /\ service'.served = service.served
    <3>n. service.open + 1 \in Int
      BY <1>t DEF MirrorTypes
    <3>0. PICK n \in Int : n = service.open + 1
      BY <3>n
    <3>m. service' = [service EXCEPT !.open = n]
      BY <2>1, <3>0
    <3>1. /\ service.up \in BOOLEAN /\ service.served \in [FetchedCrls -> Nat]
          /\ service' = [up |-> service.up, open |-> n, served |-> service.served]
      BY <1>t, <3>m DEF MirrorTypes
    <3> QED
      BY <3>1
  <2> QED
    BY <1>s, <2>1, <2>2 DEF MirrorInv, ServedSound
<1>12. ASSUME NEW a \in FetchedCrls, Mirror!CrlServe(a) PROVE MirrorInv(m, k)'
  <2>1. /\ service' = [service EXCEPT !.open = service.open - 1, !.served = [service.served EXCEPT ![a] = heads[a].number]]
        /\ UNCHANGED <<mirrorConn, pair, heads, mirrorShown, serial, mirrorClock, crashes>>
    BY <1>12 DEF Mirror!CrlServe
  <2>2. heads[a].number \in Nat /\ service.served \in [FetchedCrls -> Nat]
    BY <1>t, <1>a DEF MirrorTypes
  <2>3. /\ service' \in [up : BOOLEAN, open : Int, served : [FetchedCrls -> Nat]]
        /\ service'.served = [service.served EXCEPT ![a] = heads[a].number]
    <3>n. service.open - 1 \in Int
      BY <1>t DEF MirrorTypes
    <3>0. PICK n \in Int : n = service.open - 1
      BY <3>n
    <3>m. service' = [service EXCEPT !.open = n, !.served = [service.served EXCEPT ![a] = heads[a].number]]
      BY <2>1, <3>0
    <3>1. /\ service.up \in BOOLEAN
          /\ [service.served EXCEPT ![a] = heads[a].number] \in [FetchedCrls -> Nat]
          /\ service' = [up |-> service.up, open |-> n, served |-> [service.served EXCEPT ![a] = heads[a].number]]
      BY <1>t, <2>2, <3>m DEF MirrorTypes
    <3> QED
      BY <3>1
  <2>4. \A b \in FetchedCrls : service'.served[b] <= heads[b].number
    BY <2>2, <2>3 DEF MirrorInv, ServedSound
  <2> QED
    BY <1>s, <2>1, <2>3, <2>4
<1>13. CASE Mirror!CrlDeny
  <2>1. PICK up \in {service.up, FALSE} :
          /\ service' = [service EXCEPT !.open = service.open - 1, !.up = up]
          /\ UNCHANGED <<mirrorConn, pair, heads, mirrorShown, serial, mirrorClock, crashes>>
    BY <1>13 DEF Mirror!CrlDeny
  <2>2. up \in BOOLEAN
    BY <1>t, <2>1 DEF MirrorTypes
  <2>3. service' \in [up : BOOLEAN, open : Int, served : [FetchedCrls -> Nat]] /\ service'.served = service.served
    <3>n. service.open - 1 \in Int
      BY <1>t DEF MirrorTypes
    <3>0. PICK n \in Int : n = service.open - 1
      BY <3>n
    <3>m. service' = [service EXCEPT !.open = n, !.up = up]
      BY <2>1, <3>0
    <3>1. /\ service.served \in [FetchedCrls -> Nat]
          /\ service' = [up |-> up, open |-> n, served |-> service.served]
      BY <1>t, <3>m DEF MirrorTypes
    <3> QED
      BY <2>2, <3>1
  <2> QED
    BY <1>s, <2>1, <2>3 DEF MirrorInv, ServedSound
<1>14. CASE Ticks
  <2>1. \A d : Mirror!Signer(d)' = Mirror!Signer(d)
    BY <1>14 DEF Ticks, Mirror!Signer
  <2>2. MirrorTypes(m, k)'
    BY <1>t, <1>14 DEF Ticks, MirrorTypes
  <2>3. ComposedSound(m, k)' /\ PairSound(m, k)' /\ ShownSound(m, k)' /\ ServedSound'
    BY <1>14, <2>1 DEF Ticks, MirrorInv, ComposedSound, PairSound, ShownSound, ServedSound
  <2> QED
    BY <2>2, <2>3 DEF MirrorInv
<1>15. CASE Crashes(k)
  <2>1. /\ crashes < k /\ crashes' = crashes + 1 /\ mirrorConn' = Mirror!Idle
        /\ service' = [service EXCEPT !.up = TRUE, !.open = 0]
        /\ UNCHANGED <<pair, heads, mirrorShown, serial, mirrorClock>>
    BY <1>15 DEF Crashes
  <2>2. service' \in [up : BOOLEAN, open : Int, served : [FetchedCrls -> Nat]] /\ service'.served = service.served
    <3>1. /\ service.served \in [FetchedCrls -> Nat]
          /\ service' = [up |-> TRUE, open |-> 0, served |-> service.served]
      BY <1>t, <2>1 DEF MirrorTypes
    <3> QED
      BY <3>1
  <2>3. crashes' \in 0..k
    BY <1>t, <2>1 DEF MirrorTypes
  <2>4. MirrorTypes(m, k)'
    BY <1>t, <2>1, <2>2, <2>3, IdleTyped DEF MirrorTypes
  <2>5. ComposedSound(m, k)'
    BY <2>1, IdleTyped DEF ComposedSound
  <2> QED
    BY <2>1, <2>2, <2>4, <2>5 DEF MirrorInv, PairSound, ShownSound, ServedSound
<1> QED
  BY <1>2, <1>3, <1>4, <1>5, <1>6, <1>7, <1>8, <1>9, <1>10, <1>11, <1>12, <1>13, <1>14, <1>15 DEF Unbounded

\* The invariant holds at first, for any bounds.
LEMMA MirrorInit == \A m, k \in Nat : heads = [a \in Auth(m, k) |-> Mirror!NoCrl] /\ mirrorConn = Mirror!Idle
    /\ pair = [serial |-> 0, stage |-> "none"] /\ service = [up |-> TRUE, open |-> 0, served |-> [a \in FetchedCrls |-> 0]]
    /\ mirrorShown = {} /\ serial = 0 /\ mirrorClock = 1 /\ crashes = 0 => MirrorInv(m, k)
<1> SUFFICES ASSUME NEW m \in Nat, NEW k \in Nat, heads = [a \in Auth(m, k) |-> Mirror!NoCrl], mirrorConn = Mirror!Idle,
                    pair = [serial |-> 0, stage |-> "none"],
                    service = [up |-> TRUE, open |-> 0, served |-> [a \in FetchedCrls |-> 0]],
                    mirrorShown = {}, serial = 0, mirrorClock = 1, crashes = 0
             PROVE  MirrorInv(m, k)
  OBVIOUS
<1>1. \A a \in Auth(m, k) : heads[a] = Mirror!NoCrl /\ heads[a].number = 0 /\ heads[a].listed = {}
  BY DEF Mirror!NoCrl
<1>2. \A a \in FetchedCrls : a \in Auth(m, k)
  BY MirrorAssumption DEF Auth
<1>3. service \in [up : BOOLEAN, open : Int, served : [FetchedCrls -> Nat]]
  <2>1. [a \in FetchedCrls |-> 0] \in [FetchedCrls -> Nat]
    OBVIOUS
  <2> QED
    BY <2>1
<1>4. MirrorTypes(m, k)
  BY <1>1, <1>3, IdleTyped DEF MirrorTypes
<1>5. ComposedSound(m, k)
  BY IdleTyped DEF ComposedSound
<1>6. PairSound(m, k) /\ ShownSound(m, k)
  BY <1>1 DEF PairSound, ShownSound
<1>7. ServedSound
  BY <1>1, <1>2 DEF ServedSound
<1> QED
  BY <1>4, <1>5, <1>6, <1>7 DEF MirrorInv

\* Without crashes, and with them: the two instances take the same steps.
LEMMA MirrorStep == MirrorInv(MaxSerial, 0) /\ Mirror!Next => MirrorInv(MaxSerial, 0)'
<1> SUFFICES ASSUME MirrorInv(MaxSerial, 0), Mirror!Next PROVE MirrorInv(MaxSerial, 0)'
  OBVIOUS
<1>1. mirrorClock \in Int
  BY DEF MirrorInv, MirrorTypes
<1>2. Mirror!FindPair => Finds(MaxSerial)
  BY DEF Mirror!FindPair, Finds
<1>3. Mirror!StartMirror => Starts(MaxSerial)
  BY DEF Mirror!StartMirror, Starts
<1>4. Mirror!Crash => Crashes(0)
  BY DEF Mirror!Crash, Crashes
<1>5. Mirror!ClockMoves => Ticks
  BY <1>1 DEF Mirror!ClockMoves, Ticks
<1>6. Unbounded \/ Finds(MaxSerial) \/ Starts(MaxSerial) \/ Crashes(0) \/ Ticks
  BY <1>2, <1>3, <1>4, <1>5 DEF Mirror!Next, Unbounded
<1> QED
  BY <1>6, MirrorAssumption, MirrorKeeps

\* The instance with crashes takes the same steps.
LEMMA RestartStep == MirrorInv(2, MaxCrashes) /\ Restart!Next => MirrorInv(2, MaxCrashes)'
<1> SUFFICES ASSUME MirrorInv(2, MaxCrashes), Restart!Next PROVE MirrorInv(2, MaxCrashes)'
  OBVIOUS
<1>1. mirrorClock \in Int
  BY DEF MirrorInv, MirrorTypes
<1>2. Restart!FindPair => Finds(2)
  BY DEF Restart!FindPair, Finds, Restart!Idle, Mirror!Idle
<1>3. Restart!StartMirror => Starts(2)
  BY DEF Restart!StartMirror, Starts, Restart!Deepest, Mirror!Deepest, Restart!Origins, Mirror!Origins, Restart!Depths, Mirror!Depths
<1>4. Restart!Crash => Crashes(MaxCrashes)
  BY DEF Restart!Crash, Crashes, Restart!Idle, Mirror!Idle
<1>5. Restart!ClockMoves => Ticks
  BY <1>1 DEF Restart!ClockMoves, Ticks
<1>6. /\ Restart!Idle = Mirror!Idle
      /\ \A d : Restart!Signer(d) = Mirror!Signer(d)
      /\ Restart!Mirrored = Mirror!Mirrored
      /\ \A crl, s, time : /\ Restart!Published(crl, s, time) = Mirror!Published(crl, s, time)
                           /\ Restart!Kept(crl, s, time) = Mirror!Kept(crl, s, time)
                           /\ Restart!Current(crl, time) = Mirror!Current(crl, time)
                           /\ Restart!Listing(crl, s) = Mirror!Listing(crl, s)
                           /\ Restart!Publishable(crl, s, time) = Mirror!Publishable(crl, s, time)
  BY DEF Restart!Idle, Mirror!Idle, Restart!Signer, Mirror!Signer, Restart!Mirrored, Mirror!Mirrored, Restart!Published,
     Mirror!Published, Restart!Kept, Mirror!Kept, Restart!Listing, Mirror!Listing, Restart!Publishable, Mirror!Publishable,
     Restart!Current, Mirror!Current, Restart!Cardinality, Mirror!Cardinality
<1>7. Restart!Refuse \/ Restart!Finished \/ Restart!AdvancePair \/ Restart!PresentPair => Unbounded
  BY <1>6 DEF Unbounded, Restart!Refuse, Restart!Finished, Restart!AdvancePair, Restart!PresentPair,
     Mirror!Refuse, Mirror!Finished, Mirror!AdvancePair, Mirror!PresentPair
<1>8. Restart!PublishMirror \/ Restart!ValidateMirror \/ Restart!PresentMirror \/ Restart!HealthPublishes => Unbounded
  BY <1>6 DEF Unbounded, Restart!PublishMirror, Restart!ValidateMirror, Restart!PresentMirror, Restart!HealthPublishes,
     Mirror!PublishMirror, Mirror!ValidateMirror, Mirror!PresentMirror, Mirror!HealthPublishes
<1>9. Restart!CrlAccept \/ (\E a \in FetchedCrls : Restart!CrlServe(a)) \/ Restart!CrlDeny => Unbounded
  BY <1>6 DEF Unbounded, Restart!CrlAccept, Restart!CrlServe, Restart!CrlDeny, Mirror!CrlAccept, Mirror!CrlServe, Mirror!CrlDeny
<1>10. Unbounded \/ Finds(2) \/ Starts(2) \/ Crashes(MaxCrashes) \/ Ticks
  BY <1>2, <1>3, <1>4, <1>5, <1>7, <1>8, <1>9 DEF Restart!Next
<1> QED
  BY <1>10, MirrorAssumption, MirrorKeeps

-----------------------------------------------------------------------------
(***************************************************************************)
(* The status of a certificate.                                            *)
(***************************************************************************)

\* A depth is clean when the newest CRL taken for any reason does not revoke for it, and
\* a revocation is earned when some evidence says it.
Stages == {"idle", "status", "crls", "deltas", "acquired"}
Numbered(d, w) == w.number \in 1..Len(ca[d])
Clean(d) ==
    \A r \in Reasons : \E w \in statusConn.wires[d] :
      /\ r \in w.scope /\ ca[d][w.number] # r
      /\ \A x \in statusConn.wires[d] : r \in x.scope => x.number <= w.number
Earned(d) ==
    \/ Status!Revoking(statusConn.staple[d])
    \/ \E w \in statusConn.wires[d] : ca[d][w.number] \in w.scope
\* The depths that are done, and the one that is begun.
Past(d) == d < statusConn.at
Begun(d) == d = statusConn.at /\ statusConn.pc \in {"crls", "deltas"}

StatusTyped ==
    /\ ca = [d \in DOMAIN Advertised |-> ca[d]]
    /\ \A d \in DOMAIN Advertised : ca[d] \in Seq({"none"} \cup Reasons)
    /\ statusConn = [pc |-> statusConn.pc, at |-> statusConn.at, staple |-> statusConn.staple,
                     revoked |-> statusConn.revoked, wires |-> statusConn.wires, left |-> statusConn.left,
                     count |-> statusConn.count]
    /\ statusConn.pc \in Stages /\ statusConn.at \in Nat
    /\ statusConn.staple = [d \in DOMAIN Advertised |-> statusConn.staple[d]]
    /\ statusConn.wires = [d \in DOMAIN Advertised |-> statusConn.wires[d]]
    /\ statusConn.revoked \subseteq DOMAIN Advertised
    /\ \A d \in DOMAIN Advertised : \A w \in statusConn.wires[d] : Numbered(d, w)

\* A depth that is past without a revocation was clean, and a revocation is earned.
StatusInv ==
    /\ StatusTyped
    /\ \A d \in DOMAIN Advertised :
         Past(d) \/ Begun(d) => (Status!Revoking(statusConn.staple[d]) => d \in statusConn.revoked)
    /\ \A d \in DOMAIN Advertised :
         Past(d) /\ d \notin statusConn.revoked /\ statusConn.wires[d] # {} => Clean(d)
    /\ \A d \in statusConn.revoked : (Past(d) \/ Begun(d)) /\ Earned(d)

\* The newest of the CRLs taken for a depth.
LEMMA LatestExists ==
  ASSUME StatusTyped, NEW d \in DOMAIN Advertised, NEW ms, ms \subseteq statusConn.wires[d], ms # {}
  PROVE  /\ Status!Latest(ms) \in ms
         /\ \A x \in ms : x.number <= Status!Latest(ms).number
<1>1. PICK T : T = {w.number : w \in ms}
  OBVIOUS
<1>2. PICK top \in Nat : top = Len(ca[d])
  BY DEF StatusTyped
<1>3. \A w \in ms : w.number \in Nat /\ w.number <= top
  BY <1>2 DEF StatusTyped, Numbered
<1>4. T \in SUBSET Nat /\ T # {} /\ \A x \in T : x <= top
  BY <1>1, <1>3
<1>5. PICK n \in T : \A m \in T : m <= n
  BY <1>2, <1>4, GreatestExists
<1>6. \E w \in ms : \A x \in ms : x.number <= w.number
  BY <1>1, <1>5
<1> QED
  BY <1>6 DEF Status!Latest

\* A delta that is applied is the newest that matches its base, and names a reason of its
\* scope, or lifts the base's.
LEMMA StandingOf ==
  ASSUME StatusTyped, NEW d \in DOMAIN Advertised, NEW b \in Status!Bases(statusConn.wires[d]),
         NEW ms, ms = Status!Matching(b, statusConn.wires[d])
  PROVE  /\ ms = {} => Status!Standing(d, b, statusConn.wires[d]) =
                         (IF ca[d][b.number] \in b.scope THEN ca[d][b.number] ELSE "none")
         /\ ms # {} /\ ca[d][Status!Latest(ms).number] \in Status!Latest(ms).scope \cap Reasons =>
              Status!Standing(d, b, statusConn.wires[d]) = ca[d][Status!Latest(ms).number]
         /\ Status!Standing(d, b, statusConn.wires[d]) # "none" =>
              \E w \in statusConn.wires[d] : ca[d][w.number] \in w.scope
<1>1. b \in statusConn.wires[d] /\ b.since = 0
  BY DEF Status!Bases
<1>2. Status!Entry(d, b) = IF ca[d][b.number] \in b.scope THEN ca[d][b.number] ELSE "none"
  BY <1>1 DEF Status!Entry, Status!None
<1>3. CASE ms = {}
  <2>1. Status!Standing(d, b, statusConn.wires[d]) = Status!Entry(d, b)
    BY <1>3 DEF Status!Standing, Status!None
  <2> QED
    BY <1>1, <1>2, <1>3, <2>1
<1>4. CASE ms # {}
  <2>0. ms \subseteq statusConn.wires[d]
    BY DEF Status!Matching, Status!Deltas
  <2>1. PICK w \in ms : w = Status!Latest(ms)
    BY <1>4, <2>0, LatestExists
  <2>2. w \in statusConn.wires[d] /\ ca[d][w.number] \in {"none"} \cup Reasons
    BY <2>0 DEF StatusTyped, Numbered
  <2>3. \/ ca[d][w.number] \in w.scope /\ ca[d][w.number] # "none" /\ Status!Entry(d, w) = ca[d][w.number]
        \/ Status!Entry(d, w) \in {"none", "lifted"}
    BY DEF Status!Entry, Status!None
  <2>4. Status!Standing(d, b, statusConn.wires[d]) =
          IF Status!Entry(d, w) = "lifted" THEN "none"
          ELSE IF Status!Entry(d, w) = "none" THEN Status!Entry(d, b) ELSE Status!Entry(d, w)
    BY <1>4, <2>1 DEF Status!Standing, Status!None
  <2>5. ca[d][w.number] \in w.scope \cap Reasons => Status!Entry(d, w) = ca[d][w.number]
    BY StatusAssumption DEF Status!Entry, Status!None
  <2>6. ca[d][w.number] \in w.scope \cap Reasons => Status!Standing(d, b, statusConn.wires[d]) = ca[d][w.number]
    BY <2>4, <2>5, StatusAssumption
  <2>7. Status!Standing(d, b, statusConn.wires[d]) # "none" =>
              \E x \in statusConn.wires[d] : ca[d][x.number] \in x.scope
    BY <1>1, <1>2, <2>2, <2>3, <2>4
  <2> QED
    BY <1>4, <2>1, <2>6, <2>7
<1> QED
  BY <1>3, <1>4

\* CRLs that conclude without a revocation revoke for no reason, the newest of each at least.
LEMMA ConcludedClean ==
  ASSUME StatusTyped, NEW d \in DOMAIN Advertised, Status!Conclusive(d, statusConn.wires[d]),
         ~Status!CrlRevoked(d, statusConn.wires[d])
  PROVE  Clean(d)
<1> SUFFICES ASSUME NEW r \in Reasons
             PROVE  \E w \in statusConn.wires[d] :
                      /\ r \in w.scope /\ ca[d][w.number] # r
                      /\ \A x \in statusConn.wires[d] : r \in x.scope => x.number <= w.number
  BY DEF Clean
<1>1. PICK ws : ws = statusConn.wires[d]
  OBVIOUS
<1>2. PICK rs : rs = {w \in ws : r \in w.scope}
  OBVIOUS
<1>3. rs # {}
  <2>1. UNION {b.scope : b \in Status!Bases(ws)} = Reasons
    BY <1>1 DEF Status!Conclusive
  <2>2. PICK b \in Status!Bases(ws) : r \in b.scope
    BY <2>1
  <2> QED
    BY <1>2, <2>2 DEF Status!Bases
<1>4. PICK w \in rs : \A x \in rs : x.number <= w.number
  BY <1>1, <1>2, <1>3, LatestExists
<1>5. \A x \in ws : x.number \in Nat
  BY <1>1 DEF StatusTyped, Numbered
<1>6. ca[d][w.number] # r
  <2> SUFFICES ASSUME ca[d][w.number] = r PROVE FALSE
    OBVIOUS
  <2>1. \A b \in Status!Bases(ws) : Status!Standing(d, b, ws) = "none"
    BY <1>1 DEF Status!CrlRevoked, Status!None
  <2>2. r # "none"
    BY StatusAssumption
  <2>3. CASE w \in Status!Bases(ws)
    <3>1. \A x \in Status!Matching(w, ws) : x \in rs /\ w.number < x.number
      BY <1>2 DEF Status!Matching, Status!Deltas
    <3>2. Status!Matching(w, ws) = {}
      BY <1>2, <1>4, <1>5, <3>1
    <3>3. Status!Standing(d, w, ws) = r
      BY <1>1, <1>2, <2>3, <3>2, StandingOf
    <3> QED
      BY <2>1, <2>2, <2>3, <3>3
  <2>4. CASE w \notin Status!Bases(ws)
    <3>1. PICK b \in Status!Bases(ws) : w \in Status!Matching(b, ws)
      BY <1>1, <1>2, <2>4 DEF Status!Conclusive, Status!Unused, Status!Deltas
    <3>2. PICK ms : ms = Status!Matching(b, ws)
      OBVIOUS
    <3>3. ms # {} /\ ms \subseteq rs
      BY <1>2, <3>1, <3>2 DEF Status!Matching, Status!Deltas
    <3>4. PICK l \in ms : l = Status!Latest(ms) /\ w.number <= l.number
      BY <1>1, <1>2, <3>1, <3>2, <3>3, LatestExists
    <3>5. l.number = w.number /\ r \in l.scope
      BY <1>2, <1>4, <1>5, <3>3, <3>4
    <3>6. ca[d][Status!Latest(ms).number] \in Status!Latest(ms).scope \cap Reasons
      BY <3>4, <3>5
    <3>7. Status!Standing(d, b, ws) = r
      BY <1>1, <3>2, <3>3, <3>4, <3>5, <3>6, StandingOf
    <3> QED
      BY <2>1, <2>2, <3>1, <3>7
  <2> QED
    BY <2>3, <2>4
<1> QED
  BY <1>1, <1>2, <1>4, <1>6

\* CRLs that conclude with a revocation have one that says it.
LEMMA ConcludedEarned ==
  ASSUME StatusTyped, NEW d \in DOMAIN Advertised, Status!CrlRevoked(d, statusConn.wires[d])
  PROVE  \E w \in statusConn.wires[d] : ca[d][w.number] \in w.scope
  BY StandingOf DEF Status!CrlRevoked, Status!None

\* The invariant is what is promised of the status of a certificate.
LEMMA StatusMeans == StatusInv => Status!StatusIsTrue
<1> SUFFICES ASSUME StatusInv PROVE Status!StatusIsTrue
  OBVIOUS
<1>1. Status!RevocationsAreEarned
  BY DEF StatusInv, Earned, Status!RevocationsAreEarned
<1>2. ASSUME NEW d \in DOMAIN Advertised, d \notin statusConn.revoked, d < statusConn.at
      PROVE  /\ ~Status!Revoking(statusConn.staple[d])
             /\ statusConn.wires[d] # {} => \A r \in Reasons : ca[d][Status!Newest(d, r)] # r
  <2>1. ~Status!Revoking(statusConn.staple[d])
    BY <1>2 DEF StatusInv, Past
  <2>2. ASSUME statusConn.wires[d] # {}, NEW r \in Reasons PROVE ca[d][Status!Newest(d, r)] # r
    <3>1. PICK w \in statusConn.wires[d] :
            /\ r \in w.scope /\ ca[d][w.number] # r
            /\ \A x \in statusConn.wires[d] : r \in x.scope => x.number <= w.number
      BY <1>2, <2>2 DEF StatusInv, Past, Clean
    <3>2. PICK ns : ns = {x.number : x \in {y \in statusConn.wires[d] : r \in y.scope}}
      OBVIOUS
    <3>3. ns \subseteq Nat /\ w.number \in ns /\ \A m \in ns : m <= w.number
      BY <1>2, <3>1, <3>2 DEF StatusInv, StatusTyped, Numbered
    <3>4. Status!Newest(d, r) = CHOOSE n \in ns : \A m \in ns : m <= n
      BY <3>2 DEF Status!Newest
    <3>5. Status!Newest(d, r) \in ns /\ \A m \in ns : m <= Status!Newest(d, r)
      BY <3>3, <3>4
    <3>6. Status!Newest(d, r) = w.number
      <4>1. PICK n, o \in Nat : n = Status!Newest(d, r) /\ o = w.number
        BY <3>3, <3>5
      <4>2. n <= o /\ o <= n
        BY <3>3, <3>5, <4>1
      <4> QED
        BY <4>1, <4>2
    <3> QED
      BY <3>1, <3>6
  <2> QED
    BY <2>1, <2>2
<1>3. Status!NoRevocationMasked
  BY <1>2 DEF Status!NoRevocationMasked, Status!Depths
<1> QED
  BY <1>1, <1>3 DEF Status!StatusIsTrue

\* The invariant holds at first.
LEMMA StatusInit == Status!Init => StatusInv
<1> SUFFICES ASSUME Status!Init PROVE StatusInv
  OBVIOUS
<1>1. <<"none">> \in Seq({"none"} \cup Reasons)
  OBVIOUS
<1> QED
  BY <1>1, StatusAssumption DEF Status!Init, Status!Idle, Status!Depths, Status!None, StatusInv, StatusTyped, Stages, Past, Begun, Numbered

\* Every step of a status acquisition keeps the invariant.
LEMMA StatusStep == StatusInv /\ Status!Next => StatusInv'
<1> SUFFICES ASSUME StatusInv, Status!Next PROVE StatusInv'
  OBVIOUS
<1>t. StatusTyped
  BY DEF StatusInv
<1>v. /\ \A d \in DOMAIN Advertised :
           Past(d) \/ Begun(d) => (Status!Revoking(statusConn.staple[d]) => d \in statusConn.revoked)
      /\ \A d \in DOMAIN Advertised :
           Past(d) /\ d \notin statusConn.revoked /\ statusConn.wires[d] # {} => Clean(d)
      /\ \A d \in statusConn.revoked : (Past(d) \/ Begun(d)) /\ Earned(d)
  BY DEF StatusInv
<1>i. ASSUME statusConn' = Status!Idle, UNCHANGED ca PROVE StatusInv'
  <2>1. /\ statusConn'.pc = "idle" /\ statusConn'.at = 0 /\ statusConn'.revoked = {}
        /\ StatusTyped'
    BY <1>t, <1>i DEF Status!Idle, Status!Depths, StatusTyped, Stages
  <2> QED
    BY <2>1, StatusAssumption DEF StatusInv, Past, Begun
<1>1. ASSUME NEW d \in DOMAIN Advertised, Status!IssuerPublishes(d) PROVE StatusInv'
  <2>1. PICK s \in {"none"} \cup Reasons : ca' = [ca EXCEPT ![d] = Append(ca[d], s)]
    BY <1>1 DEF Status!IssuerPublishes, Status!None
  <2>2. UNCHANGED statusConn
    BY <1>1 DEF Status!IssuerPublishes
  <2>3. /\ ca' = [e \in DOMAIN Advertised |-> ca'[e]]
        /\ \A e \in DOMAIN Advertised : e # d => ca'[e] = ca[e]
        /\ ca'[d] = Append(ca[d], s)
    BY <1>t, <2>1 DEF StatusTyped
  <2>4. \A e \in DOMAIN Advertised :
          /\ ca'[e] \in Seq({"none"} \cup Reasons)
          /\ \A w : Numbered(e, w) => Numbered(e, w)' /\ ca'[e][w.number] = ca[e][w.number]
    <3>1. PICK q \in Seq({"none"} \cup Reasons) : q = ca[d]
      BY <1>t DEF StatusTyped
    <3>2. /\ Append(q, s) \in Seq({"none"} \cup Reasons)
          /\ \A n \in 1..Len(q) : n \in 1..Len(Append(q, s)) /\ Append(q, s)[n] = q[n]
      OBVIOUS
    <3>3. /\ ca'[d] \in Seq({"none"} \cup Reasons)
          /\ \A w : Numbered(d, w) => Numbered(d, w)' /\ ca'[d][w.number] = ca[d][w.number]
      BY <2>3, <3>1, <3>2 DEF Numbered
    <3>4. \A e \in DOMAIN Advertised : ca[e] \in Seq({"none"} \cup Reasons)
      BY <1>t DEF StatusTyped
    <3>5. \A e \in DOMAIN Advertised : e # d =>
            /\ ca'[e] \in Seq({"none"} \cup Reasons)
            /\ \A w : Numbered(e, w) => Numbered(e, w)' /\ ca'[e][w.number] = ca[e][w.number]
      BY <2>3, <3>4 DEF Numbered
    <3> QED
      BY ONLY <3>3, <3>5
  <2>5. StatusTyped'
    BY <1>t, <2>2, <2>3, <2>4 DEF StatusTyped
  <2>6. \A e \in DOMAIN Advertised :
          /\ Status!Revoking(statusConn.staple[e])' = Status!Revoking(statusConn.staple[e])
          /\ Past(e)' = Past(e) /\ Begun(e)' = Begun(e)
          /\ Clean(e) => Clean(e)'
          /\ Earned(e) => Earned(e)'
    <3>1. ASSUME NEW e \in DOMAIN Advertised
          PROVE  \A w \in statusConn.wires[e] : ca'[e][w.number] = ca[e][w.number]
      BY <1>t, <2>4 DEF StatusTyped
    <3>2. \A e \in DOMAIN Advertised : Clean(e) => Clean(e)'
      BY <2>2, <3>1 DEF Clean
    <3>3. \A e \in DOMAIN Advertised : Earned(e) => Earned(e)'
      BY <2>2, <3>1 DEF Earned, Status!Revoking
    <3> QED
      BY <2>2, <3>2, <3>3 DEF Past, Begun, Status!Revoking
  <2> QED
    BY <1>t, <1>v, <2>2, <2>5, <2>6 DEF StatusInv, StatusTyped
<1>2. CASE Status!Observe
  <2>1. PICK r : statusConn' = [Status!Idle EXCEPT !.pc = "status", !.staple = [Status!Idle.staple EXCEPT ![0] = r]]
    BY <1>2 DEF Status!Observe
  <2>2. UNCHANGED ca
    BY <1>2 DEF Status!Observe
  <2>3. /\ statusConn'.pc = "status" /\ statusConn'.at = 0 /\ statusConn'.revoked = {}
        /\ StatusTyped'
    BY <1>t, <2>1, <2>2 DEF Status!Idle, Status!Depths, StatusTyped, Stages
  <2> QED
    BY <2>3, StatusAssumption DEF StatusInv, Past, Begun
<1>3. CASE Status!TakeStatus
  <2>1. PICK d \in DOMAIN Advertised : d = statusConn.at
    BY <1>3 DEF Status!TakeStatus, Status!Asking, Status!Depths
  <2>0. \E r : statusConn' = [statusConn EXCEPT !.pc = "crls",
                !.staple = [statusConn.staple EXCEPT ![statusConn.at] = r],
                !.revoked = IF Status!Revoking(r) THEN statusConn.revoked \cup {statusConn.at} ELSE statusConn.revoked,
                !.left = Advertised[statusConn.at].crls,
                !.count = IF ~statusConn.staple[statusConn.at].given /\ Advertised[statusConn.at].ocsp
                            THEN statusConn.count + 1 ELSE statusConn.count]
    BY <1>3 DEF Status!TakeStatus
  <2>2. PICK r, left, count :
          /\ statusConn.pc = "status"
          /\ statusConn' = [statusConn EXCEPT !.pc = "crls", !.staple = [statusConn.staple EXCEPT ![d] = r],
                !.revoked = IF Status!Revoking(r) THEN statusConn.revoked \cup {d} ELSE statusConn.revoked,
                !.left = left, !.count = count]
    <3>1. statusConn.pc = "status"
      BY <1>3 DEF Status!TakeStatus, Status!Asking
    <3>2. PICK r : statusConn' = [statusConn EXCEPT !.pc = "crls", !.staple = [statusConn.staple EXCEPT ![d] = r],
                !.revoked = IF Status!Revoking(r) THEN statusConn.revoked \cup {d} ELSE statusConn.revoked,
                !.left = Advertised[d].crls,
                !.count = IF ~statusConn.staple[d].given /\ Advertised[d].ocsp
                            THEN statusConn.count + 1 ELSE statusConn.count]
      BY <2>0, <2>1
    <3> QED
      BY <3>1, <3>2
  <2>3. UNCHANGED ca
    BY <1>3 DEF Status!TakeStatus
  <2>4. /\ statusConn'.pc = "crls" /\ statusConn'.at = statusConn.at /\ statusConn'.wires = statusConn.wires
        /\ statusConn'.staple[d] = r /\ \A e \in DOMAIN Advertised : e # d => statusConn'.staple[e] = statusConn.staple[e]
        /\ statusConn'.revoked = IF Status!Revoking(r) THEN statusConn.revoked \cup {d} ELSE statusConn.revoked
        /\ StatusTyped'
    BY <1>t, <2>1, <2>2, <2>3 DEF StatusTyped, Stages, Numbered
  <2>5. \A e \in DOMAIN Advertised :
          /\ e # d => Status!Revoking(statusConn.staple[e])' = Status!Revoking(statusConn.staple[e])
          /\ Status!Revoking(statusConn.staple[d])' = Status!Revoking(r)
          /\ Past(e)' = Past(e) /\ Begun(e)' = (e = d) /\ ~Begun(e)
          /\ Clean(e)' = Clean(e)
          /\ e # d => Earned(e)' = Earned(e)
    BY <2>1, <2>2, <2>3, <2>4 DEF Past, Begun, Clean, Earned, Status!Revoking
  <2>6. ~Past(d) /\ d \notin statusConn.revoked
    BY <1>t, <1>v, <2>1, <2>5 DEF Past, StatusTyped
  <2>7. Status!Revoking(r) => Earned(d)'
    BY <2>5 DEF Earned
  <2>8. statusConn.revoked \subseteq DOMAIN Advertised
    BY <1>t DEF StatusTyped
  <2>9. \A e \in DOMAIN Advertised :
          (Past(e) \/ Begun(e))' => (Status!Revoking(statusConn.staple[e])' => e \in statusConn'.revoked)
    BY <1>v, <2>4, <2>5, <2>6
  <2>10. \A e \in DOMAIN Advertised : Past(e)' /\ e \notin statusConn'.revoked /\ statusConn'.wires[e] # {} => Clean(e)'
    BY <1>v, <2>4, <2>5, <2>6
  <2>11. ASSUME NEW e \in statusConn'.revoked PROVE (Past(e) \/ Begun(e))' /\ Earned(e)'
    <3>0. e \in DOMAIN Advertised /\ (e # d => e \in statusConn.revoked)
      BY <2>4, <2>8
    <3>1. CASE e = d
      BY <2>4, <2>5, <2>6, <2>7, <3>0, <3>1
    <3>2. CASE e # d
      BY <1>v, <2>4, <2>5, <2>8, <3>0, <3>2
    <3> QED
      BY <3>1, <3>2
  <2> QED
    BY <2>4, <2>9, <2>10, <2>11 DEF StatusInv
<1>4. ASSUME NEW d \in DOMAIN Advertised, d = statusConn.at, statusConn.pc \in {"crls", "deltas"}, UNCHANGED ca,
             NEW w, Numbered(d, w), NEW left, NEW count,
             statusConn' = [statusConn EXCEPT !.left = left, !.count = count,
                !.wires[d] = statusConn.wires[d] \cup {w}]
      PROVE  StatusInv'
  <2>1. /\ statusConn'.pc = statusConn.pc /\ statusConn'.at = statusConn.at /\ statusConn'.staple = statusConn.staple
        /\ statusConn'.revoked = statusConn.revoked /\ statusConn'.wires[d] = statusConn.wires[d] \cup {w}
        /\ \A e \in DOMAIN Advertised : e # d => statusConn'.wires[e] = statusConn.wires[e]
        /\ StatusTyped'
    BY <1>t, <1>4 DEF StatusTyped, Numbered
  <2>2. \A e \in DOMAIN Advertised :
          /\ Status!Revoking(statusConn.staple[e])' = Status!Revoking(statusConn.staple[e])
          /\ Past(e)' = Past(e) /\ Begun(e)' = Begun(e)
          /\ e # d => Clean(e)' = Clean(e)
          /\ Earned(e) => Earned(e)'
    BY <1>4, <2>1 DEF Past, Begun, Clean, Earned, Status!Revoking
  <2>3. ~Past(d)
    BY <1>t, <1>4 DEF Past, StatusTyped
  <2>4. statusConn.revoked \subseteq DOMAIN Advertised
    BY <1>t DEF StatusTyped
  <2> QED
    BY <1>v, <2>1, <2>2, <2>3, <2>4 DEF StatusInv
<1>5. CASE Status!TakeBase
  <2>1. PICK d \in DOMAIN Advertised : d = statusConn.at
    BY <1>5 DEF Status!TakeBase, Status!Asking, Status!Depths
  <2>0. \E e \in statusConn.left, n \in 1..Len(ca[statusConn.at]) :
       statusConn' = [statusConn EXCEPT !.left = statusConn.left \ {e}, !.count = statusConn.count + 1,
                  !.wires[statusConn.at] = statusConn.wires[statusConn.at] \cup
                     {[from |-> e, scope |-> e[1], number |-> n, since |-> 0]}]
    BY <1>5 DEF Status!TakeBase
  <2>2. PICK e \in statusConn.left, n \in 1..Len(ca[d]) :
       statusConn' = [statusConn EXCEPT !.left = statusConn.left \ {e}, !.count = statusConn.count + 1,
                  !.wires[d] = statusConn.wires[d] \cup
                     {[from |-> e, scope |-> e[1], number |-> n, since |-> 0]}]
    BY <2>0, <2>1
  <2>3. statusConn.pc = "crls" /\ UNCHANGED ca
    BY <1>5 DEF Status!TakeBase, Status!Asking
  <2>4. PICK w : w = [from |-> e, scope |-> e[1], number |-> n, since |-> 0]
    OBVIOUS
  <2>5. Numbered(d, w)
    BY <2>4 DEF Numbered
  <2> QED
    BY <1>4, <2>1, <2>2, <2>3, <2>4, <2>5
<1>6. CASE Status!TakeDelta
  <2>1. PICK d \in DOMAIN Advertised : d = statusConn.at
    BY <1>6 DEF Status!TakeDelta, Status!Asking, Status!Depths
  <2>0. \E e \in statusConn.left, n \in 2..Len(ca[statusConn.at]) : \E m \in 1..n - 1 :
       statusConn' = [statusConn EXCEPT !.left = statusConn.left \ {e}, !.count = statusConn.count + 1,
                  !.wires[statusConn.at] = statusConn.wires[statusConn.at] \cup
                     {[from |-> e, scope |-> e[1], number |-> n, since |-> m]}]
    BY <1>6 DEF Status!TakeDelta
  <2>2. PICK e \in statusConn.left, n \in 2..Len(ca[d]) : \E m \in 1..n - 1 :
       statusConn' = [statusConn EXCEPT !.left = statusConn.left \ {e}, !.count = statusConn.count + 1,
                  !.wires[d] = statusConn.wires[d] \cup
                     {[from |-> e, scope |-> e[1], number |-> n, since |-> m]}]
    BY <2>0, <2>1
  <2>3. statusConn.pc = "deltas" /\ UNCHANGED ca
    BY <1>6 DEF Status!TakeDelta, Status!Asking
  <2>4. PICK m : statusConn' = [statusConn EXCEPT !.left = statusConn.left \ {e}, !.count = statusConn.count + 1,
                  !.wires[d] = statusConn.wires[d] \cup
                     {[from |-> e, scope |-> e[1], number |-> n, since |-> m]}]
    BY <2>2
  <2>5. PICK w : w = [from |-> e, scope |-> e[1], number |-> n, since |-> m]
    OBVIOUS
  <2>6. Numbered(d, w)
    BY <1>t, <2>5 DEF Numbered, StatusTyped
  <2> QED
    BY <1>4, <2>1, <2>3, <2>4, <2>5, <2>6
<1>7. CASE Status!BasesTaken
  <2>1. PICK left : statusConn' = [statusConn EXCEPT !.pc = "deltas", !.left = left]
    BY <1>7 DEF Status!BasesTaken
  <2>2. statusConn.pc = "crls" /\ UNCHANGED ca
    BY <1>7 DEF Status!BasesTaken, Status!Asking
  <2>3. /\ statusConn'.pc = "deltas" /\ statusConn'.at = statusConn.at /\ statusConn'.staple = statusConn.staple
        /\ statusConn'.revoked = statusConn.revoked /\ statusConn'.wires = statusConn.wires
        /\ StatusTyped'
    BY <1>t, <2>1, <2>2 DEF StatusTyped, Stages, Numbered
  <2>4. \A e \in DOMAIN Advertised :
          /\ Status!Revoking(statusConn.staple[e])' = Status!Revoking(statusConn.staple[e])
          /\ Past(e)' = Past(e) /\ Begun(e)' = Begun(e)
          /\ Clean(e)' = Clean(e) /\ Earned(e)' = Earned(e)
    BY <2>2, <2>3 DEF Past, Begun, Clean, Earned, Status!Revoking
  <2>5. statusConn.revoked \subseteq DOMAIN Advertised
    BY <1>t DEF StatusTyped
  <2> QED
    BY <1>v, <2>3, <2>4, <2>5 DEF StatusInv
<1>8. CASE Status!Conclude
  <2>1. PICK d \in DOMAIN Advertised : d = statusConn.at
    BY <1>8 DEF Status!Conclude, Status!Asking, Status!Depths
  <2>2. PICK ws : ws = statusConn.wires[d]
    OBVIOUS
  <2>3. /\ ws # {} => Status!Conclusive(d, ws)
        /\ statusConn' = [statusConn EXCEPT !.at = statusConn.at + 1,
                      !.pc = IF d + 1 \in DOMAIN Advertised THEN "status" ELSE "acquired",
                      !.revoked = IF Status!CrlRevoked(d, ws) THEN statusConn.revoked \cup {d} ELSE statusConn.revoked]
        /\ statusConn.pc = "deltas" /\ UNCHANGED ca
    BY <1>8, <2>1, <2>2 DEF Status!Conclude, Status!Asking, Status!Depths
  <2>4. /\ statusConn'.pc \in {"status", "acquired"} /\ statusConn'.at = statusConn.at + 1
        /\ statusConn'.staple = statusConn.staple /\ statusConn'.wires = statusConn.wires
        /\ statusConn'.revoked = IF Status!CrlRevoked(d, ws) THEN statusConn.revoked \cup {d} ELSE statusConn.revoked
        /\ StatusTyped'
    <3>0. PICK stage \in {"status", "acquired"} :
            stage = IF d + 1 \in DOMAIN Advertised THEN "status" ELSE "acquired"
      OBVIOUS
    <3>1. PICK n \in Nat : n = statusConn.at + 1
      BY <1>t DEF StatusTyped
    <3>2. PICK rs : rs = IF Status!CrlRevoked(d, ws) THEN statusConn.revoked \cup {d} ELSE statusConn.revoked
      OBVIOUS
    <3>3. statusConn' = [statusConn EXCEPT !.at = n, !.pc = stage, !.revoked = rs]
      BY <2>3, <3>0, <3>1, <3>2
    <3>4. rs \subseteq DOMAIN Advertised
      BY <1>t, <3>2 DEF StatusTyped
    <3>5. /\ statusConn'.pc = stage /\ statusConn'.at = n /\ statusConn'.revoked = rs
          /\ statusConn'.staple = statusConn.staple /\ statusConn'.wires = statusConn.wires
          /\ StatusTyped'
      BY <1>t, <2>3, <3>3, <3>4 DEF StatusTyped, Stages, Numbered
    <3> QED
      BY <3>0, <3>1, <3>2, <3>5
  <2>5. \A e \in DOMAIN Advertised :
          /\ Status!Revoking(statusConn.staple[e])' = Status!Revoking(statusConn.staple[e])
          /\ Clean(e)' = Clean(e) /\ Earned(e)' = Earned(e)
    BY <2>3, <2>4 DEF Clean, Earned, Status!Revoking
  <2>6. \A e \in DOMAIN Advertised : ~Begun(e)' /\ Past(e)' = (Past(e) \/ e = d)
    BY <1>t, <2>1, <2>4, StatusAssumption DEF StatusTyped, Past, Begun
  <2>7. Begun(d) /\ (\A e \in DOMAIN Advertised : Begun(e) => e = d) /\ statusConn.revoked \subseteq DOMAIN Advertised
    BY <1>t, <2>1, <2>3 DEF Begun, StatusTyped
  <2>8. Status!CrlRevoked(d, ws) => Earned(d)
    BY <1>t, <2>2, ConcludedEarned DEF Earned
  <2>9. ~Status!CrlRevoked(d, ws) /\ ws # {} => Clean(d)
    BY <1>t, <2>2, <2>3, ConcludedClean
  <2>10. \A e \in statusConn'.revoked : (Past(e) \/ Begun(e))' /\ Earned(e)'
    BY <1>v, <2>4, <2>5, <2>6, <2>7, <2>8
  <2>11. \A e \in DOMAIN Advertised :
           (Past(e) \/ Begun(e))' => (Status!Revoking(statusConn.staple[e])' => e \in statusConn'.revoked)
    BY <1>v, <2>4, <2>5, <2>6, <2>7
  <2>12. \A e \in DOMAIN Advertised : Past(e)' /\ e \notin statusConn'.revoked /\ statusConn'.wires[e] # {} => Clean(e)'
    BY <1>v, <2>2, <2>4, <2>5, <2>6, <2>9
  <2> QED
    BY <2>4, <2>10, <2>11, <2>12 DEF StatusInv
<1>9. CASE Status!Refuse \/ Status!Handed
  BY <1>i, <1>9 DEF Status!Refuse, Status!Handed
<1> QED
  BY <1>1, <1>2, <1>3, <1>5, <1>6, <1>7, <1>8, <1>9 DEF Status!Next, Status!Depths

-----------------------------------------------------------------------------
(***************************************************************************)
(* The resolution of a name.                                               *)
(***************************************************************************)

\* A stack is a sequence, and its calls ask for these kinds.
IsStack(q) == Len(q) \in Nat /\ q = [i \in 1..Len(q) |-> q[i]]
QKinds == {"A", "AAAA", "HTTPS"}
\* The evidence of a call lapses no later than anything that led to what it found or may
\* still find.
ServiceCallSound(c) ==
    /\ c.kind = "HTTPS"
    /\ c.service = [to |-> c.service.to, bound |-> c.service.bound, families |-> c.service.families,
                    found |-> c.service.found, expires |-> c.service.expires]
    /\ c.service.bound \in Nat /\ c.expires <= c.service.bound
    /\ c.service.expires \in Nat /\ c.service.families \subseteq {"A", "AAAA"}
    /\ \A b \in c.service.found : b \in Nat /\ c.service.expires <= b
LeftSound(c) ==
    \A r \in c.left : /\ r.lapses \in Nat /\ c.expires <= r.lapses
                      /\ c.kind # "HTTPS" => r.type = "link"
CallSound(c) ==
    /\ c = [name |-> c.name, kind |-> c.kind, visited |-> c.visited, depth |-> c.depth, expires |-> c.expires,
            bound |-> c.bound, alias |-> c.alias, optional |-> c.optional, step |-> c.step,
            upstream |-> c.upstream, left |-> c.left, found |-> c.found, service |-> c.service]
    /\ c.kind \in QKinds /\ c.step \in {"ask", "records", "service", "return"}
    /\ c.depth \in Nat /\ c.expires \in Nat /\ c.bound \in Nat
    /\ c.depth <= MaxAliases + 1 /\ (c.step # "ask" => c.depth <= MaxAliases)
    /\ c.step = "ask" => c.found = {}
    /\ \A b \in c.found : b \in Nat /\ c.expires <= b
    /\ c.step # "return" => c.expires <= c.bound /\ c.expires <= Resolving!Never
    /\ c.step \in {"records", "service"} => LeftSound(c)
    /\ c.step = "service" => ServiceCallSound(c)

\* Every call but one has a depth of its own: the address lookup of a service starts at
\* the depth of its service.
PlaceSound(q, i) ==
    /\ i > 1 => q[i].step # "ask"
    /\ Len(q) - i <= q[i].depth + (IF q[i].kind = "HTTPS" THEN 0 ELSE 1)
StackSound(q) == IsStack(q) /\ \A i \in 1..Len(q) : CallSound(q[i]) /\ PlaceSound(q, i)

\* What the walk has found lapses in time, and it has kept its limits.
ResolutionInv ==
    /\ clock \in Nat /\ plan \in Seq(QKinds) /\ (outcome = "open" => plan # <<>>)
    /\ job = [subqueries |-> job.subqueries, endpoints |-> job.endpoints]
    /\ job.subqueries \in Nat /\ job.subqueries <= MaxSubqueries
    /\ job.endpoints \in Nat /\ job.endpoints <= MaxEndpoints
    /\ StackSound(calls)
    /\ \A m \in messages : m.at \in Nat /\ m.at <= clock /\ \A r \in m.records : r.ttl \in Nat
    /\ \A s \in services : s.expires \in Nat /\ \A b \in s.found : b \in Nat /\ s.expires <= b
    /\ evidence = [addresses |-> evidence.addresses, expires |-> evidence.expires]
    /\ evidence.expires \in Nat /\ \A b \in evidence.addresses : b \in Nat /\ evidence.expires <= b
    /\ resolutionAnswer # {} => outcome = "done"
    /\ Resolving!TtlsOnlyShrink

\* A stack is read from the top.
LEMMA Stacks ==
  ASSUME NEW q, IsStack(q), q # <<>>
  PROVE  /\ Len(q) >= 1 /\ Head(q) = q[1]
         /\ IsStack(Tail(q)) /\ Len(Tail(q)) = Len(q) - 1
         /\ \A i \in 1..Len(q) - 1 : Tail(q)[i] = q[i + 1]
         /\ \A x : /\ IsStack(<<x>> \o Tail(q)) /\ Len(<<x>> \o Tail(q)) = Len(q)
                   /\ (<<x>> \o Tail(q))[1] = x
                   /\ \A i \in 2..Len(q) : (<<x>> \o Tail(q))[i] = q[i]
         /\ \A x, y : /\ IsStack(<<y, x>> \o Tail(q)) /\ Len(<<y, x>> \o Tail(q)) = Len(q) + 1
                      /\ (<<y, x>> \o Tail(q))[1] = y /\ (<<y, x>> \o Tail(q))[2] = x
                      /\ \A i \in 3..Len(q) + 1 : (<<y, x>> \o Tail(q))[i] = q[i - 1]
         /\ \A k \in 1..Len(q) : /\ IsStack(SubSeq(q, k + 1, Len(q))) /\ Len(SubSeq(q, k + 1, Len(q))) = Len(q) - k
                                 /\ \A i \in 1..Len(q) - k : SubSeq(q, k + 1, Len(q))[i] = q[i + k]
<1>1. PICK C : q \in Seq(C)
  <2>1. PICK D : D = {q[i] : i \in 1..Len(q)}
    OBVIOUS
  <2>2. q \in [1..Len(q) -> D]
    BY <2>1 DEF IsStack
  <2>3. PICK n \in Nat : n = Len(q)
    BY DEF IsStack
  <2>4. q \in [1..n -> D]
    BY <2>2, <2>3
  <2> QED
    BY <2>3, <2>4, SeqDef
<1>2. \A D : \A p \in Seq(D) : IsStack(p)
  BY DEF IsStack
<1>3. /\ Len(q) >= 1 /\ Head(q) = q[1]
      /\ Tail(q) \in Seq(C) /\ Len(Tail(q)) = Len(q) - 1
      /\ \A i \in 1..Len(q) - 1 : Tail(q)[i] = q[i + 1]
  BY <1>1
<1>4. ASSUME NEW x
      PROVE  /\ IsStack(<<x>> \o Tail(q)) /\ Len(<<x>> \o Tail(q)) = Len(q)
             /\ (<<x>> \o Tail(q))[1] = x
             /\ \A i \in 2..Len(q) : (<<x>> \o Tail(q))[i] = q[i]
  <2>1. PICK D : D = C \cup {x}
    OBVIOUS
  <2>2. <<x>> \in Seq(D) /\ Tail(q) \in Seq(D)
    BY <1>3, <2>1
  <2>3. PICK p \in Seq(D) : p = <<x>> \o Tail(q)
    BY <2>2, ConcatProperties
  <2>4. Len(p) = Len(q) /\ p[1] = x /\ \A i \in 2..Len(q) : p[i] = Tail(q)[i - 1]
    BY <1>3, <2>2, <2>3
  <2>5. \A i \in 2..Len(q) : p[i] = q[i]
    BY <1>1, <1>3, <2>4
  <2> QED
    BY <1>2, <2>3, <2>4, <2>5
<1>5. ASSUME NEW x, NEW y
      PROVE  /\ IsStack(<<y, x>> \o Tail(q)) /\ Len(<<y, x>> \o Tail(q)) = Len(q) + 1
             /\ (<<y, x>> \o Tail(q))[1] = y /\ (<<y, x>> \o Tail(q))[2] = x
             /\ \A i \in 3..Len(q) + 1 : (<<y, x>> \o Tail(q))[i] = q[i - 1]
  <2>1. PICK D : D = C \cup {x, y}
    OBVIOUS
  <2>2. <<y, x>> \in Seq(D) /\ Tail(q) \in Seq(D)
    BY <1>3, <2>1
  <2>3. PICK p \in Seq(D) : p = <<y, x>> \o Tail(q)
    BY <2>2, ConcatProperties
  <2>4. Len(p) = Len(q) + 1 /\ p[1] = y /\ p[2] = x /\ \A i \in 3..Len(q) + 1 : p[i] = Tail(q)[i - 2]
    BY <1>3, <2>2, <2>3
  <2>5. \A i \in 3..Len(q) + 1 : p[i] = q[i - 1]
    BY <1>1, <1>3, <2>4
  <2> QED
    BY <1>2, <2>3, <2>4, <2>5
<1>6. ASSUME NEW k \in 1..Len(q)
      PROVE  /\ IsStack(SubSeq(q, k + 1, Len(q))) /\ Len(SubSeq(q, k + 1, Len(q))) = Len(q) - k
             /\ \A i \in 1..Len(q) - k : SubSeq(q, k + 1, Len(q))[i] = q[i + k]
  <2>1. PICK n \in Nat : n = Len(q)
    BY <1>1
  <2>2. SubSeq(q, k + 1, n) \in Seq(C) /\ Len(SubSeq(q, k + 1, n)) = n - k
    BY <1>1, <2>1
  <2>3. \A i \in 1..n - k : SubSeq(q, k + 1, n)[i] = q[i + k]
    BY <1>1, <2>1
  <2> QED
    BY <1>2, <2>1, <2>2, <2>3
<1> QED
  BY <1>2, <1>3, <1>4, <1>5, <1>6

\* The steps of a stack keep it sound.
LEMMA StackBecomes ==
  ASSUME NEW q, StackSound(q), q # <<>>, NEW x, CallSound(x), x.depth = q[1].depth, x.kind = q[1].kind
  PROVE  StackSound(<<x>> \o Tail(q))
<1>1. PICK p : p = <<x>> \o Tail(q)
  OBVIOUS
<1>2. IsStack(p) /\ Len(p) = Len(q) /\ Len(q) \in Nat /\ p[1] = x /\ \A i \in 2..Len(q) : p[i] = q[i]
  BY <1>1, Stacks DEF StackSound, IsStack
<1>3. ASSUME NEW i \in 1..Len(p) PROVE CallSound(p[i]) /\ PlaceSound(p, i)
  BY <1>2 DEF StackSound, PlaceSound
<1> QED
  BY <1>1, <1>2, <1>3 DEF StackSound

\* A call may make another, one deeper or for an address.
LEMMA StackEnters ==
  ASSUME NEW q, StackSound(q), q # <<>>, NEW x, CallSound(x), x.depth = q[1].depth, x.kind = q[1].kind, x.step # "ask",
         NEW y, CallSound(y),
         \/ y.kind = x.kind /\ y.depth = x.depth + 1
         \/ y.kind # "HTTPS" /\ x.kind = "HTTPS" /\ y.depth = x.depth
  PROVE  StackSound(<<y, x>> \o Tail(q))
<1>1. PICK p : p = <<y, x>> \o Tail(q)
  OBVIOUS
<1>2. /\ IsStack(p) /\ Len(p) = Len(q) + 1 /\ Len(q) \in Nat /\ Len(q) >= 1 /\ p[1] = y /\ p[2] = x
      /\ \A i \in 3..Len(q) + 1 : p[i] = q[i - 1]
  BY <1>1, Stacks DEF StackSound, IsStack
<1>a. /\ x.depth \in Nat /\ y.depth \in Nat
      /\ Len(q) - 1 <= x.depth + (IF x.kind = "HTTPS" THEN 0 ELSE 1)
  <2>1. PlaceSound(q, 1)
    BY <1>2 DEF StackSound
  <2> QED
    BY <2>1 DEF PlaceSound, CallSound
<1>3. CallSound(p[1]) /\ PlaceSound(p, 1)
  BY <1>2, <1>a DEF PlaceSound
<1>4. CallSound(p[2]) /\ PlaceSound(p, 2)
  BY <1>2, <1>a DEF PlaceSound
<1>5. ASSUME NEW i \in 3..Len(p) PROVE CallSound(p[i]) /\ PlaceSound(p, i)
  <2>1. p[i] = q[i - 1] /\ i - 1 \in 2..Len(q)
    BY <1>2
  <2>2. CallSound(q[i - 1]) /\ PlaceSound(q, i - 1)
    BY <1>2, <2>1 DEF StackSound
  <2> QED
    BY <1>2, <2>1, <2>2 DEF PlaceSound
<1>6. \A i \in 1..Len(p) : i = 1 \/ i = 2 \/ i \in 3..Len(p)
  BY <1>2
<1> QED
  BY <1>1, <1>2, <1>3, <1>4, <1>5, <1>6 DEF StackSound

\* The calls on top may be given up together.
LEMMA StackDrops ==
  ASSUME NEW q, StackSound(q), NEW k \in 1..Len(q), q # <<>>
  PROVE  StackSound(SubSeq(q, k + 1, Len(q)))
<1>1. PICK p : p = SubSeq(q, k + 1, Len(q))
  OBVIOUS
<1>2. IsStack(p) /\ Len(p) = Len(q) - k /\ Len(q) \in Nat /\ \A i \in 1..Len(q) - k : p[i] = q[i + k]
  BY <1>1, Stacks DEF StackSound, IsStack
<1>3. ASSUME NEW i \in 1..Len(p) PROVE CallSound(p[i]) /\ PlaceSound(p, i)
  <2>1. p[i] = q[i + k] /\ i + k \in 2..Len(q)
    BY <1>2
  <2>2. CallSound(q[i + k]) /\ PlaceSound(q, i + k)
    BY <1>2, <2>1 DEF StackSound
  <2> QED
    BY <1>2, <2>1, <2>2 DEF PlaceSound
<1> QED
  BY <1>1, <1>2, <1>3 DEF StackSound

\* The call on top may return.
LEMMA StackPops ==
  ASSUME NEW q, StackSound(q), q # <<>>
  PROVE  StackSound(Tail(q))
<1>1. PICK p : p = Tail(q)
  OBVIOUS
<1>2. IsStack(p) /\ Len(p) = Len(q) - 1 /\ Len(q) \in Nat /\ \A i \in 1..Len(q) - 1 : p[i] = q[i + 1]
  BY <1>1, Stacks DEF StackSound, IsStack
<1>3. ASSUME NEW i \in 1..Len(p) PROVE CallSound(p[i]) /\ PlaceSound(p, i)
  <2>1. p[i] = q[i + 1] /\ i + 1 \in 2..Len(q)
    BY <1>2
  <2>2. CallSound(q[i + 1]) /\ PlaceSound(q, i + 1)
    BY <1>2, <2>1 DEF StackSound
  <2> QED
    BY <1>2, <2>1, <2>2 DEF PlaceSound
<1> QED
  BY <1>1, <1>2, <1>3 DEF StackSound

\* A question starts with one call.
LEMMA FirstCall ==
  ASSUME NEW kind \in QKinds
  PROVE  StackSound(Resolving!First(kind)) /\ StackSound(<<>>)
<1>1. PICK c : c = Resolving!Call(Question, kind, {}, 0, Resolving!Never, Resolving!Never, FALSE, FALSE)
  OBVIOUS
<1>2. CallSound(c) /\ c.depth = 0
  BY <1>1, ResolutionAssumption DEF Resolving!Call, CallSound, Resolving!Never
<1>3. PICK q : q = <<c>>
  OBVIOUS
<1>4. IsStack(q) /\ Len(q) = 1 /\ q[1] = c
  BY <1>3 DEF IsStack
<1>5. StackSound(q)
  BY <1>2, <1>4 DEF StackSound, PlaceSound
<1>6. StackSound(<<>>)
  BY DEF StackSound, IsStack
<1> QED
  BY <1>1, <1>3, <1>5, <1>6 DEF Resolving!First

\* The least of a set of times.
LEMMA LeastIs ==
  ASSUME NEW T \in SUBSET Nat, T # {}
  PROVE  /\ Resolving!Least(T) \in T /\ Resolving!Least(T) \in Nat
         /\ \A t \in T : Resolving!Least(T) <= t
<1>1. \E x \in T : \A y \in T : x <= y
  BY LeastExists
<1> QED
  BY <1>1 DEF Resolving!Least

\* What an upstream may say.
LEMMA ReplyRecords ==
  ASSUME NEW kind, NEW said \in Resolving!Replies(kind), NEW r \in said.records
  PROVE  /\ r.ttl \in Nat
         /\ kind # "HTTPS" => r.type \in {"link", "address"}
<1>1. r \in Resolving!Records(kind)
  BY DEF Resolving!Replies
<1> QED
  BY <1>1, ResolutionAssumption DEF Resolving!Records

\* A call that goes on with the records of a reply.
LEMMA ProcessedSound ==
  ASSUME StackSound(calls), calls # <<>>, Head(calls).step = "ask", Head(calls).depth <= MaxAliases,
         NEW R, \A r \in R : r.lapses \in Nat /\ (Head(calls).kind # "HTTPS" => r.type \in {"link", "address"})
  PROVE  /\ CallSound(Resolving!Processed(R))
         /\ Resolving!Processed(R).depth = Head(calls).depth /\ Resolving!Processed(R).kind = Head(calls).kind
<1>1. PICK c : c = Head(calls)
  OBVIOUS
<1>2. c = calls[1] /\ CallSound(c)
  BY <1>1, Stacks DEF StackSound, IsStack
<1>3. PICK T : T = {c.expires} \cup {r.lapses : r \in R}
  OBVIOUS
<1>4. T \in SUBSET Nat /\ T # {}
  BY <1>2, <1>3 DEF CallSound
<1>5. PICK least \in Nat : /\ least = Resolving!Least(T) /\ least <= c.expires
                           /\ \A r \in R : least <= r.lapses
  BY <1>3, <1>4, LeastIs
<1>6. PICK left : left = {r \in R : r.type # "address"}
  OBVIOUS
<1>7. PICK found : found = {Resolving!Earlier(c.bound, r.lapses) : r \in {x \in R : x.type = "address"}}
  OBVIOUS
<1>8. PICK visited : visited = c.visited \cup {c.name}
  OBVIOUS
<1>9. PICK p : p = Resolving!Processed(R)
  OBVIOUS
<1>10. p = [c EXCEPT !.step = "records", !.visited = visited, !.left = left, !.found = found, !.expires = least]
  BY <1>1, <1>3, <1>5, <1>6, <1>7, <1>8, <1>9 DEF Resolving!Processed, Resolving!Top
<1>11. p = [name |-> c.name, kind |-> c.kind, visited |-> visited, depth |-> c.depth, expires |-> least,
            bound |-> c.bound, alias |-> c.alias, optional |-> c.optional, step |-> "records",
            upstream |-> c.upstream, left |-> left, found |-> found, service |-> c.service]
  BY <1>2, <1>10 DEF CallSound
<1>12. /\ c.kind \in QKinds /\ c.depth \in Nat /\ c.depth <= MaxAliases /\ c.bound \in Nat
       /\ c.expires \in Nat /\ c.expires <= c.bound /\ c.expires <= Resolving!Never
  BY <1>1, <1>2 DEF CallSound
<1>13. \A b \in found : b \in Nat /\ least <= b
  BY <1>1, <1>5, <1>7, <1>12 DEF Resolving!Earlier
<1>14. least <= c.bound /\ least <= Resolving!Never
  BY <1>5, <1>12 DEF Resolving!Never
<1>15. LeftSound(p)
  BY <1>1, <1>5, <1>6, <1>11 DEF LeftSound
<1>16. c.depth <= MaxAliases + 1
  BY <1>12, ResolutionAssumption
<1> QED
  BY <1>1, <1>5, <1>9, <1>11, <1>12, <1>13, <1>14, <1>15, <1>16 DEF CallSound

\* A call that returns, with what it has found.
LEMMA ReturningSound ==
  ASSUME NEW c, CallSound(c), c.depth <= MaxAliases, NEW expires \in Nat, NEW left, \A b \in c.found : expires <= b
  PROVE  /\ CallSound([c EXCEPT !.step = "return", !.left = left, !.expires = expires])
         /\ CallSound([c EXCEPT !.step = "return", !.expires = expires])
         /\ CallSound([c EXCEPT !.step = "return", !.left = left])
         /\ CallSound([c EXCEPT !.step = "return"])
<1>1. /\ c = [name |-> c.name, kind |-> c.kind, visited |-> c.visited, depth |-> c.depth, expires |-> c.expires,
            bound |-> c.bound, alias |-> c.alias, optional |-> c.optional, step |-> c.step,
            upstream |-> c.upstream, left |-> c.left, found |-> c.found, service |-> c.service]
      /\ c.kind \in QKinds
      /\ c.depth \in Nat /\ c.expires \in Nat /\ c.bound \in Nat
      /\ c.depth <= MaxAliases + 1
      /\ \A b \in c.found : b \in Nat /\ c.expires <= b
  BY DEF CallSound
<1>2. ASSUME NEW e \in Nat, NEW l, \A b \in c.found : e <= b,
             NEW p, p = [name |-> c.name, kind |-> c.kind, visited |-> c.visited, depth |-> c.depth, expires |-> e,
                bound |-> c.bound, alias |-> c.alias, optional |-> c.optional, step |-> "return",
                upstream |-> c.upstream, left |-> l, found |-> c.found, service |-> c.service]
      PROVE  CallSound(p)
  BY <1>1, <1>2 DEF CallSound
<1>3. CallSound([c EXCEPT !.step = "return", !.left = left, !.expires = expires])
  <2>1. PICK p : p = [c EXCEPT !.step = "return", !.left = left, !.expires = expires]
    OBVIOUS
  <2>2. p = [name |-> c.name, kind |-> c.kind, visited |-> c.visited, depth |-> c.depth, expires |-> expires,
             bound |-> c.bound, alias |-> c.alias, optional |-> c.optional, step |-> "return",
             upstream |-> c.upstream, left |-> left, found |-> c.found, service |-> c.service]
    BY <1>1, <2>1
  <2>3. CallSound(p)
    BY <1>1, <1>2, <2>2
  <2> QED
    BY <2>1, <2>3
<1>4. CallSound([c EXCEPT !.step = "return", !.expires = expires])
  <2>1. PICK p : p = [c EXCEPT !.step = "return", !.expires = expires]
    OBVIOUS
  <2>2. p = [name |-> c.name, kind |-> c.kind, visited |-> c.visited, depth |-> c.depth, expires |-> expires,
             bound |-> c.bound, alias |-> c.alias, optional |-> c.optional, step |-> "return",
             upstream |-> c.upstream, left |-> c.left, found |-> c.found, service |-> c.service]
    BY <1>1, <2>1
  <2>3. CallSound(p)
    BY <1>1, <1>2, <2>2
  <2> QED
    BY <2>1, <2>3
<1>5. CallSound([c EXCEPT !.step = "return", !.left = left])
  <2>1. PICK p : p = [c EXCEPT !.step = "return", !.left = left]
    OBVIOUS
  <2>2. p = [name |-> c.name, kind |-> c.kind, visited |-> c.visited, depth |-> c.depth, expires |-> c.expires,
             bound |-> c.bound, alias |-> c.alias, optional |-> c.optional, step |-> "return",
             upstream |-> c.upstream, left |-> left, found |-> c.found, service |-> c.service]
    BY <1>1, <2>1
  <2>3. CallSound(p)
    BY <1>1, <1>2, <2>2
  <2> QED
    BY <2>1, <2>3
<1>6. CallSound([c EXCEPT !.step = "return"])
  BY <1>1, <1>2
<1> QED
  BY <1>3, <1>4, <1>5, <1>6

\* A call to follow a link or an alias, or to look up an address.
LEMMA CalledSound ==
  ASSUME NEW name, NEW kind \in QKinds, NEW visited, NEW depth \in Nat, depth <= MaxAliases + 1, NEW expires \in Nat,
         NEW bound \in Nat, expires <= bound, expires <= Resolving!Never, NEW alias, NEW optional
  PROVE  /\ CallSound(Resolving!Call(name, kind, visited, depth, expires, bound, alias, optional))
         /\ Resolving!Call(name, kind, visited, depth, expires, bound, alias, optional).depth = depth
         /\ Resolving!Call(name, kind, visited, depth, expires, bound, alias, optional).kind = kind
  BY DEF CallSound, Resolving!Call

\* The invariant holds at first.
LEMMA ResolutionInit == Resolving!Init => ResolutionInv
<1> SUFFICES ASSUME Resolving!Init PROVE ResolutionInv
  OBVIOUS
<1>1. PICK p : p \in DOMAIN Resolving!Plans /\ plan \in Resolving!Plans[p]
  BY DEF Resolving!Init
<1>2. plan \in {<<"A">>, <<"HTTPS">>, <<"A", "AAAA">>, <<"A", "AAAA", "HTTPS">>}
  BY <1>1 DEF Resolving!Plans
<1>3. plan \in Seq(QKinds) /\ plan # <<>> /\ plan[1] \in QKinds
  <2>1. <<"A">> \in Seq(QKinds) /\ <<"HTTPS">> \in Seq(QKinds) /\ <<"A", "AAAA">> \in Seq(QKinds)
    BY DEF QKinds
  <2>2. <<"A", "AAAA", "HTTPS">> \in Seq(QKinds)
    BY DEF QKinds
  <2>3. plan \in Seq(QKinds)
    BY <1>2, <2>1, <2>2
  <2>4. Len(plan) # 0
    BY <1>2
  <2> QED
    BY <2>3, <2>4
<1>4. StackSound(calls)
  BY <1>3, FirstCall DEF Resolving!Init
<1> QED
  BY <1>3, <1>4, ResolutionAssumption DEF Resolving!Init, ResolutionInv, Resolving!TtlsOnlyShrink, Resolving!Never

\* The invariant is what is promised of a resolution.
LEMMA ResolutionMeans == ResolutionInv => Resolving!ResolutionIsSound
<1> SUFFICES ASSUME ResolutionInv PROVE Resolving!ResolutionIsSound
  OBVIOUS
<1>1. Len(calls) <= MaxAliases + 3
  <2>1. CASE calls = <<>>
    BY <2>1, ResolutionAssumption
  <2>2. CASE calls # <<>>
    <3>1. /\ Len(calls) \in Nat /\ 1 \in 1..Len(calls) /\ CallSound(calls[1]) /\ PlaceSound(calls, 1)
      <4>1. StackSound(calls) /\ IsStack(calls)
        BY DEF ResolutionInv, StackSound
      <4>2. Len(calls) \in Nat /\ Len(calls) >= 1
        BY <2>2, <4>1, Stacks DEF IsStack
      <4> QED
        BY <4>1, <4>2 DEF StackSound
    <3>2. PICK d \in Nat : d = calls[1].depth /\ d <= MaxAliases + 1
      BY <3>1 DEF CallSound
    <3>3. Len(calls) - 1 <= d + 1
      BY <3>1, <3>2 DEF PlaceSound
    <3> QED
      BY <3>1, <3>2, <3>3, ResolutionAssumption
  <2> QED
    BY <2>1, <2>2
<1>2. Resolving!WalkIsBounded
  BY <1>1 DEF ResolutionInv, Resolving!WalkIsBounded
<1>3. Resolving!EvidenceLapsesInTime
  BY DEF ResolutionInv, Resolving!EvidenceLapsesInTime
<1>4. Resolving!TtlsOnlyShrink
  BY DEF ResolutionInv
<1> QED
  BY <1>2, <1>3, <1>4 DEF Resolving!ResolutionIsSound

\* A step that stays within the question.
LEMMA Continues ==
  ASSUME ResolutionInv, outcome = "open", UNCHANGED <<plan, services, evidence, resolutionAnswer, outcome>>,
         StackSound(calls'), UNCHANGED <<clock, messages>>,
         job' = [subqueries |-> job'.subqueries, endpoints |-> job'.endpoints],
         job'.subqueries \in Nat, job'.subqueries <= MaxSubqueries, job'.endpoints \in Nat, job'.endpoints <= MaxEndpoints
  PROVE  ResolutionInv'
  BY DEF ResolutionInv, Resolving!TtlsOnlyShrink

\* A step that ends the walk without an answer.
LEMMA EndsEarly ==
  ASSUME ResolutionInv, outcome = "open", outcome' # "open", calls' = <<>>,
         UNCHANGED <<plan, services, evidence, resolutionAnswer, messages>>, clock' \in Nat, clock' >= clock,
         job' = [subqueries |-> job'.subqueries, endpoints |-> job'.endpoints],
         job'.subqueries \in Nat, job'.subqueries <= MaxSubqueries, job'.endpoints \in Nat, job'.endpoints <= MaxEndpoints
  PROVE  ResolutionInv'
<1>1. StackSound(calls')
  BY FirstCall DEF QKinds
<1>2. resolutionAnswer = {}
  BY DEF ResolutionInv
<1>3. \A m \in messages : m.at \in Nat /\ m.at <= clock'
  BY DEF ResolutionInv
<1> QED
  BY <1>1, <1>2, <1>3 DEF ResolutionInv, Resolving!TtlsOnlyShrink

\* An exchange is made, or tried.
LEMMA AskedSound ==
  ASSUME ResolutionInv, NEW n \in 1..2, NEW later \in Nat, Resolving!Asked(n, later)
  PROVE  /\ outcome = "open" /\ calls # <<>> /\ Head(calls).step = "ask" /\ Head(calls).depth <= MaxAliases
         /\ clock' = later /\ job' = [subqueries |-> job'.subqueries, endpoints |-> job'.endpoints]
         /\ job'.subqueries \in Nat /\ job'.subqueries <= MaxSubqueries
         /\ job'.endpoints \in Nat /\ job'.endpoints <= MaxEndpoints
<1>1. /\ outcome = "open" /\ calls # <<>> /\ Head(calls).step = "ask" /\ Head(calls).depth <= MaxAliases
      /\ clock' = later /\ job.subqueries + n <= MaxSubqueries
      /\ job' = [job EXCEPT !.subqueries = job.subqueries + n]
  BY DEF Resolving!Asked, Resolving!Open, Resolving!Top
<1>2. PICK k \in Nat : k = job.subqueries + n
  BY DEF ResolutionInv
<1>3. job = [subqueries |-> job.subqueries, endpoints |-> job.endpoints] /\ job' = [job EXCEPT !.subqueries = k]
  BY <1>1, <1>2 DEF ResolutionInv
<1>4. job' = [subqueries |-> k, endpoints |-> job.endpoints]
  BY <1>3
<1> QED
  BY <1>1, <1>2, <1>4 DEF ResolutionInv

\* The call on top of the stack.
LEMMA TopSound ==
  ASSUME ResolutionInv, calls # <<>>
  PROVE  /\ StackSound(calls) /\ CallSound(Head(calls)) /\ Head(calls) = calls[1]
         /\ Len(calls) \in Nat /\ Len(calls) >= 1
<1>1. StackSound(calls) /\ IsStack(calls)
  BY DEF ResolutionInv, StackSound
<1>2. Len(calls) \in Nat /\ Len(calls) >= 1 /\ Head(calls) = calls[1]
  BY <1>1, Stacks DEF IsStack
<1> QED
  BY <1>1, <1>2 DEF StackSound

\* The next question of a plan.
LEMMA NextQuestionSound ==
  ASSUME ResolutionInv, outcome = "open", Resolving!NextQuestion
  PROVE  /\ plan' \in Seq(QKinds) /\ (outcome' = "open" => plan' # <<>>)
         /\ StackSound(calls') /\ messages' = {} /\ services' = {} /\ UNCHANGED resolutionAnswer
<1>1. /\ plan' = Tail(plan) /\ services' = {} /\ messages' = {} /\ UNCHANGED resolutionAnswer
      /\ \/ Len(plan) = 1 /\ outcome' = "done" /\ calls' = <<>>
         \/ Len(plan) # 1 /\ calls' = Resolving!First(plan[2])
  BY DEF Resolving!NextQuestion
<1>2. plan \in Seq(QKinds) /\ plan # <<>>
  BY DEF ResolutionInv
<1>3. plan' \in Seq(QKinds) /\ Len(plan') = Len(plan) - 1 /\ Len(plan) \in Nat
  BY <1>1, <1>2
<1>4. CASE Len(plan) = 1
  <2>1. StackSound(<<>>)
    BY FirstCall DEF QKinds
  <2> QED
    BY <1>1, <1>3, <1>4, <2>1
<1>5. CASE Len(plan) # 1
  <2>1. plan[2] \in QKinds /\ Len(plan') # 0
    BY <1>2, <1>3, <1>5
  <2> QED
    BY <1>1, <1>3, <1>5, <2>1, FirstCall
<1> QED
  BY <1>4, <1>5

\* An upstream replies.
LEMMA ExchangeKeeps == ResolutionInv /\ Resolving!Exchange => ResolutionInv'
<1> SUFFICES ASSUME ResolutionInv, Resolving!Exchange PROVE ResolutionInv'
  OBVIOUS
<1>1. PICK n \in 1..2, delay \in 0..1, said \in Resolving!Replies(Head(calls).kind) :
          /\ Resolving!Asked(n, clock + delay)
          /\ messages' = IF Head(calls).kind # plan[1] \/ purpose # "client" THEN messages
                         ELSE messages \cup {[name |-> Head(calls).name, code |-> said.code, at |-> clock',
                                                records |-> said.records]}
          /\ Resolving!Become(IF Resolving!Negative(said)
                    THEN [Head(calls) EXCEPT !.step = "return", !.expires = clock']
                    ELSE Resolving!Processed(Resolving!Lapses(said, clock')))
  BY DEF Resolving!Exchange, Resolving!Top
<1>2. clock \in Nat /\ clock + delay \in Nat /\ clock + delay >= clock
  BY DEF ResolutionInv
<1>3. /\ outcome = "open" /\ calls # <<>> /\ Head(calls).step = "ask" /\ Head(calls).depth <= MaxAliases
      /\ clock' = clock + delay /\ job' = [subqueries |-> job'.subqueries, endpoints |-> job'.endpoints]
      /\ job'.subqueries \in Nat /\ job'.subqueries <= MaxSubqueries
      /\ job'.endpoints \in Nat /\ job'.endpoints <= MaxEndpoints
  BY <1>1, <1>2, AskedSound
<1>4. StackSound(calls) /\ CallSound(Head(calls)) /\ Head(calls) = calls[1]
  BY <1>3, TopSound
<1>5. PICK x : x = IF Resolving!Negative(said)
                    THEN [Head(calls) EXCEPT !.step = "return", !.expires = clock']
                    ELSE Resolving!Processed(Resolving!Lapses(said, clock'))
  OBVIOUS
<1>6. /\ calls' = <<x>> \o Tail(calls)
      /\ UNCHANGED <<purpose, plan, services, evidence, resolutionAnswer, outcome>>
  BY <1>1, <1>5 DEF Resolving!Become, Resolving!Continue, Resolving!Callers
<1>7. \A r \in said.records : r.ttl \in Nat /\ (Head(calls).kind # "HTTPS" => r.type \in {"link", "address"})
  BY ReplyRecords
<1>8. CallSound(x) /\ x.depth = calls[1].depth /\ x.kind = calls[1].kind
  <2>1. CASE Resolving!Negative(said)
    <3>1. x = [Head(calls) EXCEPT !.step = "return", !.expires = clock'] /\ clock' \in Nat
      BY <1>2, <1>3, <1>5, <2>1
    <3>2. Head(calls).found = {}
      BY <1>3, <1>4 DEF CallSound
    <3>3. CallSound(x)
      BY <1>3, <1>4, <3>1, <3>2, ReturningSound
    <3>4. x.depth = Head(calls).depth /\ x.kind = Head(calls).kind
      BY <1>4, <3>1 DEF CallSound
    <3> QED
      BY <1>4, <3>3, <3>4
  <2>2. CASE ~Resolving!Negative(said)
    <3>1. PICK R : R = Resolving!Lapses(said, clock')
      OBVIOUS
    <3>2. \A r \in R : \E s \in said.records : r.type = s.type /\ r.lapses = clock' + 2 * s.ttl
      BY <3>1 DEF Resolving!Lapses
    <3>3. \A r \in R : r.lapses \in Nat /\ (Head(calls).kind # "HTTPS" => r.type \in {"link", "address"})
      BY <1>2, <1>3, <1>7, <3>2
    <3> QED
      BY <1>3, <1>4, <1>5, <2>2, <3>1, <3>3, ProcessedSound
  <2> QED
    BY <2>1, <2>2
<1>9. StackSound(calls')
  BY <1>3, <1>4, <1>6, <1>8, StackBecomes
<1>10. \A m \in messages' : m.at \in Nat /\ m.at <= clock' /\ \A r \in m.records : r.ttl \in Nat
  <2>1. \A m \in messages : m.at \in Nat /\ m.at <= clock' /\ \A r \in m.records : r.ttl \in Nat
    BY <1>2, <1>3 DEF ResolutionInv
  <2> QED
    BY <1>1, <1>2, <1>3, <1>7, <2>1
<1>11. resolutionAnswer = {}
  BY <1>3 DEF ResolutionInv
<1> QED
  BY <1>2, <1>3, <1>6, <1>9, <1>10, <1>11 DEF ResolutionInv, Resolving!TtlsOnlyShrink

\* An upstream does not reply and another is left.
LEMMA NextUpstreamKeeps == ResolutionInv /\ Resolving!NextUpstream => ResolutionInv'
<1> SUFFICES ASSUME ResolutionInv, Resolving!NextUpstream PROVE ResolutionInv'
  OBVIOUS
<1>1. PICK n \in 1..2 : /\ Resolving!Asked(n, clock)
                        /\ Resolving!Become([Head(calls) EXCEPT !.upstream = Head(calls).upstream + 1])
                        /\ UNCHANGED messages
  BY DEF Resolving!NextUpstream, Resolving!Top
<1>2. clock \in Nat
  BY DEF ResolutionInv
<1>3. /\ outcome = "open" /\ calls # <<>>
      /\ clock' = clock /\ job' = [subqueries |-> job'.subqueries, endpoints |-> job'.endpoints]
      /\ job'.subqueries \in Nat /\ job'.subqueries <= MaxSubqueries
      /\ job'.endpoints \in Nat /\ job'.endpoints <= MaxEndpoints
  BY <1>1, <1>2, AskedSound
<1>4. StackSound(calls) /\ CallSound(Head(calls)) /\ Head(calls) = calls[1]
  BY <1>3, TopSound
<1>5. PICK x, u : x = [Head(calls) EXCEPT !.upstream = u] /\ calls' = <<x>> \o Tail(calls)
                  /\ UNCHANGED <<purpose, plan, services, evidence, resolutionAnswer, outcome>>
  BY <1>1 DEF Resolving!Become, Resolving!Continue, Resolving!Callers
<1>6. CallSound(x) /\ x.depth = calls[1].depth /\ x.kind = calls[1].kind
  BY <1>4, <1>5 DEF CallSound, LeftSound, ServiceCallSound
<1>7. StackSound(calls')
  BY <1>3, <1>4, <1>5, <1>6, StackBecomes
<1> QED
  BY <1>1, <1>3, <1>5, <1>7, Continues

\* The last upstream does not reply.
LEMMA NoUpstreamKeeps == ResolutionInv /\ Resolving!NoUpstream => ResolutionInv'
<1> SUFFICES ASSUME ResolutionInv, Resolving!NoUpstream PROVE ResolutionInv'
  OBVIOUS
<1>1. PICK n \in 1..2 :
       /\ Resolving!Asked(n, clock)
       /\ \/ Resolving!Become(Resolving!Processed({})) /\ UNCHANGED messages
          \/ /\ Resolving!Optional # {}
             /\ Resolving!Continue(SubSeq(calls, Resolving!Least(Resolving!Optional) + 1, Len(calls)))
             /\ UNCHANGED messages
          \/ Resolving!NextQuestion /\ UNCHANGED evidence
          \/ /\ calls' = <<>> /\ outcome' = "denied"
             /\ UNCHANGED <<purpose, plan, messages, services, evidence, resolutionAnswer>>
  BY DEF Resolving!NoUpstream
<1>2. clock \in Nat
  BY DEF ResolutionInv
<1>3. /\ outcome = "open" /\ calls # <<>> /\ Head(calls).step = "ask" /\ Head(calls).depth <= MaxAliases
      /\ clock' = clock /\ job' = [subqueries |-> job'.subqueries, endpoints |-> job'.endpoints]
      /\ job'.subqueries \in Nat /\ job'.subqueries <= MaxSubqueries
      /\ job'.endpoints \in Nat /\ job'.endpoints <= MaxEndpoints
  BY <1>1, <1>2, AskedSound
<1>4. StackSound(calls) /\ CallSound(Head(calls)) /\ Head(calls) = calls[1] /\ Len(calls) \in Nat
  BY <1>3, TopSound
<1>5. CASE Resolving!Become(Resolving!Processed({})) /\ UNCHANGED messages
  <2>1. PICK x : x = Resolving!Processed({})
    OBVIOUS
  <2>2. /\ calls' = <<x>> \o Tail(calls)
        /\ UNCHANGED <<purpose, plan, services, evidence, resolutionAnswer, outcome>>
    BY <1>5, <2>1 DEF Resolving!Become, Resolving!Continue, Resolving!Callers
  <2>3. CallSound(x) /\ x.depth = calls[1].depth /\ x.kind = calls[1].kind
    BY <1>3, <1>4, <2>1, ProcessedSound
  <2>4. StackSound(calls')
    BY <1>3, <1>4, <2>2, <2>3, StackBecomes
  <2> QED
    BY <1>3, <1>5, <2>2, <2>4, Continues
<1>6. CASE /\ Resolving!Optional # {}
           /\ Resolving!Continue(SubSeq(calls, Resolving!Least(Resolving!Optional) + 1, Len(calls)))
           /\ UNCHANGED messages
  <2>1. Resolving!Optional \in SUBSET (1..Len(calls)) /\ Resolving!Optional \in SUBSET Nat
    BY <1>4 DEF Resolving!Optional
  <2>2. PICK k \in 1..Len(calls) : k = Resolving!Least(Resolving!Optional)
    BY <1>6, <2>1, LeastIs
  <2>3. /\ calls' = SubSeq(calls, k + 1, Len(calls))
        /\ UNCHANGED <<purpose, plan, services, evidence, resolutionAnswer, outcome>>
    BY <1>6, <2>2 DEF Resolving!Continue
  <2>4. StackSound(calls')
    BY <1>3, <1>4, <2>3, StackDrops
  <2> QED
    BY <1>3, <1>6, <2>3, <2>4, Continues
<1>7. CASE Resolving!NextQuestion /\ UNCHANGED evidence
  <2>1. /\ plan' \in Seq(QKinds) /\ (outcome' = "open" => plan' # <<>>)
        /\ StackSound(calls') /\ messages' = {} /\ services' = {} /\ UNCHANGED resolutionAnswer
    BY <1>3, <1>7, NextQuestionSound
  <2>2. resolutionAnswer = {}
    BY <1>3 DEF ResolutionInv
  <2> QED
    BY <1>2, <1>3, <1>7, <2>1, <2>2 DEF ResolutionInv, Resolving!TtlsOnlyShrink
<1>8. CASE /\ calls' = <<>> /\ outcome' = "denied"
           /\ UNCHANGED <<purpose, plan, messages, services, evidence, resolutionAnswer>>
  BY <1>2, <1>3, <1>8, EndsEarly
<1> QED
  BY <1>1, <1>5, <1>6, <1>7, <1>8

\* A branch that meets a limit.
LEMMA DenyKeeps == ResolutionInv /\ outcome = "open" /\ Resolving!Deny => ResolutionInv'
<1> SUFFICES ASSUME ResolutionInv, outcome = "open", Resolving!Deny PROVE ResolutionInv'
  OBVIOUS
<1>1. /\ outcome' = "denied" /\ calls' = <<>>
      /\ UNCHANGED <<clock, purpose, job, plan, messages, services, evidence, resolutionAnswer>>
  BY DEF Resolving!Deny, Resolving!Ends
<1>2. /\ clock \in Nat /\ job = [subqueries |-> job.subqueries, endpoints |-> job.endpoints]
      /\ job.subqueries \in Nat /\ job.subqueries <= MaxSubqueries
      /\ job.endpoints \in Nat /\ job.endpoints <= MaxEndpoints
  BY DEF ResolutionInv
<1> QED
  BY <1>1, <1>2, EndsEarly

\* A link is followed, with the evidence that led to it.
LEMMA FollowLinkKeeps == ResolutionInv /\ Resolving!FollowLink => ResolutionInv'
<1> SUFFICES ASSUME ResolutionInv, Resolving!FollowLink PROVE ResolutionInv'
  OBVIOUS
<1>1. outcome = "open" /\ calls # <<>> /\ Head(calls).step = "records" /\ Resolving!Left("link") # {}
  BY DEF Resolving!FollowLink, Resolving!Open
<1>2. PICK c : c = Head(calls)
  OBVIOUS
<1>3. StackSound(calls) /\ CallSound(c) /\ c = calls[1]
  BY <1>1, <1>2, TopSound
<1>4. CASE Resolving!Conflicting
  <2>1. Resolving!Deny
    BY <1>4 DEF Resolving!FollowLink
  <2> QED
    BY <1>1, <2>1, DenyKeeps
<1>5. CASE ~Resolving!Conflicting
  <2>1. PICK to, bound :
          /\ bound = Resolving!Least({Resolving!Bound(r) : r \in c.left})
          /\ Resolving!Enter([c EXCEPT !.step = "return", !.left = {}],
                 Resolving!Call(to, c.kind, c.visited, c.depth + 1, c.expires, bound, c.alias, FALSE))
          /\ UNCHANGED <<clock, messages, job>>
    BY <1>2, <1>5 DEF Resolving!FollowLink, Resolving!Top, Resolving!NoExchange
  <2>2. PICK x, y :
          /\ x = [c EXCEPT !.step = "return", !.left = {}]
          /\ y = Resolving!Call(to, c.kind, c.visited, c.depth + 1, c.expires, bound, c.alias, FALSE)
          /\ calls' = <<y, x>> \o Tail(calls)
          /\ UNCHANGED <<purpose, plan, services, evidence, resolutionAnswer, outcome>>
    BY <2>1 DEF Resolving!Enter, Resolving!Continue, Resolving!Callers
  <2>3. /\ c.step = "records" /\ c.kind \in QKinds /\ c.depth \in Nat /\ c.expires \in Nat /\ c.bound \in Nat
        /\ c.depth <= MaxAliases /\ c.expires <= c.bound /\ c.expires <= Resolving!Never
        /\ LeftSound(c) /\ \A b \in c.found : c.expires <= b
    BY <1>1, <1>2, <1>3 DEF CallSound
  <2>4. bound \in Nat /\ c.expires <= bound
    <3>1. PICK T : T = {Resolving!Bound(r) : r \in c.left}
      OBVIOUS
    <3>2. \A r \in c.left : Resolving!Bound(r) \in Nat /\ c.expires <= Resolving!Bound(r)
      BY <1>2, <2>3 DEF LeftSound, Resolving!Bound, Resolving!Earlier, Resolving!Top
    <3>3. c.left # {}
      BY <1>1, <1>2 DEF Resolving!Left, Resolving!Top
    <3>4. T \in SUBSET Nat /\ T # {} /\ \A t \in T : c.expires <= t
      BY <3>1, <3>2, <3>3
    <3> QED
      BY <2>1, <3>1, <3>4, LeastIs
  <2>5. CallSound(y) /\ y.kind = c.kind /\ y.depth = c.depth + 1
    <3>1. PICK d \in Nat : d = c.depth + 1 /\ d <= MaxAliases + 1
      BY <2>3, ResolutionAssumption
    <3>2. PICK no : no = FALSE /\ y = Resolving!Call(to, c.kind, c.visited, d, c.expires, bound, c.alias, no)
      BY <2>2, <3>1
    <3>3. CallSound(y) /\ y.kind = c.kind /\ y.depth = d
      BY <2>3, <2>4, <3>1, <3>2, CalledSound
    <3> QED
      BY <3>1, <3>3
  <2>6. CallSound(x)
    BY <1>3, <2>2, <2>3, ReturningSound
  <2>7. x.depth = c.depth /\ x.kind = c.kind /\ x.step # "ask"
    BY <1>3, <2>2 DEF CallSound
  <2>8. StackSound(calls')
    BY <1>1, <1>3, <2>2, <2>5, <2>6, <2>7, StackEnters
  <2> QED
    BY <1>1, <2>1, <2>2, <2>8, Continues DEF ResolutionInv
<1> QED
  BY <1>4, <1>5
\* The job has one endpoint more.
LEMMA EndpointCounts ==
  ASSUME ResolutionInv, job.endpoints # MaxEndpoints, job' = [job EXCEPT !.endpoints = job.endpoints + 1]
  PROVE  /\ job' = [subqueries |-> job'.subqueries, endpoints |-> job'.endpoints]
         /\ job'.subqueries \in Nat /\ job'.subqueries <= MaxSubqueries
         /\ job'.endpoints \in Nat /\ job'.endpoints <= MaxEndpoints
<1>1. PICK k \in Nat : k = job.endpoints + 1 /\ k <= MaxEndpoints
  BY ResolutionAssumption DEF ResolutionInv
<1>2. job = [subqueries |-> job.subqueries, endpoints |-> job.endpoints] /\ job' = [job EXCEPT !.endpoints = k]
  BY <1>1 DEF ResolutionInv
<1>3. job' = [subqueries |-> job.subqueries, endpoints |-> k]
  BY <1>2
<1> QED
  BY <1>1, <1>3 DEF ResolutionInv

\* An alias is followed, and counted.
LEMMA FollowAliasKeeps == ResolutionInv /\ Resolving!FollowAlias => ResolutionInv'
<1> SUFFICES ASSUME ResolutionInv, Resolving!FollowAlias PROVE ResolutionInv'
  OBVIOUS
<1>1. outcome = "open" /\ calls # <<>> /\ Head(calls).step = "records"
  BY DEF Resolving!FollowAlias, Resolving!Open
<1>2. PICK c : c = Head(calls)
  OBVIOUS
<1>3. StackSound(calls) /\ CallSound(c) /\ c = calls[1]
  BY <1>1, <1>2, TopSound
<1>4. CASE Resolving!Deny
  BY <1>1, <1>4, DenyKeeps
<1>5. CASE ~Resolving!Deny
  <2>1. PICK r, left, step :
          /\ r \in Resolving!Left("alias") /\ job.endpoints # MaxEndpoints
          /\ left = Resolving!Left("alias") \ {r} /\ step = IF left = {} THEN "return" ELSE c.step
          /\ job' = [job EXCEPT !.endpoints = job.endpoints + 1]
          /\ UNCHANGED <<clock, messages>>
          /\ \/ Resolving!Become([c EXCEPT !.left = left, !.step = step])
             \/ Resolving!Enter([c EXCEPT !.left = left, !.step = step],
                  Resolving!Call(r.to, c.kind, c.visited, c.depth + 1, c.expires, Resolving!Bound(r), TRUE, FALSE))
    BY <1>2, <1>5 DEF Resolving!FollowAlias, Resolving!Top, Resolving!NoExchange
  <2>2. /\ job' = [subqueries |-> job'.subqueries, endpoints |-> job'.endpoints]
        /\ job'.subqueries \in Nat /\ job'.subqueries <= MaxSubqueries
        /\ job'.endpoints \in Nat /\ job'.endpoints <= MaxEndpoints
    BY <2>1, EndpointCounts
  <2>3. /\ c.step = "records" /\ c.kind \in QKinds /\ c.depth \in Nat /\ c.expires \in Nat /\ c.bound \in Nat
        /\ c.depth <= MaxAliases /\ c.expires <= c.bound /\ c.expires <= Resolving!Never
        /\ LeftSound(c) /\ \A b \in c.found : c.expires <= b
    BY <1>1, <1>2, <1>3 DEF CallSound
  <2>4. left \subseteq c.left /\ r \in c.left
    BY <1>2, <2>1 DEF Resolving!Left, Resolving!Top
  <2>5. PICK x : x = [c EXCEPT !.left = left, !.step = step]
    OBVIOUS
  <2>6. x = [name |-> c.name, kind |-> c.kind, visited |-> c.visited, depth |-> c.depth, expires |-> c.expires,
             bound |-> c.bound, alias |-> c.alias, optional |-> c.optional, step |-> step,
             upstream |-> c.upstream, left |-> left, found |-> c.found, service |-> c.service]
    BY <1>3, <2>5 DEF CallSound
  <2>7. step \in {"return", "records"}
    BY <2>1, <2>3
  <2>8. LeftSound(x)
    BY <2>3, <2>4, <2>6 DEF LeftSound
  <2>9. CallSound(x) /\ x.depth = c.depth /\ x.kind = c.kind /\ x.step # "ask"
    BY <1>3, <2>3, <2>6, <2>7, <2>8 DEF CallSound
  <2>10. CASE Resolving!Become(x)
    <3>1. calls' = <<x>> \o Tail(calls) /\ UNCHANGED <<purpose, plan, services, evidence, resolutionAnswer, outcome>>
      BY <2>10 DEF Resolving!Become, Resolving!Continue, Resolving!Callers
    <3>2. StackSound(calls')
      BY <1>1, <1>3, <2>9, <3>1, StackBecomes
    <3> QED
      BY <1>1, <2>1, <2>2, <3>1, <3>2, Continues
  <2>11. CASE Resolving!Enter(x, Resolving!Call(r.to, c.kind, c.visited, c.depth + 1, c.expires, Resolving!Bound(r), TRUE, FALSE))
    <3>1. PICK bound \in Nat : bound = Resolving!Bound(r) /\ c.expires <= bound
      BY <1>2, <2>3, <2>4 DEF LeftSound, Resolving!Bound, Resolving!Earlier, Resolving!Top
    <3>2. PICK d \in Nat : d = c.depth + 1 /\ d <= MaxAliases + 1
      BY <2>3, ResolutionAssumption
    <3>3. PICK y, to, yes, no : /\ to = r.to /\ yes = TRUE /\ no = FALSE
                                /\ y = Resolving!Call(to, c.kind, c.visited, d, c.expires, bound, yes, no)
      OBVIOUS
    <3>7. y = Resolving!Call(to, c.kind, c.visited, d, c.expires, bound, yes, no)
      BY <3>3
    <3>4. CallSound(y) /\ y.kind = c.kind /\ y.depth = d
      <4> HIDE <3>3
      <4> QED
        BY <2>3, <3>1, <3>2, <3>7, CalledSound
    <3>5. calls' = <<y, x>> \o Tail(calls) /\ UNCHANGED <<purpose, plan, services, evidence, resolutionAnswer, outcome>>
      BY <2>11, <3>1, <3>2, <3>3 DEF Resolving!Enter, Resolving!Continue, Resolving!Callers
    <3>6. StackSound(calls')
      BY <1>1, <1>3, <2>9, <3>2, <3>4, <3>5, StackEnters
    <3> QED
      BY <1>1, <2>1, <2>2, <3>5, <3>6, Continues
  <2> QED
    BY <2>1, <2>5, <2>10, <2>11
<1> QED
  BY <1>4, <1>5

\* A service is taken up, and counted.
LEMMA ServeKeeps == ResolutionInv /\ Resolving!Serve => ResolutionInv'
<1> SUFFICES ASSUME ResolutionInv, Resolving!Serve PROVE ResolutionInv'
  OBVIOUS
<1>1. outcome = "open" /\ calls # <<>> /\ Head(calls).step = "records"
  BY DEF Resolving!Serve, Resolving!Open
<1>2. PICK c : c = Head(calls)
  OBVIOUS
<1>3. StackSound(calls) /\ CallSound(c) /\ c = calls[1]
  BY <1>1, <1>2, TopSound
<1>4. CASE Resolving!Deny
  BY <1>1, <1>4, DenyKeeps
<1>5. CASE ~Resolving!Deny
  <2>1. PICK r, to, alias :
          /\ r \in Resolving!Offered /\ job.endpoints # MaxEndpoints
          /\ job' = [job EXCEPT !.endpoints = job.endpoints + 1]
          /\ UNCHANGED <<clock, messages>>
          /\ Resolving!Become([c EXCEPT !.step = "service", !.left = c.left \ {r}, !.alias = alias,
                 !.service = [to |-> to, bound |-> Resolving!Bound(r), families |-> {"A", "AAAA"}, found |-> {},
                              expires |-> c.expires]])
    BY <1>2, <1>5 DEF Resolving!Serve, Resolving!Top, Resolving!NoExchange
  <2>2. /\ job' = [subqueries |-> job'.subqueries, endpoints |-> job'.endpoints]
        /\ job'.subqueries \in Nat /\ job'.subqueries <= MaxSubqueries
        /\ job'.endpoints \in Nat /\ job'.endpoints <= MaxEndpoints
    BY <2>1, EndpointCounts
  <2>3. /\ c.step = "records" /\ c.kind \in QKinds /\ c.depth \in Nat /\ c.expires \in Nat /\ c.bound \in Nat
        /\ c.depth <= MaxAliases /\ c.expires <= c.bound /\ c.expires <= Resolving!Never
        /\ LeftSound(c) /\ \A b \in c.found : c.expires <= b
    BY <1>1, <1>2, <1>3 DEF CallSound
  <2>4. c.kind = "HTTPS" /\ r.lapses \in Nat /\ c.expires <= r.lapses
    <3>1. CASE r \in c.left /\ r.type = "service"
      BY <2>3, <3>1 DEF LeftSound
    <3>2. CASE c.kind = "HTTPS" /\ r = [type |-> "fallback", to |-> Root, lapses |-> Resolving!Never]
      BY <2>3, <3>2 DEF Resolving!Never
    <3> QED
      BY <1>2, <2>1, <3>1, <3>2 DEF Resolving!Offered, Resolving!Left, Resolving!Top
  <2>5. PICK bound \in Nat : bound = Resolving!Bound(r) /\ c.expires <= bound
    BY <1>2, <2>3, <2>4 DEF Resolving!Bound, Resolving!Earlier, Resolving!Top
  <2>6. PICK s : s = [to |-> to, bound |-> bound, families |-> {"A", "AAAA"}, found |-> {}, expires |-> c.expires]
    OBVIOUS
  <2>7. PICK left : left = c.left \ {r}
    OBVIOUS
  <2>8. PICK x : x = [c EXCEPT !.step = "service", !.left = left, !.alias = alias, !.service = s]
    OBVIOUS
  <2>9. x = [name |-> c.name, kind |-> c.kind, visited |-> c.visited, depth |-> c.depth, expires |-> c.expires,
             bound |-> c.bound, alias |-> alias, optional |-> c.optional, step |-> "service",
             upstream |-> c.upstream, left |-> left, found |-> c.found, service |-> s]
    BY <1>3, <2>8 DEF CallSound
  <2>10. LeftSound(x)
    BY <2>3, <2>7, <2>9 DEF LeftSound
  <2>11. ServiceCallSound(x)
    BY <2>3, <2>4, <2>5, <2>6, <2>9 DEF ServiceCallSound
  <2>12. CallSound(x) /\ x.depth = c.depth /\ x.kind = c.kind
    BY <1>3, <2>3, <2>9, <2>10, <2>11 DEF CallSound
  <2>13. calls' = <<x>> \o Tail(calls) /\ UNCHANGED <<purpose, plan, services, evidence, resolutionAnswer, outcome>>
    BY <2>1, <2>5, <2>6, <2>7, <2>8 DEF Resolving!Become, Resolving!Continue, Resolving!Callers
  <2>14. StackSound(calls')
    BY <1>1, <1>3, <2>12, <2>13, StackBecomes
  <2> QED
    BY <1>1, <2>1, <2>2, <2>13, <2>14, Continues
<1> QED
  BY <1>4, <1>5

\* An address of a service is looked up.
LEMMA LookUpKeeps == ResolutionInv /\ Resolving!LookUp => ResolutionInv'
<1> SUFFICES ASSUME ResolutionInv, Resolving!LookUp PROVE ResolutionInv'
  OBVIOUS
<1>1. outcome = "open" /\ calls # <<>> /\ Head(calls).step = "service"
  BY DEF Resolving!LookUp, Resolving!Open
<1>2. PICK c : c = Head(calls)
  OBVIOUS
<1>3. StackSound(calls) /\ CallSound(c) /\ c = calls[1]
  BY <1>1, <1>2, TopSound
<1>4. PICK family, to, empty, families, alias, optional :
        /\ family \in c.service.families /\ families = c.service.families \ {family}
        /\ to = c.service.to /\ empty = {} /\ alias = FALSE /\ optional = TRUE
        /\ UNCHANGED <<clock, messages, job>>
        /\ Resolving!Enter([c EXCEPT !.service.families = families],
               Resolving!Call(to, family, empty, c.depth, c.expires, c.service.bound, alias, optional))
  BY <1>2 DEF Resolving!LookUp, Resolving!Top, Resolving!NoExchange
<1>5. /\ c.kind \in QKinds /\ c.depth \in Nat /\ c.expires \in Nat /\ c.bound \in Nat
      /\ c.depth <= MaxAliases /\ c.expires <= c.bound /\ c.expires <= Resolving!Never
      /\ LeftSound(c) /\ ServiceCallSound(c) /\ \A b \in c.found : c.expires <= b
  BY <1>1, <1>2, <1>3 DEF CallSound
<1>6. PICK bound \in Nat : bound = c.service.bound /\ c.expires <= bound
  BY <1>5 DEF ServiceCallSound
<1>7. family \in QKinds /\ family # "HTTPS" /\ c.kind = "HTTPS"
  BY <1>4, <1>5 DEF ServiceCallSound, QKinds
<1>8. PICK s : s = [to |-> c.service.to, bound |-> c.service.bound, families |-> families,
                    found |-> c.service.found, expires |-> c.service.expires]
  OBVIOUS
<1>9. PICK x : x = [c EXCEPT !.service.families = families]
  OBVIOUS
<1>10. x = [name |-> c.name, kind |-> c.kind, visited |-> c.visited, depth |-> c.depth, expires |-> c.expires,
            bound |-> c.bound, alias |-> c.alias, optional |-> c.optional, step |-> c.step,
            upstream |-> c.upstream, left |-> c.left, found |-> c.found, service |-> s]
  <2>1. c.service = [to |-> c.service.to, bound |-> c.service.bound, families |-> c.service.families,
                    found |-> c.service.found, expires |-> c.service.expires]
    BY <1>5 DEF ServiceCallSound
  <2>2. [c.service EXCEPT !.families = families] = s
    BY <1>8, <2>1
  <2>3. x = [c EXCEPT !.service = s]
    BY <1>9, <2>2
  <2> QED
    BY <1>3, <2>3 DEF CallSound
<1>11. LeftSound(x)
  BY <1>5, <1>10 DEF LeftSound
<1>12. ServiceCallSound(x)
  BY <1>4, <1>5, <1>8, <1>10 DEF ServiceCallSound
<1>13. CallSound(x) /\ x.depth = c.depth /\ x.kind = c.kind /\ x.step # "ask"
  BY <1>1, <1>2, <1>3, <1>5, <1>10, <1>11, <1>12 DEF CallSound
<1>14. PICK y : y = Resolving!Call(to, family, empty, c.depth, c.expires, bound, alias, optional)
  OBVIOUS
<1>15. c.depth <= MaxAliases + 1
  BY <1>5, ResolutionAssumption
<1>16. CallSound(y) /\ y.kind = family /\ y.depth = c.depth
  <2> HIDE <1>4
  <2> QED
    BY <1>5, <1>6, <1>7, <1>14, <1>15, CalledSound
<1>17. calls' = <<y, x>> \o Tail(calls) /\ UNCHANGED <<purpose, plan, services, evidence, resolutionAnswer, outcome>>
  BY <1>4, <1>6, <1>9, <1>14 DEF Resolving!Enter, Resolving!Continue, Resolving!Callers
<1>18. StackSound(calls')
  BY <1>1, <1>3, <1>7, <1>13, <1>16, <1>17, StackEnters
<1> QED
  BY <1>1, <1>4, <1>17, <1>18, Continues DEF ResolutionInv

\* A service has its addresses.
LEMMA ServedKeeps == ResolutionInv /\ Resolving!Served => ResolutionInv'
<1> SUFFICES ASSUME ResolutionInv, Resolving!Served PROVE ResolutionInv'
  OBVIOUS
<1>1. outcome = "open" /\ calls # <<>> /\ Head(calls).step = "service"
  BY DEF Resolving!Served, Resolving!Open
<1>2. PICK c : c = Head(calls)
  OBVIOUS
<1>3. StackSound(calls) /\ CallSound(c) /\ c = calls[1]
  BY <1>1, <1>2, TopSound
<1>4. PICK s, x :
        /\ s = [families |-> {}] /\ x = [c EXCEPT !.step = "records", !.service = s]
        /\ services' = services \cup {[found |-> c.service.found, expires |-> c.service.expires]}
        /\ calls' = <<x>> \o Tail(calls)
        /\ UNCHANGED <<clock, purpose, job, plan, messages, evidence, resolutionAnswer, outcome>>
  BY <1>2 DEF Resolving!Served, Resolving!Top, Resolving!Callers
<1>5. /\ c.kind \in QKinds /\ c.depth \in Nat /\ c.expires \in Nat /\ c.bound \in Nat
      /\ c.depth <= MaxAliases /\ c.expires <= c.bound /\ c.expires <= Resolving!Never
      /\ LeftSound(c) /\ ServiceCallSound(c) /\ \A b \in c.found : c.expires <= b
  BY <1>1, <1>2, <1>3 DEF CallSound
<1>6. x = [name |-> c.name, kind |-> c.kind, visited |-> c.visited, depth |-> c.depth, expires |-> c.expires,
           bound |-> c.bound, alias |-> c.alias, optional |-> c.optional, step |-> "records",
           upstream |-> c.upstream, left |-> c.left, found |-> c.found, service |-> s]
  BY <1>3, <1>4 DEF CallSound
<1>7. LeftSound(x)
  BY <1>5, <1>6 DEF LeftSound
<1>8. CallSound(x) /\ x.depth = c.depth /\ x.kind = c.kind
  BY <1>3, <1>5, <1>6, <1>7 DEF CallSound
<1>9. StackSound(calls')
  BY <1>1, <1>3, <1>4, <1>8, StackBecomes
<1>10. \A t \in services' : t.expires \in Nat /\ \A b \in t.found : b \in Nat /\ t.expires <= b
  <2>1. PICK new : new = [found |-> c.service.found, expires |-> c.service.expires]
    OBVIOUS
  <2>2. new.expires \in Nat /\ \A b \in new.found : b \in Nat /\ new.expires <= b
    BY <1>5, <2>1 DEF ServiceCallSound
  <2>3. \A t \in services : t.expires \in Nat /\ \A b \in t.found : b \in Nat /\ t.expires <= b
    BY DEF ResolutionInv
  <2> QED
    BY <1>4, <2>1, <2>2, <2>3
<1> QED
  BY <1>1, <1>4, <1>9, <1>10 DEF ResolutionInv, Resolving!TtlsOnlyShrink

\* Nothing is left to follow.
LEMMA FinishKeeps == ResolutionInv /\ Resolving!Finish => ResolutionInv'
<1> SUFFICES ASSUME ResolutionInv, Resolving!Finish PROVE ResolutionInv'
  OBVIOUS
<1>1. outcome = "open" /\ calls # <<>> /\ Head(calls).step = "records"
  BY DEF Resolving!Finish, Resolving!Open
<1>2. PICK c : c = Head(calls)
  OBVIOUS
<1>3. StackSound(calls) /\ CallSound(c) /\ c = calls[1]
  BY <1>1, <1>2, TopSound
<1>4. PICK x : /\ x = [c EXCEPT !.step = "return"]
               /\ calls' = <<x>> \o Tail(calls) /\ UNCHANGED <<clock, messages, job>>
               /\ UNCHANGED <<purpose, plan, services, evidence, resolutionAnswer, outcome>>
  BY <1>2 DEF Resolving!Finish, Resolving!Top, Resolving!Become, Resolving!Continue, Resolving!Callers, Resolving!NoExchange
<1>5. c.depth <= MaxAliases /\ c.expires \in Nat /\ \A b \in c.found : c.expires <= b
  BY <1>1, <1>2, <1>3 DEF CallSound
<1>6. CallSound(x)
  BY <1>3, <1>4, <1>5, ReturningSound
<1>7. x.depth = c.depth /\ x.kind = c.kind
  BY <1>3, <1>4 DEF CallSound
<1>8. StackSound(calls')
  BY <1>1, <1>3, <1>4, <1>6, <1>7, StackBecomes
<1> QED
  BY <1>1, <1>4, <1>8, Continues DEF ResolutionInv

\* What follow returns to the call below.
LEMMA TakenSound ==
  ASSUME NEW c, NEW t, CallSound(c), CallSound(t), c.step # "ask", t = Head(calls)
  PROVE  /\ CallSound(Resolving!TakenBy(c))
         /\ Resolving!TakenBy(c).depth = c.depth /\ Resolving!TakenBy(c).kind = c.kind
<1>1. PICK x : x = Resolving!TakenBy(c)
  OBVIOUS
<1>2. /\ c.kind \in QKinds /\ c.depth \in Nat /\ c.expires \in Nat /\ c.bound \in Nat
      /\ c.depth <= MaxAliases + 1 /\ c.depth <= MaxAliases
      /\ c.step \in {"ask", "records", "service", "return"} /\ \A b \in c.found : b \in Nat /\ c.expires <= b
  BY DEF CallSound
<1>3. t.expires \in Nat /\ \A b \in t.found : b \in Nat /\ t.expires <= b
  BY DEF CallSound
<1>4. CASE c.step = "service"
  <2>1. ServiceCallSound(c) /\ LeftSound(c) /\ c.expires <= c.bound /\ c.expires <= Resolving!Never
    BY <1>4 DEF CallSound
  <2>2. PICK found, expires : /\ found = c.service.found \cup t.found
                              /\ expires = IF t.found = {} THEN c.service.expires
                                           ELSE Resolving!Earlier(c.service.expires, t.expires)
    OBVIOUS
  <2>3. PICK s : s = [to |-> c.service.to, bound |-> c.service.bound, families |-> c.service.families,
                      found |-> found, expires |-> expires]
    OBVIOUS
  <2>4. x = [c EXCEPT !.service = s]
    <3>1. c.service = [to |-> c.service.to, bound |-> c.service.bound, families |-> c.service.families,
                       found |-> c.service.found, expires |-> c.service.expires]
      BY <2>1 DEF ServiceCallSound
    <3>2. x = [c EXCEPT !.service = [[c.service EXCEPT !.found = found] EXCEPT !.expires = expires]]
      BY <1>1, <1>4, <2>2, <3>1 DEF Resolving!TakenBy, Resolving!Top, CallSound
    <3>3. [[c.service EXCEPT !.found = found] EXCEPT !.expires = expires] = s
      <4>1. PICK d : d = c.service
        OBVIOUS
      <4>2. d = [to |-> d.to, bound |-> d.bound, families |-> d.families, found |-> d.found, expires |-> d.expires]
        BY <3>1, <4>1
      <4>3. [d EXCEPT !.found = found] = [to |-> d.to, bound |-> d.bound, families |-> d.families,
                                          found |-> found, expires |-> d.expires]
        BY <4>2
      <4>4. PICK e : e = [d EXCEPT !.found = found]
        OBVIOUS
      <4>5. e = [to |-> d.to, bound |-> d.bound, families |-> d.families, found |-> found, expires |-> d.expires]
        BY <4>3, <4>4
      <4>6. PICK f : f = [e EXCEPT !.expires = expires]
        OBVIOUS
      <4>7. f = [to |-> d.to, bound |-> d.bound, families |-> d.families, found |-> found, expires |-> expires]
        <5> HIDE <4>4
        <5> QED
          BY <4>5, <4>6
      <4> QED
        BY <2>3, <4>1, <4>4, <4>6, <4>7
    <3> QED
      BY <3>2, <3>3
  <2>5. x = [name |-> c.name, kind |-> c.kind, visited |-> c.visited, depth |-> c.depth, expires |-> c.expires,
             bound |-> c.bound, alias |-> c.alias, optional |-> c.optional, step |-> c.step,
             upstream |-> c.upstream, left |-> c.left, found |-> c.found, service |-> s]
    BY <2>4 DEF CallSound
  <2>6. expires \in Nat /\ \A b \in found : b \in Nat /\ expires <= b
    BY <1>3, <2>1, <2>2 DEF ServiceCallSound, Resolving!Earlier
  <2>7. ServiceCallSound(x)
    BY <2>1, <2>3, <2>5, <2>6 DEF ServiceCallSound
  <2>8. LeftSound(x)
    BY <2>1, <2>5 DEF LeftSound
  <2>9. CallSound(x)
    BY <1>2, <1>4, <2>1, <2>5, <2>7, <2>8 DEF CallSound
  <2> QED
    BY <1>1, <2>5, <2>9
<1>5. CASE c.step # "service"
  <2>1. PICK found, expires : /\ found = c.found \cup t.found
                              /\ expires = Resolving!Earlier(c.expires, t.expires)
    OBVIOUS
  <2>2. x = [[c EXCEPT !.found = found] EXCEPT !.expires = expires]
    BY <1>1, <1>5, <2>1 DEF Resolving!TakenBy, Resolving!Top, CallSound
  <2>3. x = [name |-> c.name, kind |-> c.kind, visited |-> c.visited, depth |-> c.depth, expires |-> expires,
             bound |-> c.bound, alias |-> c.alias, optional |-> c.optional, step |-> c.step,
             upstream |-> c.upstream, left |-> c.left, found |-> found, service |-> c.service]
    BY <2>2 DEF CallSound
  <2>4. expires \in Nat /\ expires <= c.expires /\ \A b \in found : b \in Nat /\ expires <= b
    BY <1>2, <1>3, <2>1 DEF Resolving!Earlier
  <2>5. c.step = "records" => LeftSound(x)
    <3>1. c.step = "records" => \A r \in c.left : /\ r.lapses \in Nat /\ c.expires <= r.lapses
                                                  /\ c.kind # "HTTPS" => r.type = "link"
      BY DEF CallSound, LeftSound
    <3> QED
      BY <1>2, <2>3, <2>4, <3>1 DEF LeftSound
  <2>6. x.step # "return" => x.expires <= x.bound /\ x.expires <= Resolving!Never
    <3>1. c.step # "return" => c.expires <= c.bound /\ c.expires <= Resolving!Never
      BY DEF CallSound
    <3> QED
      BY <1>2, <2>3, <2>4, <3>1 DEF Resolving!Never
  <2>7. CallSound(x)
    BY <1>2, <1>5, <2>3, <2>4, <2>5, <2>6 DEF CallSound
  <2> QED
    BY <1>1, <2>3, <2>7
<1> QED
  BY <1>4, <1>5

\* A call returns to the one below.
LEMMA ReturnKeeps == ResolutionInv /\ Resolving!Return => ResolutionInv'
<1> SUFFICES ASSUME ResolutionInv, Resolving!Return PROVE ResolutionInv'
  OBVIOUS
<1>1. outcome = "open" /\ calls # <<>> /\ Tail(calls) # <<>>
  BY DEF Resolving!Return, Resolving!Open, Resolving!Callers
<1>2. PICK q : q = Tail(calls)
  OBVIOUS
<1>3. StackSound(calls) /\ CallSound(Head(calls)) /\ IsStack(calls)
  BY <1>1, TopSound DEF StackSound
<1>4. StackSound(q) /\ q # <<>>
  BY <1>1, <1>2, <1>3, StackPops
<1>5. Head(q) = q[1] /\ Len(q) >= 1 /\ Len(q) \in Nat
  BY <1>4, Stacks DEF StackSound, IsStack
<1>6. Len(q) = Len(calls) - 1 /\ Len(calls) \in Nat /\ q[1] = calls[2]
  <2>1. Len(calls) \in Nat /\ Len(q) = Len(calls) - 1 /\ \A i \in 1..Len(calls) - 1 : q[i] = calls[i + 1]
    BY <1>1, <1>2, <1>3, Stacks DEF IsStack
  <2> QED
    BY <1>5, <2>1
<1>7. CallSound(q[1]) /\ q[1].step # "ask"
  <2>1. 2 \in 1..Len(calls)
    BY <1>5, <1>6
  <2>2. CallSound(calls[2]) /\ PlaceSound(calls, 2)
    BY <1>3, <2>1 DEF StackSound
  <2> QED
    BY <1>6, <2>2 DEF PlaceSound
<1>8. PICK x : /\ x = Resolving!TakenBy(q[1])
               /\ calls' = <<x>> \o Tail(q) /\ UNCHANGED <<clock, messages, job>>
               /\ UNCHANGED <<purpose, plan, services, evidence, resolutionAnswer, outcome>>
  BY <1>2, <1>5 DEF Resolving!Return, Resolving!Continue, Resolving!Callers, Resolving!NoExchange
<1>9. CallSound(x) /\ x.depth = q[1].depth /\ x.kind = q[1].kind
  BY <1>3, <1>7, <1>8, TakenSound
<1>10. StackSound(calls')
  BY <1>4, <1>8, <1>9, StackBecomes
<1> QED
  BY <1>1, <1>8, <1>10, Continues DEF ResolutionInv

\* A membership takes what a question found.
LEMMA GatherKeeps == ResolutionInv /\ Resolving!Gather => ResolutionInv'
<1> SUFFICES ASSUME ResolutionInv, Resolving!Gather PROVE ResolutionInv'
  OBVIOUS
<1>1. outcome = "open" /\ calls # <<>> /\ Resolving!NextQuestion /\ UNCHANGED <<clock, job>>
  BY DEF Resolving!Gather, Resolving!Open
<1>2. PICK c : c = Head(calls)
  OBVIOUS
<1>3. c.expires \in Nat /\ \A b \in c.found : b \in Nat /\ c.expires <= b
  BY <1>1, <1>2, TopSound DEF CallSound
<1>4. PICK serving, direct, addresses, T :
        /\ serving = {s \in services : s.found # {}} /\ direct = IF c.found = {} THEN {} ELSE {c.expires}
        /\ addresses = evidence.addresses \cup c.found \cup UNION {s.found : s \in serving}
        /\ T = {evidence.expires} \cup direct \cup {s.expires : s \in serving}
        /\ evidence' = [addresses |-> addresses, expires |-> Resolving!Least(T)]
  BY <1>2 DEF Resolving!Gather, Resolving!Top
<1>5. \A s \in serving : s.expires \in Nat /\ \A b \in s.found : b \in Nat /\ s.expires <= b
  BY <1>4 DEF ResolutionInv
<1>6. evidence.expires \in Nat /\ \A b \in evidence.addresses : b \in Nat /\ evidence.expires <= b
  BY DEF ResolutionInv
<1>7. T \in SUBSET Nat /\ T # {}
  BY <1>3, <1>4, <1>5, <1>6
<1>8. PICK least \in Nat : least = Resolving!Least(T) /\ \A u \in T : least <= u
  BY <1>7, LeastIs
<1>a. /\ evidence.expires \in T /\ (c.found # {} => c.expires \in T)
      /\ \A s \in serving : s.expires \in T
  BY <1>4
<1>b. \A u \in T : u \in Nat /\ least <= u
  BY <1>7, <1>8
<1>9. \A b \in addresses : b \in Nat /\ least <= b
  <2> SUFFICES ASSUME NEW b \in addresses PROVE b \in Nat /\ least <= b
    OBVIOUS
  <2>1. CASE b \in evidence.addresses
    BY <1>6, <1>a, <1>b, <2>1
  <2>2. CASE b \in c.found
    BY <1>3, <1>a, <1>b, <2>2
  <2>3. CASE b \in UNION {s.found : s \in serving}
    <3>1. PICK s \in serving : b \in s.found
      BY <2>3
    <3> QED
      BY <1>5, <1>a, <1>b, <3>1
  <2> QED
    BY <1>4, <2>1, <2>2, <2>3
<1>10. evidence' = [addresses |-> addresses, expires |-> least]
  BY <1>4, <1>8
<1>11. evidence' = [addresses |-> evidence'.addresses, expires |-> evidence'.expires]
       /\ evidence'.expires \in Nat /\ \A b \in evidence'.addresses : b \in Nat /\ evidence'.expires <= b
  BY <1>9, <1>10
<1>12. /\ plan' \in Seq(QKinds) /\ (outcome' = "open" => plan' # <<>>)
       /\ StackSound(calls') /\ messages' = {} /\ services' = {} /\ UNCHANGED resolutionAnswer
  BY <1>1, NextQuestionSound
<1>13. resolutionAnswer = {}
  BY <1>1 DEF ResolutionInv
<1> QED
  BY <1>1, <1>11, <1>12, <1>13 DEF ResolutionInv, Resolving!TtlsOnlyShrink

\* A client is answered.
LEMMA AssembleKeeps == ResolutionInv /\ Resolving!Assemble => ResolutionInv'
<1> SUFFICES ASSUME ResolutionInv, Resolving!Assemble PROVE ResolutionInv'
  OBVIOUS
<1>1. outcome = "open"
  BY DEF Resolving!Assemble, Resolving!Open
<1>2. /\ clock \in Nat /\ job = [subqueries |-> job.subqueries, endpoints |-> job.endpoints]
      /\ job.subqueries \in Nat /\ job.subqueries <= MaxSubqueries
      /\ job.endpoints \in Nat /\ job.endpoints <= MaxEndpoints
  BY DEF ResolutionInv
<1>3. CASE Resolving!Ends("unrepresentable")
  BY <1>1, <1>2, <1>3, EndsEarly DEF Resolving!Ends
<1>4. CASE ~Resolving!Ends("unrepresentable")
  <2>3. PICK used, seen :
           /\ used = {m \in messages : m.name \in Resolving!Chain} /\ outcome' = "done" /\ calls' = <<>>
           /\ seen = UNION {Resolving!Seen(m) : m \in used}
           /\ resolutionAnswer' = IF \E m \in used : m.code = "servfail" THEN {} ELSE Resolving!Merged(seen)
           /\ UNCHANGED <<clock, purpose, job, plan, messages, services, evidence>>
    BY <1>4 DEF Resolving!Assemble
  <2>4. used \subseteq messages
    BY <2>3
  <2>5. ASSUME NEW y \in seen
        PROVE  y.ttl \in Nat /\ y.lapses \in Nat /\ (y.ttl = 0 \/ clock + 2 * y.ttl <= y.lapses)
    <3>1. PICK m \in used : y \in Resolving!Seen(m)
      BY <2>3
    <3>a. PICK s \in m.records : /\ y.ttl = Resolving!Aged(s.ttl, m.at)
                                 /\ y.lapses = m.at + 2 * s.ttl
      BY <3>1 DEF Resolving!Seen
    <3>2. m.at \in Nat /\ m.at <= clock /\ s.ttl \in Nat
      BY <2>4, <3>1, <3>a DEF ResolutionInv
    <3>3. PICK age \in Nat : age = Resolving!Age(m.at) /\ clock - m.at <= 2 * age
      BY <1>2, <3>2 DEF Resolving!Age
    <3>4. PICK ttl \in Nat : ttl = Resolving!Aged(s.ttl, m.at) /\ (ttl = 0 \/ ttl = s.ttl - age)
      BY <3>2, <3>3 DEF Resolving!Aged
    <3>5. y.ttl = ttl /\ y.lapses = m.at + 2 * s.ttl
      BY <3>a, <3>4
    <3> QED
      BY <1>2, <3>2, <3>3, <3>4, <3>5
  <2>2. Resolving!TtlsOnlyShrink'
    <3> SUFFICES ASSUME NEW r \in resolutionAnswer' PROVE r.ttl = 0 \/ clock' + 2 * r.ttl <= r.lapses
      BY DEF Resolving!TtlsOnlyShrink
    <3>1. PICK x \in seen :
              r = [ttl |-> Resolving!Least({y.ttl : y \in {z \in seen : z.of = x.of}}),
                   lapses |-> Resolving!Least({y.lapses : y \in {z \in seen : z.of = x.of}})]
      BY <2>3 DEF Resolving!Merged
    <3>2. PICK S : S = {z \in seen : z.of = x.of}
      OBVIOUS
    <3>3. PICK T, L : T = {y.ttl : y \in S} /\ L = {y.lapses : y \in S}
      OBVIOUS
    <3>4. x \in S /\ S \subseteq seen
      BY <3>2
    <3>5. T \in SUBSET Nat /\ L \in SUBSET Nat /\ T # {} /\ L # {}
      BY <2>5, <3>3, <3>4
    <3>6. PICK t \in Nat : t = Resolving!Least(T) /\ \A u \in T : t <= u
      BY <3>5, LeastIs
    <3>7. PICK l \in L : l = Resolving!Least(L)
      BY <3>5, LeastIs
    <3>8. PICK y \in S : l = y.lapses
      BY <3>3, <3>7
    <3>9. y.ttl \in Nat /\ y.lapses \in Nat /\ (y.ttl = 0 \/ clock + 2 * y.ttl <= y.lapses) /\ t <= y.ttl
      BY <2>5, <3>3, <3>4, <3>6, <3>8
    <3>10. r.ttl = t /\ r.lapses = y.lapses /\ clock' = clock
      BY <2>3, <3>1, <3>2, <3>3, <3>6, <3>7, <3>8
    <3> QED
      BY <1>2, <3>6, <3>9, <3>10
  <2>6. StackSound(calls')
    BY <2>3, FirstCall DEF QKinds
  <2> QED
    BY <2>2, <2>3, <2>6 DEF ResolutionInv
<1> QED
  BY <1>3, <1>4

\* Every step of a resolution keeps the invariant.
LEMMA ResolutionStep == ResolutionInv /\ Resolving!Next => ResolutionInv'
<1> SUFFICES ASSUME ResolutionInv, Resolving!Next PROVE ResolutionInv'
  OBVIOUS
<1>1. CASE Resolving!Refuse
  BY <1>1, DenyKeeps DEF Resolving!Refuse, Resolving!Open
<1> QED
  BY <1>1, ExchangeKeeps, NextUpstreamKeeps, NoUpstreamKeeps, FollowLinkKeeps, FollowAliasKeeps, ServeKeeps,
     LookUpKeeps, ServedKeeps, FinishKeeps, ReturnKeeps, GatherKeeps, AssembleKeeps DEF Resolving!Next

-----------------------------------------------------------------------------
(***************************************************************************)
(* DnssecTrust: a verdict is earned.                                       *)
(***************************************************************************)

Cuts == {"none", "signed", "unsigned", "unsupported"}
TruthTyped ==
    /\ cuts \in [1..Depth -> Cuts]
    /\ anchors \in SUBSET Names /\ 0 \in anchors
    /\ \A a \in anchors \ {0} : cuts[a] \in {"signed", "unsigned"}
    /\ honest \in BOOLEAN

\* What a zone was judged to be it is; an honest upstream's zone is left open only where
\* the truth cannot be learnt.
Verdicts == [state : States, keys : {"true", "none"}]
VerdictSound(z, v) ==
    /\ v.state = "secure" => v.keys = "true" /\ IsApex(z) /\ IsSecure(z)
    /\ v.state = "insecure" => ~IsSecure(z)
    /\ honest => v.state # "bogus" /\ (v.state = "indeterminate" => OutOfReach(z))
ZoneTable(m) ==
    /\ m \in [Names -> Verdicts \cup {Unknown}]
    /\ \A z \in Names : m[z] # Unknown => VerdictSound(z, m[z])

\* A zone being authenticated asks only parents at or below its closest anchor.
FrameTypes ==
    [zone : Names, step : {"keys", "ds", "denial", "parents"}, keys : {"none", "set", "empty"},
     left : SUBSET Names, seen : SUBSET States]
HonestFrame(f) ==
    /\ IsApex(f.zone)
    /\ f.step # "keys" => f.keys = IF Signs(f.zone) THEN "set" ELSE "empty"
    /\ \A p \in f.left : p = ZoneOf(f.zone - 1)
    /\ "indeterminate" \in f.seen => OutOfReach(f.zone)
    /\ f.step = "denial" => cuts[f.zone] = "unsigned" /\ (f.left = {} => OutOfReach(f.zone))
    /\ f.step = "parents" => /\ cuts[f.zone] # "unsigned"
                             /\ f.left = {} => "insecure" \in f.seen \/ "indeterminate" \in f.seen
FrameSound(f) ==
    /\ f.step = "keys" => f.left = {}
    /\ f.step # "keys" => f.zone \notin anchors /\ f.left \subseteq Signers(f.zone)
    /\ "insecure" \in f.seen => ~IsSecure(f.zone)
    /\ honest => HonestFrame(f)
SoundFrames == {f \in FrameTypes : FrameSound(f)}

\* The signatures of an RRset, or the zone it is in when it has none.
SignedChecks ==
    [phase : {"signed"}, owner : Names, left : SUBSET Names, seen : SUBSET States,
     checked : BOOLEAN, valid : BOOLEAN, optOut : BOOLEAN]
SignedSound(c) ==
    /\ c \in SignedChecks
    /\ \A s \in c.left : s <= c.owner
    /\ "secure" \notin c.seen
    /\ c.valid => IsSecure(c.owner)
    /\ "insecure" \in c.seen => c.optOut \/ ~IsSecure(c.owner)
    /\ honest => /\ ~c.optOut /\ ~c.checked /\ "bogus" \notin c.seen
                 /\ \A s \in c.left : s = ZoneOf(c.owner)
                 /\ c.left = {} => c.valid \/ c.seen # {}
                 /\ "indeterminate" \in c.seen => OutOfReach(c.owner)
LookingChecks == [phase : {"looking", "cuts"}, owner : Names, zone : Names, next : Nat]
LookingSound(c, m) ==
    /\ c \in LookingChecks
    /\ Anchor(c.owner) <= c.zone /\ c.zone < c.next /\ c.zone <= c.owner
    /\ c.phase = "cuts" => m[c.zone] # Unknown
    /\ honest => c.zone = ZoneOf(c.owner) /\ ~Signs(c.zone)

\* The RRsets of an answer, those that remain, and what the others say of it.
Kept(kind, soa) ==
    CASE kind = "denial" -> {soa}
      [] kind = "alias" -> {Depth, Depth - 1}
      [] kind = "dname" -> {Depth - 1}
      [] OTHER -> {Depth}
AnswerKinds == {"none", "data", "alias", "dname", "denial"}
AnswerTypes == [kind : AnswerKinds, state : {"none", "open"} \cup States, soa : Names, optOut : BOOLEAN]
Remain == {todo[i] : i \in 1..Len(todo)}
Judged ==
    /\ Remain \subseteq Kept(answer.kind, answer.soa)
    /\ \A o \in Kept(answer.kind, answer.soa) :
           o \in Remain \/ (results # {} /\ (results = {"secure"} => IsSecure(o)))
    /\ "insecure" \in results =>
           answer.optOut \/ \E o \in Kept(answer.kind, answer.soa) : ~IsSecure(o)
    /\ honest => /\ ~answer.optOut
                 /\ answer.kind = "denial" => answer.soa = ZoneOf(Depth)
                 /\ \A r \in results : r \in {"secure", "insecure"} \/ OutOfReach(Depth)
OutcomeSound ==
    /\ answer.state = "secure" => TrulySecure /\ (answer.kind = "denial" => answer.soa = ZoneOf(Depth))
    /\ answer.state = "insecure" => ~TrulySecure \/ answer.optOut \/ SoaAboveAnchor
    /\ honest /\ ~OutOfReach(Depth) => answer.state = IF TrulySecure THEN "secure" ELSE "insecure"
ReplySound ==
    /\ reply.kind \in {"none", "none at all", "servfail", "plain"} => ~reply.ad
    /\ reply.ad => answer.state = "secure"
    /\ reply.kind = "answer" => answer.state \in {"secure", "insecure"}
    /\ reply.kind = "answer" /\ ~reply.ad => answer.state = "insecure"

TrustTyped ==
    /\ stack \in Seq(SoundFrames) /\ ZoneTable(memo) /\ ZoneTable(zones)
    /\ todo \in Seq(Names) /\ results \in SUBSET States /\ answer \in AnswerTypes
    /\ reply \in [kind : {"none", "none at all", "servfail", "plain", "answer", "unchecked"}, ad : BOOLEAN]
CheckSound ==
    /\ check = NoCheck \/ SignedSound(check) \/ LookingSound(check, zones)
    /\ check # NoCheck => todo # <<>> /\ check.owner = Head(todo) /\ answer.state = "open"
TrustInv ==
    /\ TruthTyped /\ TrustTyped /\ CheckSound /\ ReplySound
    /\ answer.kind = "none" <=> answer.state = "none"
    /\ answer.kind = "none" => results = {}
    /\ answer.state # "open" => todo = <<>>
    /\ Running /\ answer.state = "open" => Judged
    /\ Done => OutcomeSound

-----------------------------------------------------------------------------
\* The zones and anchors of the names.
LEMMA GreatestOf ==
  ASSUME NEW N \in SUBSET Names, N # {}
  PROVE  Greatest(N) \in N /\ Greatest(N) \in Nat /\ \A k \in N : k <= Greatest(N)
<1>1. N \in SUBSET Nat /\ \A x \in N : x <= Depth
  BY TrustAssumption DEF Names
<1>2. \E x \in N : \A y \in N : y <= x
  BY <1>1, GreatestExists, TrustAssumption
<1> QED
  BY <1>1, <1>2 DEF Greatest

LEMMA ZoneOfName ==
  ASSUME NEW n \in Names
  PROVE  /\ ZoneOf(n) \in Names /\ ZoneOf(n) <= n /\ IsApex(ZoneOf(n))
         /\ \A k \in Names : k <= n /\ IsApex(k) => k <= ZoneOf(n)
<1>1. PICK N : N = {k \in 0..n : IsApex(k)}
  OBVIOUS
<1>2. N \in SUBSET Names /\ 0 \in N
  BY <1>1, TrustAssumption DEF Names, IsApex
<1>3. Greatest(N) \in N /\ \A k \in N : k <= Greatest(N)
  BY <1>2, GreatestOf
<1>4. ZoneOf(n) = Greatest(N)
  BY <1>1 DEF ZoneOf
<1> QED
  BY <1>1, <1>2, <1>3, <1>4, TrustAssumption DEF Names

LEMMA AnchorOfName ==
  ASSUME TruthTyped, NEW n \in Names
  PROVE  /\ Anchor(n) \in anchors /\ Anchor(n) \in Names /\ Anchor(n) <= n
         /\ \A a \in anchors : a <= n => a <= Anchor(n)
<1>1. PICK N : N = {a \in anchors : a <= n}
  OBVIOUS
<1>2. N \in SUBSET Names /\ 0 \in N
  <2>1. 0 <= n
    BY TrustAssumption DEF Names
  <2> QED
    BY <1>1, <2>1 DEF TruthTyped
<1>3. Greatest(N) \in N /\ \A k \in N : k <= Greatest(N)
  BY <1>2, GreatestOf
<1>4. Anchor(n) = Greatest(N)
  BY <1>1 DEF Anchor
<1> QED
  BY <1>1, <1>2, <1>3, <1>4

\* An anchor is the apex of a zone that signs.
LEMMA AnchorIsApex ==
  ASSUME TruthTyped, NEW a \in anchors
  PROVE  a \in Names /\ IsApex(a) /\ Signs(a) /\ Anchor(a) = a /\ IsSecure(a)
<1>1. a \in Names /\ Signs(a)
  BY DEF TruthTyped, Signs
<1>2. IsApex(a)
  BY <1>1 DEF TruthTyped, IsApex, Names
<1>3. Anchor(a) = a
  BY <1>1, AnchorOfName DEF Names
<1>4. (Anchor(a) + 1)..a = {}
  BY <1>1, <1>3 DEF Names
<1> QED
  BY <1>1, <1>2, <1>3, <1>4 DEF IsSecure

LEMMA AnchorInZone ==
  ASSUME TruthTyped, NEW n \in Names
  PROVE  Anchor(n) <= ZoneOf(n)
BY AnchorOfName, AnchorIsApex, ZoneOfName

LEMMA SameAnchor ==
  ASSUME TruthTyped, NEW n \in Names, NEW m \in Names, n <= m, Anchor(m) <= n
  PROVE  Anchor(n) = Anchor(m)
<1>1. Anchor(n) \in anchors /\ Anchor(n) \in Names /\ Anchor(n) <= n /\ \A a \in anchors : a <= n => a <= Anchor(n)
  BY AnchorOfName
<1>2. Anchor(m) \in anchors /\ Anchor(m) \in Names /\ \A a \in anchors : a <= m => a <= Anchor(m)
  BY AnchorOfName
<1>3. PICK x, y : x = Anchor(n) /\ y = Anchor(m)
  OBVIOUS
<1> QED
  BY <1>1, <1>2, <1>3 DEF Names

LEMMA SecureAbove ==
  ASSUME TruthTyped, NEW n \in Names, NEW m \in Names, n <= m, Anchor(m) <= n, IsSecure(m)
  PROVE  IsSecure(n)
<1>1. Anchor(n) = Anchor(m) /\ Anchor(m) \in Names
  BY SameAnchor, AnchorOfName
<1>2. \A c \in (Anchor(n) + 1)..n : c \in (Anchor(m) + 1)..m
  BY <1>1 DEF Names
<1> QED
  BY <1>2 DEF IsSecure

LEMMA SecureBelow ==
  ASSUME TruthTyped, NEW n \in Names, NEW m \in Names, n <= m, Anchor(m) <= n, IsSecure(n),
         \A c \in Names : n < c /\ c <= m => cuts[c] \in {"none", "signed"}
  PROVE  IsSecure(m)
<1>1. PICK a : a = Anchor(m)
  OBVIOUS
<1>2. Anchor(n) = a /\ a \in Names
  BY <1>1, SameAnchor, AnchorOfName
<1>3. ASSUME NEW c \in (a + 1)..m PROVE cuts[c] \in {"none", "signed"}
  <2>1. c \in Names /\ c <= m /\ (c <= n => c \in (a + 1)..n)
    BY <1>2, <1>3, TrustAssumption DEF Names
  <2>2. CASE c <= n
    BY <1>2, <2>1, <2>2 DEF IsSecure
  <2>3. CASE ~(c <= n)
    BY <2>1, <2>3 DEF Names
  <2> QED
    BY <2>2, <2>3
<1> QED
  BY <1>1, <1>3 DEF IsSecure

\* There is no cut below the apex of a name's zone.
LEMMA NoCutInside ==
  ASSUME TruthTyped, NEW n \in Names, NEW c \in Names, ZoneOf(n) < c, c <= n
  PROVE  cuts[c] = "none"
<1>1. ~IsApex(c)
  BY ZoneOfName DEF Names
<1>2. c \in 1..Depth
  BY ZoneOfName DEF Names
<1> QED
  BY <1>1, <1>2 DEF IsApex

LEMMA ZoneIsSecure ==
  ASSUME TruthTyped, NEW n \in Names
  PROVE  IsSecure(ZoneOf(n)) <=> IsSecure(n)
BY ZoneOfName, AnchorInZone, SecureAbove, SecureBelow, NoCutInside

\* A delegation that a zone publishes is the next cut below it.
LEMMA DelegationIs ==
  ASSUME TruthTyped, NEW p \in Names, NEW n \in Names, p < n,
         Delegation(p, n) \in {"signed", "unsigned", "unsupported"}
  PROVE  IsApex(n) /\ ZoneOf(n - 1) = p /\ cuts[n] = Delegation(p, n)
BY DEF Delegation

LEMMA ProvedUnsigned ==
  ASSUME TruthTyped, NEW p \in Names, NEW n \in Names, NEW m \in Names, n <= m, Anchor(m) <= p,
         ProvablyUnsigned(p, n)
  PROVE  ~IsSecure(m)
<1>1. PICK c \in (p + 1)..n : Delegation(p, c) = "unsigned"
  BY DEF ProvablyUnsigned
<1>2. c \in Names /\ p < c /\ c <= m /\ c \in (Anchor(m) + 1)..m
  BY <1>1, AnchorOfName, TrustAssumption DEF Names
<1>3. cuts[c] = "unsigned"
  BY <1>1, <1>2, DelegationIs
<1> QED
  BY <1>2, <1>3 DEF IsSecure

LEMMA OutOfReachBelow ==
  ASSUME NEW n \in Names, NEW m \in Names, n <= m, OutOfReach(n)
  PROVE  OutOfReach(m)
<1>1. 1..n \subseteq 1..m
  BY DEF Names
<1> QED
  BY <1>1 DEF OutOfReach

\* The truth does not change.
LEMMA TruthStands ==
  ASSUME UNCHANGED truth
  PROVE  /\ \A n : IsApex(n)' = IsApex(n) /\ Signs(n)' = Signs(n) /\ OutOfReach(n)' = OutOfReach(n)
         /\ \A n : ZoneOf(n)' = ZoneOf(n) /\ Anchor(n)' = Anchor(n) /\ IsSecure(n)' = IsSecure(n)
<1>1. cuts' = cuts /\ anchors' = anchors
  BY DEF truth
<1>2. \A n : IsApex(n)' = IsApex(n) /\ Signs(n)' = Signs(n)
  BY <1>1 DEF IsApex, Signs
<1>3. \A n : OutOfReach(n)' = OutOfReach(n)
  BY <1>1, <1>2 DEF OutOfReach
<1>4. ASSUME NEW n PROVE ZoneOf(n)' = ZoneOf(n)
  <2>1. {k \in 0..n : IsApex(k)'} = {k \in 0..n : IsApex(k)}
    BY <1>2
  <2> QED
    BY <2>1 DEF ZoneOf
<1>5. \A n : Anchor(n)' = Anchor(n)
  BY <1>1 DEF Anchor
<1>6. \A n : IsSecure(n)' = IsSecure(n)
  BY <1>1, <1>5 DEF IsSecure
<1> QED
  BY <1>2, <1>3, <1>4, <1>5, <1>6

LEMMA VerdictStands ==
  ASSUME UNCHANGED truth
  PROVE  /\ \A z, v : VerdictSound(z, v)' = VerdictSound(z, v)
         /\ SoundFrames' = SoundFrames /\ TruthTyped' = TruthTyped
<1>1. honest' = honest /\ cuts' = cuts /\ anchors' = anchors
  BY DEF truth
<1>2. \A z, v : VerdictSound(z, v)' = VerdictSound(z, v)
  BY <1>1, TruthStands DEF VerdictSound
<1>3. \A f : HonestFrame(f)' = HonestFrame(f)
  BY <1>1, TruthStands DEF HonestFrame
<1>4. \A f : FrameSound(f)' = FrameSound(f)
  BY <1>1, <1>3, TruthStands DEF FrameSound, Signers
<1> QED
  BY <1>1, <1>2, <1>4 DEF SoundFrames, TruthTyped

\* Tables of zones.
LEMMA TableHas ==
  ASSUME NEW m, ZoneTable(m), NEW z \in Names
  PROVE  /\ m[z] = Unknown \/ (m[z] \in Verdicts /\ m[z].state \in States /\ VerdictSound(z, m[z]))
         /\ m[z].state # "unknown" => m[z] # Unknown
         /\ m[z].state \in States => m[z] # Unknown
BY DEF ZoneTable, Verdicts, Unknown, States

LEMMA TableGains ==
  ASSUME NEW m, ZoneTable(m), NEW z \in Names, NEW v \in Verdicts, VerdictSound(z, v)
  PROVE  /\ ZoneTable([m EXCEPT ![z] = v])
         /\ \A y \in Names : m[y] # Unknown => [m EXCEPT ![z] = v][y] # Unknown
<1>1. v # Unknown
  BY DEF Verdicts, Unknown, States
<1>2. [m EXCEPT ![z] = v] \in [Names -> Verdicts \cup {Unknown}]
  BY DEF ZoneTable
<1> QED
  BY <1>1, <1>2 DEF ZoneTable

LEMMA NothingKnown == ZoneTable(NoZones)
BY DEF ZoneTable, NoZones

\* A signature of a secure zone verifies over the truth only.
LEMMA SecureVerifies ==
  ASSUME NEW m, ZoneTable(m), NEW p \in Names, m[p].state = "secure", NEW b, Verifies(m[p], b)
  PROVE  b /\ IsSecure(p) /\ IsApex(p)
<1>1. m[p] # Unknown
  BY DEF Unknown
<1> QED
  BY <1>1 DEF ZoneTable, VerdictSound, Verifies

\* What a step of an authentication leaves alone, and what it may learn.
Authenticates ==
    /\ Running
    /\ stack' \in Seq(SoundFrames) /\ ZoneTable(memo)' /\ ZoneTable(zones)'
    /\ \A z \in Names : zones[z] # Unknown => zones'[z] # Unknown
    /\ UNCHANGED <<truth, todo, check, results, answer, reply>>

LEMMA AuthenticatesKeeps == ASSUME TrustInv, Authenticates PROVE TrustInv'
<1>1. UNCHANGED <<truth, todo, check, results, answer, reply>> /\ honest' = honest
  BY DEF Authenticates, truth
<1>2. SoundFrames' = SoundFrames /\ TruthTyped'
  BY <1>1, VerdictStands DEF TrustInv
<1>3. TrustTyped'
  BY <1>1, <1>2 DEF TrustInv, TrustTyped, Authenticates, AnswerTypes
<1>4. SignedSound(check)' = SignedSound(check)
  BY <1>1, TruthStands DEF SignedSound
<1>5. LookingSound(check, zones) => LookingSound(check, zones)'
  BY <1>1, TruthStands DEF LookingSound, LookingChecks, Authenticates
<1>6. CheckSound'
  BY <1>1, <1>4, <1>5 DEF TrustInv, CheckSound
<1>7. Judged' = Judged
  BY <1>1, TruthStands DEF Judged, Remain
<1>8. TrulySecure' = TrulySecure /\ SoaAboveAnchor' = SoaAboveAnchor
  BY <1>1, TruthStands DEF TrulySecure, SoaAboveAnchor
<1>9. OutcomeSound' = OutcomeSound
  BY <1>1, <1>8, TruthStands DEF OutcomeSound
<1>10. ReplySound' = ReplySound
  BY <1>1 DEF ReplySound
<1> QED
  BY <1>1, <1>2, <1>3, <1>6, <1>7, <1>9, <1>10 DEF TrustInv, Running, Done

LEMMA TablesAre ==
  ASSUME UNCHANGED truth, NEW m, ZoneTable(m)
  PROVE  (memo' = m => ZoneTable(memo)') /\ (zones' = m => ZoneTable(zones)')
<1>1. honest' = honest
  BY DEF truth
<1> QED
  BY <1>1, TruthStands DEF ZoneTable, VerdictSound

LEMMA TopFrame ==
  ASSUME TrustInv, ~Idle
  PROVE  /\ Top \in FrameTypes /\ FrameSound(Top) /\ Tail(stack) \in Seq(SoundFrames)
         /\ Top.zone \in Names /\ Top.left \subseteq Names /\ Top.seen \subseteq States
<1>1. stack \in Seq(SoundFrames) /\ stack # <<>>
  BY DEF TrustInv, TrustTyped, Idle
<1>2. Head(stack) \in SoundFrames /\ Tail(stack) \in Seq(SoundFrames)
  BY <1>1
<1>3. Top \in FrameTypes /\ FrameSound(Top)
  BY <1>2 DEF Top, SoundFrames
<1> QED
  BY <1>2, <1>3 DEF FrameTypes

LEMMA PushKeeps ==
  ASSUME TrustInv, NEW z \in Names, honest => IsApex(z), Push(z)
  PROVE  Authenticates
<1>1. Frame(z) \in FrameTypes
  BY DEF Frame, FrameTypes
<1>2. FrameSound(Frame(z))
  BY DEF Frame, FrameSound, HonestFrame
<1>3. stack' \in Seq(SoundFrames)
  <2>1. Frame(z) \in SoundFrames /\ stack \in Seq(SoundFrames)
    BY <1>1, <1>2 DEF SoundFrames, TrustInv, TrustTyped
  <2>2. <<Frame(z)>> \o stack \in Seq(SoundFrames)
    BY <2>1
  <2> QED
    BY <2>2 DEF Push
<1>4. ZoneTable(memo)' /\ ZoneTable(zones)'
  BY TablesAre DEF Push, TrustInv, TrustTyped
<1> QED
  BY <1>3, <1>4 DEF Push, Authenticates

LEMMA BecomeKeeps ==
  ASSUME TrustInv, ~Idle, NEW f \in FrameTypes, FrameSound(f), Become(f)
  PROVE  Authenticates
<1>1. <<f>> \o Tail(stack) \in Seq(SoundFrames)
  <2>1. f \in SoundFrames /\ Tail(stack) \in Seq(SoundFrames)
    BY TopFrame DEF SoundFrames
  <2> QED
    BY <2>1
<1>2. ZoneTable(memo)' /\ ZoneTable(zones)'
  BY TablesAre DEF Become, TrustInv, TrustTyped
<1> QED
  BY <1>1, <1>2 DEF Become, Authenticates

LEMMA ReturnEarned ==
  ASSUME TrustInv, ~Idle, NEW v \in Verdicts, VerdictSound(Top.zone, v), Return(v)
  PROVE  Authenticates
<1>1. Top.zone \in Names /\ Tail(stack) \in Seq(SoundFrames) /\ ZoneTable(memo) /\ ZoneTable(zones)
  BY TopFrame DEF TrustInv, TrustTyped
<1>2. ZoneTable([memo EXCEPT ![Top.zone] = v]) /\ ZoneTable([zones EXCEPT ![Top.zone] = v])
      /\ \A y \in Names : zones[y] # Unknown => [zones EXCEPT ![Top.zone] = v][y] # Unknown
  BY <1>1, TableGains
<1>3. UNCHANGED truth
  BY DEF Return
<1>4. CASE memo' = NoZones /\ zones' = [zones EXCEPT ![Top.zone] = v]
  <2>1. ZoneTable(memo)' /\ ZoneTable(zones)'
    BY <1>2, <1>3, <1>4, NothingKnown, TablesAre
  <2> QED
    BY <1>1, <1>2, <1>4, <2>1 DEF Return, Authenticates
<1>5. CASE memo' = [memo EXCEPT ![Top.zone] = v] /\ zones' = zones
  <2>1. ZoneTable(memo)' /\ ZoneTable(zones)'
    BY <1>1, <1>2, <1>3, <1>5, TablesAre
  <2> QED
    BY <1>1, <1>5, <2>1 DEF Return, Authenticates
<1> QED
  BY <1>4, <1>5 DEF Return

\* An indeterminate verdict is earned where the truth is out of reach.
LEMMA Verdict ==
  ASSUME NEW state \in {"insecure", "bogus", "indeterminate"}
  PROVE  NotSecure(state) \in Verdicts /\ NotSecure(state).state = state
BY DEF NotSecure, Zone, Verdicts, States

LEMMA LeftOpen ==
  ASSUME TrustInv, ~Idle, honest => OutOfReach(Top.zone), Return(NotSecure("indeterminate"))
  PROVE  Authenticates
<1>1. NotSecure("indeterminate") \in Verdicts /\ NotSecure("indeterminate").state = "indeterminate"
  BY Verdict
<1>2. VerdictSound(Top.zone, NotSecure("indeterminate"))
  BY <1>1 DEF VerdictSound
<1> QED
  BY <1>1, <1>2, ReturnEarned

\* The key sets.
LEMMA SetJudged ==
  ASSUME NEW z \in Names, NEW set \in KeySetsShown(z)
  PROVE  /\ SignedSet(set) \in Verdicts
         /\ SignedSet(set).state = "secure" => SignedSet(set).keys = "true"
         /\ SignedSet(set).state # "insecure"
         /\ honest => SignedSet(set).state = "secure"
<1>1. set \in KeySets
  BY DEF KeySetsShown, KeySets
<1>2. CASE set = <<"true", "good">>
  BY <1>2 DEF SignedSet, Zone, Verdicts, States
<1>3. CASE set # <<"true", "good">>
  <2>1. SignedSet(set) \in {NotSecure("bogus"), NotSecure("indeterminate")}
    BY <1>3 DEF SignedSet
  <2>2. ~honest
    BY <1>3 DEF KeySetsShown
  <2> QED
    BY <2>1, <2>2, Verdict
<1> QED
  BY <1>2, <1>3

LEMMA FrameField ==
  ASSUME NEW e \in FrameTypes
  PROVE  /\ \A s : [e EXCEPT !.step = s] =
                [zone |-> e.zone, step |-> s, keys |-> e.keys, left |-> e.left, seen |-> e.seen]
         /\ \A s : [e EXCEPT !.keys = s] =
                [zone |-> e.zone, step |-> e.step, keys |-> s, left |-> e.left, seen |-> e.seen]
         /\ \A s : [e EXCEPT !.left = s] =
                [zone |-> e.zone, step |-> e.step, keys |-> e.keys, left |-> s, seen |-> e.seen]
         /\ \A s : [e EXCEPT !.seen = s] =
                [zone |-> e.zone, step |-> e.step, keys |-> e.keys, left |-> e.left, seen |-> s]
BY DEF FrameTypes

LEMMA FrameStepKeys ==
  ASSUME NEW e \in FrameTypes, NEW s \in {"keys", "ds", "denial", "parents"}, NEW k
  PROVE  [e EXCEPT !.step = s, !.keys = k] =
             [zone |-> e.zone, step |-> s, keys |-> k, left |-> e.left, seen |-> e.seen]
<1>1. PICK g : g = [e EXCEPT !.step = s]
  OBVIOUS
<1>2. g = [zone |-> e.zone, step |-> s, keys |-> e.keys, left |-> e.left, seen |-> e.seen]
  BY <1>1, FrameField
<1>3. g \in FrameTypes
  BY <1>2 DEF FrameTypes
<1>4. [g EXCEPT !.keys = k] = [zone |-> e.zone, step |-> s, keys |-> k, left |-> e.left, seen |-> e.seen]
  BY <1>2, <1>3, FrameField
<1> QED
  BY <1>1, <1>4

LEMMA FrameStepLeft ==
  ASSUME NEW e \in FrameTypes, NEW s \in {"keys", "ds", "denial", "parents"}, NEW l
  PROVE  [e EXCEPT !.step = s, !.left = l] =
             [zone |-> e.zone, step |-> s, keys |-> e.keys, left |-> l, seen |-> e.seen]
<1>1. PICK g : g = [e EXCEPT !.step = s]
  OBVIOUS
<1>2. g = [zone |-> e.zone, step |-> s, keys |-> e.keys, left |-> e.left, seen |-> e.seen]
  BY <1>1, FrameField
<1>3. g \in FrameTypes
  BY <1>2 DEF FrameTypes
<1>4. [g EXCEPT !.left = l] = [zone |-> e.zone, step |-> s, keys |-> e.keys, left |-> l, seen |-> e.seen]
  BY <1>2, <1>3, FrameField
<1> QED
  BY <1>1, <1>4

LEMMA FrameLeftSeen ==
  ASSUME NEW e \in FrameTypes, NEW l, l \in SUBSET Names, NEW w
  PROVE  [e EXCEPT !.left = l, !.seen = w] =
             [zone |-> e.zone, step |-> e.step, keys |-> e.keys, left |-> l, seen |-> w]
<1>1. PICK g : g = [e EXCEPT !.left = l]
  OBVIOUS
<1>2. g = [zone |-> e.zone, step |-> e.step, keys |-> e.keys, left |-> l, seen |-> e.seen]
  BY <1>1, FrameField
<1>3. g \in FrameTypes
  BY <1>2 DEF FrameTypes
<1>4. [g EXCEPT !.seen = w] = [zone |-> e.zone, step |-> e.step, keys |-> e.keys, left |-> l, seen |-> w]
  BY <1>2, <1>3, FrameField
<1> QED
  BY <1>1, <1>4

LEMMA AskKeysKeeps == ASSUME TrustInv, AskKeys PROVE Authenticates
<1>1. /\ ~Idle /\ Top.step = "keys"
      /\ \/ ~honest /\ Return(NotSecure("indeterminate"))
         \/ \E k \in KeysShown(Top.zone) :
               \/ Top.zone \notin anchors /\ Become([Top EXCEPT !.step = "ds", !.keys = k])
               \/ Top.zone \in anchors /\ k # "set" /\ Return(NotSecure("indeterminate"))
               \/ Top.zone \in anchors /\ \E set \in KeySetsShown(Top.zone) : Return(SignedSet(set))
  BY DEF AskKeys
<1>2. Top \in FrameTypes /\ FrameSound(Top) /\ Top.zone \in Names /\ TruthTyped
  BY <1>1, TopFrame DEF TrustInv
<1>3. CASE ~honest /\ Return(NotSecure("indeterminate"))
  BY <1>1, <1>3, LeftOpen
<1>4. ASSUME NEW k \in KeysShown(Top.zone), Top.zone \notin anchors, Become([Top EXCEPT !.step = "ds", !.keys = k])
      PROVE  Authenticates
  <2>1. PICK f : f = [zone |-> Top.zone, step |-> "ds", keys |-> k, left |-> Top.left, seen |-> Top.seen]
    OBVIOUS
  <2>2. k \in {"none", "set", "empty"}
    BY <1>4 DEF KeysShown
  <2>3. f = [Top EXCEPT !.step = "ds", !.keys = k]
    BY <1>2, <2>1, FrameStepKeys
  <2>4. f \in FrameTypes
    BY <1>2, <2>1, <2>2 DEF FrameTypes
  <2>5. ASSUME honest PROVE HonestFrame(f)
    <3>1. HonestFrame(Top) /\ Top.left = {}
      BY <1>1, <1>2, <2>5 DEF FrameSound
    <3>2. k = IF Signs(Top.zone) THEN "set" ELSE "empty"
      BY <1>4, <2>5, <3>1 DEF KeysShown, HonestFrame
    <3> QED
      BY <2>1, <3>1, <3>2 DEF HonestFrame
  <2>6. FrameSound(f)
    BY <1>1, <1>2, <1>4, <2>1, <2>5 DEF FrameSound
  <2> QED
    BY <1>1, <1>4, <2>3, <2>4, <2>6, BecomeKeeps
<1>5. ASSUME NEW k \in KeysShown(Top.zone), Top.zone \in anchors, k # "set", Return(NotSecure("indeterminate"))
      PROVE  Authenticates
  <2>1. ~honest
    BY <1>2, <1>5, AnchorIsApex DEF KeysShown
  <2> QED
    BY <1>1, <1>5, <2>1, LeftOpen
<1>6. ASSUME Top.zone \in anchors, NEW set \in KeySetsShown(Top.zone), Return(SignedSet(set))
      PROVE  Authenticates
  <2>1. VerdictSound(Top.zone, SignedSet(set))
    BY <1>2, <1>6, AnchorIsApex, SetJudged DEF VerdictSound
  <2> QED
    BY <1>1, <1>2, <1>6, <2>1, SetJudged, ReturnEarned
<1> QED
  BY <1>1, <1>3, <1>4, <1>5, <1>6

\* The zone above the apex of a zone.
LEMMA ParentOf ==
  ASSUME TruthTyped, NEW z \in Names, z \notin anchors
  PROVE  /\ z - 1 \in Names /\ z \in 1..Depth /\ ZoneOf(z - 1) \in Names /\ ZoneOf(z - 1) < z
         /\ IsApex(ZoneOf(z - 1)) /\ ZoneOf(z - 1) \in Signers(z)
<1>1. z - 1 \in Names /\ z \in 1..Depth /\ z - 1 < z
  BY TrustAssumption DEF TruthTyped, Names
<1>2. ZoneOf(z - 1) \in Names /\ ZoneOf(z - 1) <= z - 1 /\ IsApex(ZoneOf(z - 1))
  BY <1>1, ZoneOfName
<1>3. Anchor(z) \in Names /\ Anchor(z) <= z /\ Anchor(z) # z
  BY AnchorOfName
<1>4. Anchor(z) <= z - 1
  BY <1>3, TrustAssumption DEF Names
<1>5. Anchor(z - 1) = Anchor(z) /\ Anchor(z - 1) <= ZoneOf(z - 1)
  BY <1>1, <1>4, SameAnchor, AnchorInZone DEF Names
<1>6. ZoneOf(z - 1) \in AllAncestors(z)
  BY <1>2, TrustAssumption DEF AllAncestors, Names
<1> QED
  BY <1>1, <1>2, <1>3, <1>5, <1>6, TrustAssumption DEF Signers, Names

LEMMA UnsignedParent ==
  ASSUME TruthTyped, NEW z \in Names, z \notin anchors, IsApex(z), ~Signs(ZoneOf(z - 1))
  PROVE  OutOfReach(z)
<1>1. PICK p : p = ZoneOf(z - 1)
  OBVIOUS
<1>2. p \in Names /\ p < z /\ IsApex(p) /\ ~Signs(p)
  BY <1>1, ParentOf
<1>3. p \in 1..Depth /\ cuts[p] # "none"
  BY <1>2 DEF TruthTyped, Signs, IsApex, Names
<1>4. cuts[p] = "unsigned"
  BY <1>2, <1>3 DEF Signs, TruthTyped, Cuts
<1>5. p \in 1..z /\ z \in 1..z
  BY <1>2, <1>3 DEF Names
<1> QED
  BY <1>2, <1>4, <1>5 DEF OutOfReach

LEMMA InsecureParent ==
  ASSUME TruthTyped, NEW z \in Names, z \notin anchors, IsApex(z), cuts[z] = "unsigned",
         NEW p \in Names, p < z, ~IsSecure(p)
  PROVE  OutOfReach(z)
<1>1. PICK c \in (Anchor(p) + 1)..p : cuts[c] \notin {"none", "signed"}
  BY DEF IsSecure
<1>2. c \in 1..z /\ c < z /\ c \in 1..Depth /\ z \in 1..z
  BY <1>1, AnchorOfName, TrustAssumption DEF Names
<1>3. cuts[c] \in {"unsigned", "unsupported"}
  BY <1>1, <1>2 DEF TruthTyped, Cuts
<1> QED
  BY <1>2, <1>3 DEF OutOfReach

\* What is above a zone that is not an anchor, and at or below its anchor.
LEMMA SignerAbove ==
  ASSUME TruthTyped, NEW z \in Names, NEW p \in Signers(z)
  PROVE  p \in Names /\ p < z /\ Anchor(z) <= p
BY AnchorOfName, TrustAssumption DEF Signers, AllAncestors, Names

LEMMA AskDsKeeps == ASSUME TrustInv, AskDs PROVE Authenticates
<1>1. ~Idle /\ Top.step = "ds"
  BY DEF AskDs
<1>2. Top \in FrameTypes /\ FrameSound(Top) /\ TruthTyped
  BY <1>1, TopFrame DEF TrustInv
<1>3. PICK z : z = Top.zone
  OBVIOUS
<1>4. z \in Names /\ z \notin anchors /\ (honest => HonestFrame(Top) /\ IsApex(z))
  BY <1>1, <1>2, <1>3, TopFrame DEF FrameSound, HonestFrame
<1>5. PICK signer : signer = IF Signs(ZoneOf(z - 1)) THEN {ZoneOf(z - 1)} \intersect Signers(z) ELSE {}
  OBVIOUS
<1>6. honest /\ signer = {} => OutOfReach(z)
  BY <1>2, <1>4, <1>5, ParentOf, UnsignedParent
<1>7. \A left : honest /\ left = signer => \A p \in left : p = ZoneOf(z - 1)
  BY <1>5
<1>8. Signers(z) \subseteq Names
  BY <1>2, <1>4, SignerAbove
<1>9. \/ (honest => cuts[z] # "unsigned" /\ signer = {}) /\ Return(NotSecure("indeterminate"))
      \/ \E left \in SUBSET Signers(z) :
           /\ honest => cuts[z] = "unsigned" /\ left = signer
           /\ Become([Top EXCEPT !.step = "denial", !.left = left])
      \/ \E left \in (SUBSET Signers(z)) \ {{}} :
           /\ honest => cuts[z] # "unsigned" /\ left = signer
           /\ Become([Top EXCEPT !.step = "parents", !.left = left])
  BY <1>3, <1>5 DEF AskDs
<1>10. CASE (honest => cuts[z] # "unsigned" /\ signer = {}) /\ Return(NotSecure("indeterminate"))
  BY <1>1, <1>3, <1>6, <1>10, LeftOpen
<1>11. ASSUME NEW left \in SUBSET Signers(z), NEW step \in {"denial", "parents"},
              honest => left = signer /\ (step = "denial" <=> cuts[z] = "unsigned"),
              step = "parents" => left # {},
              Become([Top EXCEPT !.step = step, !.left = left])
       PROVE  Authenticates
  <2>1. PICK f : f = [zone |-> z, step |-> step, keys |-> Top.keys, left |-> left, seen |-> Top.seen]
    OBVIOUS
  <2>2. f = [Top EXCEPT !.step = step, !.left = left]
    <3>1. left \in SUBSET Names /\ step \in {"keys", "ds", "denial", "parents"}
      BY <1>8, <1>11
    <3>2. [Top EXCEPT !.step = step, !.left = left] =
              [zone |-> Top.zone, step |-> step, keys |-> Top.keys, left |-> left, seen |-> Top.seen]
      BY <1>2, <3>1, FrameStepLeft
    <3> QED
      BY <1>3, <2>1, <3>2
  <2>3. f \in FrameTypes
    BY <1>2, <1>4, <1>8, <1>11, <2>1 DEF FrameTypes
  <2>4. honest => HonestFrame(f)
    BY <1>1, <1>3, <1>4, <1>6, <1>7, <1>11, <2>1 DEF HonestFrame
  <2>5. FrameSound(f)
    BY <1>2, <1>3, <1>4, <1>11, <2>1, <2>4 DEF FrameSound
  <2> QED
    BY <1>1, <1>11, <2>2, <2>3, <2>5, BecomeKeeps
<1>12. ASSUME NEW left \in SUBSET Signers(z), honest => cuts[z] = "unsigned" /\ left = signer,
              Become([Top EXCEPT !.step = "denial", !.left = left])
       PROVE  Authenticates
  BY <1>11, <1>12
<1>13. ASSUME NEW left \in SUBSET Signers(z), left # {}, honest => cuts[z] # "unsigned" /\ left = signer,
              Become([Top EXCEPT !.step = "parents", !.left = left])
       PROVE  Authenticates
  BY <1>11, <1>13
<1>14. CASE \E left \in SUBSET Signers(z) :
               /\ honest => cuts[z] = "unsigned" /\ left = signer
               /\ Become([Top EXCEPT !.step = "denial", !.left = left])
  BY <1>12, <1>14
<1>15. CASE \E left \in (SUBSET Signers(z)) \ {{}} :
               /\ honest => cuts[z] # "unsigned" /\ left = signer
               /\ Become([Top EXCEPT !.step = "parents", !.left = left])
  <2>1. PICK left \in (SUBSET Signers(z)) \ {{}} :
          /\ honest => cuts[z] # "unsigned" /\ left = signer
          /\ Become([Top EXCEPT !.step = "parents", !.left = left])
    BY <1>15
  <2>2. left \in SUBSET Signers(z) /\ left # {}
    BY <2>1
  <2> QED
    BY <1>13, <2>1, <2>2
<1> QED
  BY <1>9, <1>10, <1>14, <1>15

LEMMA AskParentKeeps == ASSUME TrustInv, AskParent PROVE Authenticates
<1>1. ~Idle /\ Top.step \in {"denial", "parents"} /\ \E p \in Top.left : Push(p)
  BY DEF AskParent
<1>2. PICK p \in Top.left : Push(p)
  BY <1>1
<1>3. Top.zone \in Names /\ FrameSound(Top) /\ p \in Names /\ TruthTyped
  BY <1>1, <1>2, TopFrame DEF TrustInv
<1>4. honest => IsApex(p)
  BY <1>1, <1>2, <1>3, ParentOf DEF FrameSound, HonestFrame
<1> QED
  BY <1>2, <1>3, <1>4, PushKeeps

\* A parent that is passed over.
LEMMA PassKeeps ==
  ASSUME TrustInv, ~Idle, Top.step \in {"denial", "parents"}, NEW p \in Top.left, NEW state \in States,
         Pass(p, state), state = "insecure" => ~IsSecure(p),
         honest => state \in {"insecure", "indeterminate"} /\ (state = "indeterminate" => OutOfReach(p))
  PROVE  Authenticates
<1>1. /\ Top \in FrameTypes /\ FrameSound(Top) /\ Top.zone \in Names /\ TruthTyped
      /\ Top.left \subseteq Names /\ Top.seen \subseteq States
  BY TopFrame DEF TrustInv
<1>2. PICK z : z = Top.zone
  OBVIOUS
<1>3. z \in Names /\ z \notin anchors /\ p \in Signers(z)
  BY <1>1, <1>2 DEF FrameSound
<1>4. p \in Names /\ p < z /\ p <= z /\ Anchor(z) <= p
  BY <1>1, <1>3, SignerAbove, TrustAssumption DEF Names
<1>5. PICK l, w : l = Top.left \ {p} /\ w = Top.seen \cup {state}
  OBVIOUS
<1>6. l \in SUBSET Names /\ w \in SUBSET States
  BY <1>1, <1>5
<1>7. PICK f : f = [zone |-> z, step |-> Top.step, keys |-> Top.keys, left |-> l, seen |-> w]
  OBVIOUS
<1>8. f \in FrameTypes
  BY <1>1, <1>3, <1>6, <1>7 DEF FrameTypes
<1>9. Become(f)
  <2>1. Become([Top EXCEPT !.left = l, !.seen = w])
    BY <1>5 DEF Pass
  <2>2. [Top EXCEPT !.left = l, !.seen = w] = f
    BY <1>1, <1>2, <1>6, <1>7, FrameLeftSeen
  <2> QED
    BY <2>1, <2>2
<1>10. state = "insecure" => ~IsSecure(z)
  BY <1>1, <1>3, <1>4, SecureAbove
<1>11. honest /\ state = "indeterminate" => OutOfReach(z)
  BY <1>3, <1>4, OutOfReachBelow
<1>12. ASSUME honest PROVE HonestFrame(f)
  <2>1. HonestFrame(Top)
    BY <1>1, <1>12 DEF FrameSound
  <2>2. state \in {"insecure", "indeterminate"}
    BY <1>12
  <2>3. cuts[z] = "unsigned" => OutOfReach(z)
    BY <1>1, <1>2, <1>3, <1>4, <1>11, <1>12, <2>1, <2>2, InsecureParent DEF HonestFrame
  <2> QED
    BY <1>2, <1>5, <1>7, <1>11, <1>12, <2>1, <2>2, <2>3 DEF HonestFrame
<1>13. FrameSound(f)
  BY <1>1, <1>2, <1>5, <1>7, <1>10, <1>12 DEF FrameSound
<1> QED
  BY <1>8, <1>9, <1>13, BecomeKeeps

LEMMA DeniedByParentKeeps == ASSUME TrustInv, DeniedByParent PROVE Authenticates
<1>1. PICK p \in Top.left :
        /\ ~Idle /\ Top.step = "denial" /\ memo[p] # Unknown
        /\ \/ /\ honest => memo[p].state # "secure" \/ ~ProvablyUnsigned(p, Top.zone)
              /\ Pass(p, memo[p].state)
           \/ /\ memo[p].state = "secure"
              /\ Verifies(memo[p], ProvablyUnsigned(p, Top.zone))
              /\ Return(NotSecure("insecure"))
  BY DEF DeniedByParent
<1>2. PICK z : z = Top.zone
  OBVIOUS
<1>3. TruthTyped /\ ZoneTable(memo) /\ Top \in FrameTypes /\ FrameSound(Top) /\ z \in Names
  BY <1>1, <1>2, TopFrame DEF TrustInv, TrustTyped
<1>4. z \notin anchors /\ p \in Signers(z)
  BY <1>1, <1>2, <1>3 DEF FrameSound
<1>5. p \in Names /\ p < z /\ Anchor(z) <= p
  BY <1>3, <1>4, SignerAbove
<1>6. memo[p].state \in States /\ VerdictSound(p, memo[p])
  BY <1>1, <1>3, <1>5, TableHas DEF ZoneTable
<1>7. ASSUME honest PROVE ProvablyUnsigned(p, z)
  <2>1. IsApex(z) /\ p = ZoneOf(z - 1) /\ cuts[z] = "unsigned"
    BY <1>1, <1>2, <1>3, <1>7 DEF FrameSound, HonestFrame
  <2>2. Delegation(p, z) = "unsigned" /\ z \in (p + 1)..z
    BY <1>3, <1>5, <2>1, TrustAssumption DEF Delegation, Names
  <2> QED
    BY <2>2 DEF ProvablyUnsigned
<1>8. CASE (honest => memo[p].state # "secure" \/ ~ProvablyUnsigned(p, z)) /\ Pass(p, memo[p].state)
  <2>1. memo[p].state = "insecure" => ~IsSecure(p)
    BY <1>6 DEF VerdictSound
  <2>2. honest => /\ memo[p].state \in {"insecure", "indeterminate"}
                  /\ memo[p].state = "indeterminate" => OutOfReach(p)
    BY <1>6, <1>7, <1>8 DEF VerdictSound, States
  <2> QED
    BY <1>1, <1>6, <1>8, <2>1, <2>2, PassKeeps
<1>9. CASE memo[p].state = "secure" /\ Verifies(memo[p], ProvablyUnsigned(p, z)) /\ Return(NotSecure("insecure"))
  <2>1. ProvablyUnsigned(p, z)
    BY <1>3, <1>5, <1>9, SecureVerifies
  <2>2. z <= z
    BY <1>3, TrustAssumption DEF Names
  <2>3. ~IsSecure(z)
    BY <1>3, <1>5, <2>1, <2>2, ProvedUnsigned
  <2>4. NotSecure("insecure") \in Verdicts /\ NotSecure("insecure").state = "insecure"
    BY Verdict
  <2>5. VerdictSound(Top.zone, NotSecure("insecure"))
    BY <1>2, <2>3, <2>4 DEF VerdictSound
  <2> QED
    BY <1>1, <1>9, <2>4, <2>5, ReturnEarned
<1> QED
  BY <1>1, <1>2, <1>8, <1>9

LEMMA ChildSound ==
  ASSUME TruthTyped, NEW z \in Names, z = Top.zone, z \notin anchors, NEW p \in Signers(z), IsSecure(p),
         NEW ds \in {"signed", "unsupported"}, Delegation(p, z) = ds,
         NEW k, honest => k = IF Signs(z) THEN "set" ELSE "empty",
         NEW v \in ChildOf(ds, k)
  PROVE  v \in Verdicts /\ VerdictSound(z, v)
<1>1. p \in Names /\ p < z /\ p <= z /\ Anchor(z) <= p
  BY SignerAbove, TrustAssumption DEF Names
<1>2. IsApex(z) /\ ZoneOf(z - 1) = p /\ cuts[z] = ds
  BY <1>1, DelegationIs
<1>3. z > 0 /\ z - 1 \in Names
  BY <1>1, ParentOf, TrustAssumption DEF Names
<1>4. CASE ds = "unsupported"
  <2>1. v = NotSecure("insecure")
    BY <1>4 DEF ChildOf
  <2>2. z \in (Anchor(z) + 1)..z
    BY <1>1, AnchorOfName, TrustAssumption DEF Names
  <2>3. ~IsSecure(z)
    BY <1>2, <1>4, <2>2 DEF IsSecure
  <2> QED
    BY <2>1, <2>3, Verdict DEF VerdictSound
<1>5. CASE ds = "signed" /\ k = "empty"
  <2>1. v = NotSecure("bogus")
    BY <1>5 DEF ChildOf
  <2>2. ~honest
    BY <1>2, <1>3, <1>5 DEF Signs
  <2> QED
    BY <2>1, <2>2, Verdict DEF VerdictSound
<1>6. CASE ds = "signed" /\ k # "empty"
  <2>1. PICK set \in KeySetsShown(Top.zone) : v = SignedSet(set)
    BY <1>6 DEF ChildOf
  <2>2. ASSUME NEW c \in Names, p < c, c <= z PROVE cuts[c] \in {"none", "signed"}
    <3>1. CASE c = z
      BY <1>2, <1>6, <3>1
    <3>2. CASE c # z
      <4>1. c <= z - 1
        BY <2>2, <3>2, TrustAssumption DEF Names
      <4> QED
        BY <1>2, <1>3, <2>2, <4>1, NoCutInside
    <3> QED
      BY <3>1, <3>2
  <2>3. IsSecure(z)
    BY <1>1, <2>2, SecureBelow
  <2> QED
    BY <1>2, <2>1, <2>3, SetJudged DEF VerdictSound
<1> QED
  BY <1>4, <1>5, <1>6

LEMMA DelegatedByParentKeeps == ASSUME TrustInv, DelegatedByParent PROVE Authenticates
<1>1. PICK p \in Top.left :
        /\ ~Idle /\ Top.step = "parents" /\ memo[p] # Unknown
        /\ \/ memo[p].state # "secure" /\ Pass(p, memo[p].state)
           \/ ~honest /\ \E state \in {"secure", "indeterminate"} : Pass(p, state)
           \/ /\ memo[p].state = "secure"
              /\ \E ds \in {"signed", "unsupported"} :
                   /\ Verifies(memo[p], Delegation(p, Top.zone) = ds)
                   /\ \E v \in ChildOf(ds, Top.keys) : Return(v)
  BY DEF DelegatedByParent
<1>2. PICK z : z = Top.zone
  OBVIOUS
<1>3. TruthTyped /\ ZoneTable(memo) /\ Top \in FrameTypes /\ FrameSound(Top) /\ z \in Names
  BY <1>1, <1>2, TopFrame DEF TrustInv, TrustTyped
<1>4. z \notin anchors /\ p \in Signers(z)
  BY <1>1, <1>2, <1>3 DEF FrameSound
<1>5. p \in Names
  BY <1>3, <1>4, SignerAbove
<1>6. memo[p].state \in States /\ VerdictSound(p, memo[p])
  BY <1>1, <1>3, <1>5, TableHas DEF ZoneTable
<1>7. CASE memo[p].state # "secure" /\ Pass(p, memo[p].state)
  <2>1. memo[p].state = "insecure" => ~IsSecure(p)
    BY <1>6 DEF VerdictSound
  <2>2. honest => /\ memo[p].state \in {"insecure", "indeterminate"}
                  /\ memo[p].state = "indeterminate" => OutOfReach(p)
    BY <1>6, <1>7 DEF VerdictSound, States
  <2> QED
    BY <1>1, <1>6, <1>7, <2>1, <2>2, PassKeeps
<1>8. ASSUME ~honest, NEW state \in {"secure", "indeterminate"}, Pass(p, state) PROVE Authenticates
  BY <1>1, <1>8, PassKeeps DEF States
<1>9. ASSUME memo[p].state = "secure", NEW ds \in {"signed", "unsupported"},
             Verifies(memo[p], Delegation(p, z) = ds), NEW v \in ChildOf(ds, Top.keys), Return(v)
      PROVE  Authenticates
  <2>1. Delegation(p, z) = ds /\ IsSecure(p)
    BY <1>3, <1>5, <1>9, SecureVerifies
  <2>2. honest => Top.keys = IF Signs(z) THEN "set" ELSE "empty"
    BY <1>1, <1>2, <1>3 DEF FrameSound, HonestFrame
  <2>3. v \in Verdicts /\ VerdictSound(z, v)
    BY <1>2, <1>3, <1>4, <1>9, <2>1, <2>2, ChildSound
  <2> QED
    BY <1>1, <1>2, <1>9, <2>3, ReturnEarned
<1> QED
  BY <1>1, <1>2, <1>7, <1>8, <1>9

LEMMA NoParentLeftKeeps == ASSUME TrustInv, NoParentLeft PROVE Authenticates
<1>1. ~Idle /\ Top.step \in {"denial", "parents"} /\ Top.left = {}
  BY DEF NoParentLeft
<1>2. FrameSound(Top)
  BY <1>1, TopFrame
<1>3. PICK state \in {"insecure", "bogus", "indeterminate"} :
        /\ Return(NotSecure(state))
        /\ state = "indeterminate" => Top.step = "denial" \/ "indeterminate" \in Top.seen
        /\ state = "insecure" => "insecure" \in Top.seen
        /\ state = "bogus" => Top.step = "parents" /\ "indeterminate" \notin Top.seen /\ "insecure" \notin Top.seen
  <2>1. CASE Top.step = "denial" \/ "indeterminate" \in Top.seen
    BY <2>1 DEF NoParentLeft
  <2>2. CASE ~(Top.step = "denial" \/ "indeterminate" \in Top.seen) /\ "insecure" \in Top.seen
    BY <2>2 DEF NoParentLeft
  <2>3. CASE ~(Top.step = "denial" \/ "indeterminate" \in Top.seen) /\ "insecure" \notin Top.seen
    BY <1>1, <2>3 DEF NoParentLeft
  <2> QED
    BY <2>1, <2>2, <2>3
<1>4. NotSecure(state) \in Verdicts /\ NotSecure(state).state = state
  BY Verdict
<1>5. VerdictSound(Top.zone, NotSecure(state))
  BY <1>1, <1>2, <1>3, <1>4 DEF VerdictSound, FrameSound, HonestFrame
<1> QED
  BY <1>1, <1>3, <1>4, <1>5, ReturnEarned

-----------------------------------------------------------------------------
\* The rest of the state.
LEMMA AnswerStands ==
  ASSUME UNCHANGED truth
  PROVE  /\ UNCHANGED <<todo, results, answer>> => Judged' = Judged
         /\ UNCHANGED answer => OutcomeSound' = OutcomeSound
         /\ UNCHANGED <<answer, reply>> => ReplySound' = ReplySound
<1>1. honest' = honest
  BY DEF truth
<1>2. ASSUME UNCHANGED <<todo, results, answer>> PROVE Judged' = Judged
  BY <1>1, <1>2, TruthStands DEF Judged, Remain
<1>3. ASSUME UNCHANGED answer PROVE OutcomeSound' = OutcomeSound
  BY <1>1, <1>3, TruthStands DEF OutcomeSound, TrulySecure, SoaAboveAnchor
<1> QED
  BY <1>2, <1>3 DEF ReplySound

LEMMA FramesStand ==
  ASSUME TrustInv, UNCHANGED <<truth, stack, memo>>
  PROVE  TruthTyped' /\ (stack \in Seq(SoundFrames))' /\ ZoneTable(memo)' /\ (UNCHANGED zones => ZoneTable(zones)')
BY VerdictStands, TablesAre DEF TrustInv, TrustTyped

LEMMA CheckStands ==
  ASSUME UNCHANGED truth
  PROVE  /\ \A c : SignedSound(c)' = SignedSound(c)
         /\ UNCHANGED zones => \A c : LookingSound(c, zones)' = LookingSound(c, zones)
<1>1. honest' = honest
  BY DEF truth
<1> QED
  BY <1>1, TruthStands DEF SignedSound, LookingSound

\* A check goes on.
LEMMA UpdatedKeeps ==
  ASSUME TrustInv, todo # <<>>, NEW c, Updated(c), c.owner = Head(todo),
         SignedSound(c) \/ LookingSound(c, zones)
  PROVE  TrustInv'
<1>1. UNCHANGED <<truth, stack, memo, zones, todo, results, answer, reply>> /\ check' = c /\ Running
  BY DEF Updated
<1>2. TruthTyped' /\ TrustTyped'
  BY <1>1, FramesStand DEF TrustInv, TrustTyped, AnswerTypes
<1>3. (SignedSound(check) \/ LookingSound(check, zones))'
  <2>1. CASE SignedSound(c)
    <3>1. SignedSound(c)'
      BY <1>1, <2>1, CheckStands
    <3>2. SignedSound(check)'
      BY <1>1, <3>1 DEF SignedSound
    <3> QED
      BY <3>2
  <2>2. CASE LookingSound(c, zones)
    <3>1. LookingSound(c, zones)'
      BY <1>1, <2>2, CheckStands
    <3>2. LookingSound(check, zones)'
      BY <1>1, <3>1 DEF LookingSound
    <3> QED
      BY <3>2
  <2> QED
    BY <2>1, <2>2
<1>4. CheckSound'
  BY <1>1, <1>3 DEF TrustInv, CheckSound
<1> QED
  BY <1>1, <1>2, <1>4, AnswerStands DEF TrustInv, Running, Done

\* The names of an answer's RRsets.
LEMMA KeptNames ==
  ASSUME TrustInv
  PROVE  Kept(answer.kind, answer.soa) \subseteq Names /\ Depth \in Names /\ Depth - 1 \in Names
<1>1. Depth \in Names /\ Depth - 1 \in Names /\ answer.soa \in Names
  <2>1. answer.soa \in Names
    BY DEF TrustInv, TrustTyped, AnswerTypes
  <2>2. Depth \in Names /\ Depth - 1 \in Names
    BY TrustAssumption DEF Names
  <2> QED
    BY <2>1, <2>2
<1> QED
  BY <1>1 DEF Kept

LEMMA FirstRemains ==
  ASSUME TrustInv, todo # <<>>
  PROVE  /\ Head(todo) \in Names /\ Tail(todo) \in Seq(Names) /\ Head(todo) \in Remain
         /\ todo' = Tail(todo) => /\ Remain' \subseteq Remain
                                  /\ \A o \in Remain : o = Head(todo) \/ o \in Remain'
<1>1. todo \in Seq(Names)
  BY DEF TrustInv, TrustTyped
<1>2. Head(todo) = todo[1] /\ Len(todo) \in Nat /\ 1 \in 1..Len(todo)
  BY <1>1
<1>3. Tail(todo) \in Seq(Names) /\ Len(Tail(todo)) = Len(todo) - 1
      /\ \A i \in 1..Len(Tail(todo)) : Tail(todo)[i] = todo[i + 1] /\ i + 1 \in 1..Len(todo)
  BY <1>1
<1>4. \A i \in 1..Len(todo) : i = 1 \/ (i - 1 \in 1..Len(Tail(todo)) /\ Tail(todo)[i - 1] = todo[i])
  BY <1>1, <1>3
<1>5. Head(todo) \in Names /\ Head(todo) \in Remain
  BY <1>1, <1>2 DEF Remain
<1>6. ASSUME todo' = Tail(todo) PROVE Remain' \subseteq Remain /\ \A o \in Remain : o = Head(todo) \/ o \in Remain'
  BY <1>2, <1>3, <1>4, <1>6 DEF Remain
<1> QED
  BY <1>3, <1>5, <1>6

\* A check ends.
Excused == check.phase = "signed" /\ check.optOut
LEMMA CheckedKeeps ==
  ASSUME TrustInv, check # NoCheck, NEW state \in States, Checked(state),
         state = "secure" => IsSecure(check.owner),
         state = "insecure" => Excused \/ ~IsSecure(check.owner),
         honest => ~Excused /\ (state \in {"secure", "insecure"} \/ OutOfReach(check.owner))
  PROVE  TrustInv'
<1>1. /\ UNCHANGED <<truth, stack, memo, zones, reply>> /\ Running /\ check' = NoCheck
      /\ results' = results \cup {state} /\ todo' = Tail(todo)
  BY DEF Checked
<1>2. todo # <<>> /\ check.owner = Head(todo) /\ answer.state = "open" /\ answer \in AnswerTypes /\ results \in SUBSET States
  BY DEF TrustInv, TrustTyped, CheckSound
<1>3. PICK b \in BOOLEAN : b <=> (answer.optOut \/ Excused)
  OBVIOUS
<1>4. /\ answer' \in AnswerTypes /\ answer'.kind = answer.kind /\ answer'.soa = answer.soa
      /\ answer'.state = answer.state /\ (answer'.optOut <=> b)
  <2>1. answer' = [answer EXCEPT !.optOut = answer.optOut \/ (check.phase = "signed" /\ check.optOut)]
    BY DEF Checked
  <2>2. answer' = [kind |-> answer.kind, state |-> answer.state, soa |-> answer.soa,
                   optOut |-> answer.optOut \/ (check.phase = "signed" /\ check.optOut)]
    BY <1>2, <2>1 DEF AnswerTypes
  <2>3. answer'.optOut <=> b
    BY <1>3, <2>2 DEF Excused
  <2>4. answer' \in AnswerTypes
    BY <1>2, <2>2 DEF AnswerTypes
  <2> QED
    BY <2>2, <2>3, <2>4
<1>5. PICK K : K = Kept(answer.kind, answer.soa)
  OBVIOUS
<1>6. Kept(answer.kind, answer.soa)' = K /\ K \subseteq Names
  BY <1>4, <1>5, KeptNames DEF Kept
<1>7. PICK o : o = check.owner
  OBVIOUS
<1>8. o \in K /\ o \in Names /\ Remain' \subseteq Remain /\ \A q \in Remain : q = o \/ q \in Remain'
  BY <1>1, <1>2, <1>5, <1>7, FirstRemains DEF TrustInv, Judged
<1>9. TruthTyped' /\ TrustTyped'
  BY <1>1, <1>2, <1>4, FirstRemains, FramesStand DEF TrustInv, TrustTyped
<1>10. Judged'
  <2>1. Judged /\ honest' = honest
    BY <1>1, <1>2 DEF TrustInv, truth
  <2>2. Remain' \subseteq K
    BY <1>5, <1>8, <2>1 DEF Judged
  <2>3. ASSUME NEW q \in K PROVE q \in Remain' \/ (results' # {} /\ (results' = {"secure"} => IsSecure(q)'))
    <3>1. CASE q = o
      BY <1>1, <1>7, <3>1, TruthStands
    <3>2. CASE q # o /\ q \notin Remain
      BY <1>1, <1>5, <2>1, <2>3, <3>2, TruthStands DEF Judged
    <3> QED
      BY <1>8, <3>1, <3>2
  <2>4. "insecure" \in results' => b \/ \E q \in K : ~IsSecure(q)'
    <3>1. CASE state = "insecure"
      BY <1>1, <1>3, <1>7, <1>8, <3>1, TruthStands
    <3>2. CASE state # "insecure"
      BY <1>1, <1>3, <1>5, <2>1, <3>2, TruthStands DEF Judged
    <3> QED
      BY <3>1, <3>2
  <2>5. ASSUME honest PROVE ~b /\ \A r \in results' : r \in {"secure", "insecure"} \/ OutOfReach(Depth)'
    <3>1. OutOfReach(o) => OutOfReach(Depth)
      <4>1. o <= Depth /\ Depth \in Names
        BY <1>8, KeptNames, TrustAssumption DEF Names
      <4> QED
        BY <1>8, <4>1, OutOfReachBelow
    <3> QED
      BY <1>1, <1>3, <1>7, <2>1, <2>5, <3>1, TruthStands DEF Judged
  <2> QED
    BY <1>1, <1>4, <1>6, <2>1, <2>2, <2>3, <2>4, <2>5, TruthStands DEF Judged
<1>11. ReplySound'
  BY <1>1, <1>4 DEF TrustInv, ReplySound
<1> QED
  BY <1>1, <1>2, <1>4, <1>9, <1>10, <1>11 DEF TrustInv, CheckSound, Running, Done, States

\* What a record of a check becomes.
LEMMA CheckFields ==
  ASSUME NEW c \in SignedChecks
  PROVE  c = [phase |-> "signed", owner |-> c.owner, left |-> c.left, seen |-> c.seen,
              checked |-> c.checked, valid |-> c.valid, optOut |-> c.optOut]
BY DEF SignedChecks

LEMMA SeenFields ==
  ASSUME NEW c \in SignedChecks, NEW l, l \in SUBSET Names, NEW w, w \in SUBSET States, NEW b
  PROVE  [c EXCEPT !.left = l, !.seen = w, !.checked = b] =
             [phase |-> "signed", owner |-> c.owner, left |-> l, seen |-> w,
              checked |-> b, valid |-> c.valid, optOut |-> c.optOut]
<1>1. PICK d : d = [c EXCEPT !.left = l]
  OBVIOUS
<1>2. d = [phase |-> "signed", owner |-> c.owner, left |-> l, seen |-> c.seen,
           checked |-> c.checked, valid |-> c.valid, optOut |-> c.optOut]
  BY <1>1 DEF SignedChecks
<1>3. d \in SignedChecks
  BY <1>2 DEF SignedChecks
<1>4. PICK e : e = [d EXCEPT !.seen = w]
  OBVIOUS
<1>5. e = [phase |-> "signed", owner |-> c.owner, left |-> l, seen |-> w,
           checked |-> c.checked, valid |-> c.valid, optOut |-> c.optOut]
  BY <1>2, <1>3, <1>4 DEF SignedChecks
<1>6. e \in SignedChecks
  BY <1>5 DEF SignedChecks
<1>7. [e EXCEPT !.checked = b] = [phase |-> "signed", owner |-> c.owner, left |-> l, seen |-> w,
                                 checked |-> b, valid |-> c.valid, optOut |-> c.optOut]
  BY <1>5, <1>6 DEF SignedChecks
<1> QED
  BY <1>1, <1>4, <1>7

LEMMA ValidFields ==
  ASSUME NEW c \in SignedChecks, NEW l, l \in SUBSET Names, NEW b
  PROVE  [c EXCEPT !.left = l, !.valid = b] =
             [phase |-> "signed", owner |-> c.owner, left |-> l, seen |-> c.seen,
              checked |-> c.checked, valid |-> b, optOut |-> c.optOut]
<1>1. PICK d : d = [c EXCEPT !.left = l]
  OBVIOUS
<1>2. d = [phase |-> "signed", owner |-> c.owner, left |-> l, seen |-> c.seen,
           checked |-> c.checked, valid |-> c.valid, optOut |-> c.optOut]
  BY <1>1 DEF SignedChecks
<1>3. d \in SignedChecks
  BY <1>2 DEF SignedChecks
<1>4. [d EXCEPT !.valid = b] = [phase |-> "signed", owner |-> c.owner, left |-> l, seen |-> c.seen,
                               checked |-> c.checked, valid |-> b, optOut |-> c.optOut]
  BY <1>2, <1>3 DEF SignedChecks
<1> QED
  BY <1>1, <1>4

LEMMA ExcusedField ==
  ASSUME NEW d \in SignedChecks, NEW o
  PROVE  [d EXCEPT !.optOut = o] =
             [phase |-> "signed", owner |-> d.owner, left |-> d.left, seen |-> d.seen,
              checked |-> d.checked, valid |-> d.valid, optOut |-> o]
BY DEF SignedChecks

LEMMA OptOutFields ==
  ASSUME NEW c \in SignedChecks, NEW l, l \in SUBSET Names, NEW w, w \in SUBSET States
  PROVE  [c EXCEPT !.left = l, !.seen = w, !.checked = TRUE, !.optOut = TRUE] =
             [phase |-> "signed", owner |-> c.owner, left |-> l, seen |-> w,
              checked |-> TRUE, valid |-> c.valid, optOut |-> TRUE]
<1>1. PICK d : d = [c EXCEPT !.left = l, !.seen = w, !.checked = TRUE]
  OBVIOUS
<1>2. d = [phase |-> "signed", owner |-> c.owner, left |-> l, seen |-> w,
           checked |-> TRUE, valid |-> c.valid, optOut |-> c.optOut]
  BY <1>1, SeenFields
<1>3. d \in SignedChecks
  BY <1>2 DEF SignedChecks
<1>4. [d EXCEPT !.optOut = TRUE] = [phase |-> "signed", owner |-> c.owner, left |-> l, seen |-> w,
                                   checked |-> TRUE, valid |-> c.valid, optOut |-> TRUE]
  <2>1. [d EXCEPT !.optOut = TRUE] = [phase |-> "signed", owner |-> d.owner, left |-> d.left, seen |-> d.seen,
                                      checked |-> d.checked, valid |-> d.valid, optOut |-> TRUE]
    BY <1>3, ExcusedField, Zenon
  <2> QED
    BY <1>2, <2>1
<1> QED
  BY <1>1, <1>4

LEMMA LookingFields ==
  ASSUME NEW c \in LookingChecks, NEW y \in Names, NEW x
  PROVE  /\ [c EXCEPT !.phase = "cuts"] = [phase |-> "cuts", owner |-> c.owner, zone |-> c.zone, next |-> c.next]
         /\ [c EXCEPT !.next = x] = [phase |-> c.phase, owner |-> c.owner, zone |-> c.zone, next |-> x]
         /\ [c EXCEPT !.zone = y, !.next = x] = [phase |-> c.phase, owner |-> c.owner, zone |-> y, next |-> x]
<1>1. PICK d : d = [c EXCEPT !.zone = y]
  OBVIOUS
<1>2. d = [phase |-> c.phase, owner |-> c.owner, zone |-> y, next |-> c.next]
  BY <1>1 DEF LookingChecks
<1>3. d \in LookingChecks
  BY <1>2 DEF LookingChecks
<1>4. [d EXCEPT !.next = x] = [phase |-> c.phase, owner |-> c.owner, zone |-> y, next |-> x]
  BY <1>2, <1>3 DEF LookingChecks
<1>5. [c EXCEPT !.zone = y, !.next = x] = [phase |-> c.phase, owner |-> c.owner, zone |-> y, next |-> x]
  BY <1>1, <1>4
<1> QED
  BY <1>5 DEF LookingChecks

-----------------------------------------------------------------------------
\* A zone that does not sign is not secure.
LEMMA UnsignedZone ==
  ASSUME TruthTyped, NEW z \in Names, IsApex(z), ~Signs(z)
  PROVE  ~IsSecure(z)
<1>1. z \notin anchors /\ z \in 1..Depth
  BY TrustAssumption DEF TruthTyped, Names, Signs
<1>2. z \in (Anchor(z) + 1)..z
  <2>1. Anchor(z) \in anchors /\ Anchor(z) \in Names /\ Anchor(z) <= z
    BY AnchorOfName
  <2>2. PICK a : a = Anchor(z)
    OBVIOUS
  <2> QED
    BY <1>1, <2>1, <2>2 DEF Names
<1>3. cuts[z] # "none" /\ cuts[z] # "signed"
  BY <1>1 DEF IsApex, Signs
<1> QED
  BY <1>2, <1>3 DEF IsSecure

\* What a check that goes on is.
LEMMA CheckIs ==
  ASSUME TrustInv, check # NoCheck
  PROVE  /\ todo # <<>> /\ check.owner = Head(todo) /\ answer.state = "open" /\ check.owner \in Names
         /\ check.phase = "signed" => SignedSound(check)
         /\ check.phase \in {"looking", "cuts"} => LookingSound(check, zones) /\ ~Excused
         /\ TruthTyped /\ ZoneTable(zones)
BY DEF TrustInv, TrustTyped, CheckSound, SignedSound, LookingSound, SignedChecks, LookingChecks, Excused

LEMMA BeginCheckKeeps == ASSUME TrustInv, BeginCheck PROVE TrustInv'
<1>1. PICK owner : owner = Head(todo)
  OBVIOUS
<1>2. PICK signers : signers = IF Signs(ZoneOf(owner)) THEN {ZoneOf(owner)} ELSE {}
  OBVIOUS
<1>3. todo # <<>> /\ owner \in Names /\ 0..owner \subseteq Names /\ TruthTyped
  <2>1. todo # <<>> /\ owner \in Names
    BY <1>1, FirstRemains DEF BeginCheck
  <2> QED
    BY <2>1, TrustAssumption DEF TrustInv, Names
<1>4. /\ UNCHANGED <<truth, stack, memo, zones, todo, results, answer, reply>> /\ Running
      /\ \/ \E left \in SUBSET (0..owner) :
              /\ honest => left = signers /\ left # {}
              /\ check' = [phase |-> "signed", owner |-> owner, left |-> left,
                           seen |-> {}, checked |-> FALSE, valid |-> FALSE, optOut |-> FALSE]
         \/ \E apex \in 0..owner :
              /\ honest => signers = {} /\ apex = ZoneOf(owner)
              /\ apex >= Anchor(owner)
              /\ check' = [phase |-> "looking", owner |-> owner, zone |-> apex, next |-> apex + 1]
  BY <1>1, <1>2 DEF BeginCheck
<1>5. PICK c : c = check'
  OBVIOUS
<1>6. Updated(c)
  BY <1>4, <1>5 DEF Updated
<1>7. ASSUME NEW left \in SUBSET (0..owner), honest => left = signers /\ left # {},
             c = [phase |-> "signed", owner |-> owner, left |-> left,
                  seen |-> {}, checked |-> FALSE, valid |-> FALSE, optOut |-> FALSE]
      PROVE  TrustInv'
  <2>1. c \in SignedChecks
    BY <1>3, <1>7 DEF SignedChecks
  <2>2. \A s \in left : s <= owner
    BY <1>7
  <2>3. honest => left # {} /\ \A s \in left : s = ZoneOf(owner)
    BY <1>2, <1>7
  <2>4. SignedSound(c)
    BY <1>7, <2>1, <2>2, <2>3 DEF SignedSound
  <2>5. c.owner = Head(todo)
    BY <1>1, <1>7
  <2> QED
    BY <1>3, <1>6, <2>4, <2>5, UpdatedKeeps
<1>8. ASSUME NEW apex \in 0..owner, honest => signers = {} /\ apex = ZoneOf(owner), apex >= Anchor(owner),
             c = [phase |-> "looking", owner |-> owner, zone |-> apex, next |-> apex + 1]
      PROVE  TrustInv'
  <2>1. apex \in Names /\ apex \in Nat /\ apex <= owner /\ Anchor(owner) <= apex
    BY <1>3, <1>8, AnchorOfName DEF Names
  <2>2. c \in LookingChecks
    BY <1>3, <1>8, <2>1 DEF LookingChecks
  <2>3. honest => apex = ZoneOf(owner) /\ ~Signs(apex)
    BY <1>2, <1>8
  <2>4. LookingSound(c, zones)
    BY <1>8, <2>1, <2>2, <2>3 DEF LookingSound
  <2>5. c.owner = Head(todo)
    BY <1>1, <1>8
  <2> QED
    BY <1>3, <1>6, <2>4, <2>5, UpdatedKeeps
<1> QED
  BY <1>4, <1>5, <1>7, <1>8

\* The signature of one more zone has been looked at.
LEMMA SawKeeps ==
  ASSUME TrustInv, check # NoCheck, check.phase = "signed", NEW s \in check.left,
         NEW state \in States, state # "secure", NEW b \in BOOLEAN, Saw(s, state, b),
         state = "insecure" => ~IsSecure(check.owner),
         honest => ~b /\ state # "bogus" /\ (state = "indeterminate" => OutOfReach(check.owner))
  PROVE  TrustInv'
<1>1. SignedSound(check) /\ check \in SignedChecks /\ todo # <<>> /\ check.owner = Head(todo)
  BY CheckIs DEF SignedSound
<1>2. PICK l : l = check.left \ {s}
  OBVIOUS
<1>3. PICK w : w = check.seen \cup {state}
  OBVIOUS
<1>4. PICK d \in BOOLEAN : d <=> (check.checked \/ b)
  OBVIOUS
<1>5. l \in SUBSET Names /\ w \in SUBSET States /\ (check.checked \/ b) = d
  BY <1>1, <1>2, <1>3, <1>4 DEF SignedChecks
<1>6. PICK c : c = [phase |-> "signed", owner |-> check.owner, left |-> l, seen |-> w,
                    checked |-> d, valid |-> check.valid, optOut |-> check.optOut]
  OBVIOUS
<1>7. Updated(c)
  <2>1. Updated([check EXCEPT !.left = check.left \ {s}, !.seen = check.seen \cup {state},
                              !.checked = check.checked \/ b])
    BY DEF Saw
  <2>2. Updated([check EXCEPT !.left = l, !.seen = w, !.checked = d])
    BY <1>2, <1>3, <1>5, <2>1
  <2>3. PICK e : e = check
    OBVIOUS
  <2>4. e \in SignedChecks /\ l \in SUBSET Names /\ w \in SUBSET States
    BY <1>1, <1>5, <2>3
  <2>5. PICK x : x = [e EXCEPT !.left = l, !.seen = w, !.checked = d]
    OBVIOUS
  <2>6. x = [phase |-> "signed", owner |-> e.owner, left |-> l, seen |-> w,
             checked |-> d, valid |-> e.valid, optOut |-> e.optOut]
    BY <2>4, <2>5, SeenFields
  <2>7. x = c
    BY <1>6, <2>3, <2>6
  <2> QED
    BY <2>2, <2>3, <2>5, <2>7, ZenonT(30)
<1>8. c \in SignedChecks
  BY <1>1, <1>5, <1>6 DEF SignedChecks
<1>9. SignedSound(c)
  <2>1. /\ \A t \in c.left : t <= c.owner
        /\ "secure" \notin c.seen /\ c.seen # {}
        /\ c.valid => IsSecure(c.owner)
    BY <1>1, <1>2, <1>3, <1>6 DEF SignedSound
  <2>2. "insecure" \in c.seen => c.optOut \/ ~IsSecure(c.owner)
    BY <1>1, <1>3, <1>6 DEF SignedSound
  <2>3. honest => /\ ~c.optOut /\ ~c.checked /\ "bogus" \notin c.seen
                  /\ \A t \in c.left : t = ZoneOf(c.owner)
                  /\ "indeterminate" \in c.seen => OutOfReach(c.owner)
    BY <1>1, <1>2, <1>3, <1>4, <1>6 DEF SignedSound
  <2> QED
    BY <1>8, <2>1, <2>2, <2>3 DEF SignedSound
<1> QED
  BY <1>1, <1>6, <1>7, <1>9, UpdatedKeeps

\* A zone of a check is judged by the zone's own name; its verdict reaches the owner.
LEMMA JudgedAbove ==
  ASSUME TruthTyped, NEW m, ZoneTable(m), NEW z \in Names, NEW n \in Names, z <= n, Anchor(n) <= z,
         m[z] # Unknown
  PROVE  /\ m[z].state \in States
         /\ m[z].state = "insecure" => ~IsSecure(n)
         /\ honest => m[z].state # "bogus" /\ (m[z].state = "indeterminate" => OutOfReach(n))
<1>1. m[z].state \in States /\ VerdictSound(z, m[z])
  BY TableHas
<1> QED
  BY <1>1, SecureAbove, OutOfReachBelow DEF VerdictSound

LEMMA CheckSignerKeeps == ASSUME TrustInv, CheckSigner PROVE TrustInv'
<1>1. PICK s \in check.left :
         IF s < Anchor(check.owner) THEN Saw(s, "indeterminate", FALSE)
         ELSE IF zones[s] = Unknown THEN Push(s)
         ELSE IF zones[s].state # "secure" THEN Saw(s, zones[s].state, FALSE)
         ELSE \/ /\ Verifies(zones[s], Publishes(s, check.owner, answer.kind))
                 /\ Updated([check EXCEPT !.left = @ \ {s}, !.valid = TRUE])
              \/ /\ ~honest
                 /\ Updated([check EXCEPT !.left = @ \ {s}, !.seen = @ \union {"insecure"},
                                          !.checked = TRUE, !.optOut = TRUE])
              \/ ~honest /\ \E state \in {"indeterminate", "bogus"} : Saw(s, state, TRUE)
  BY DEF CheckSigner
<1>2. check.phase = "signed" /\ check # NoCheck
  BY DEF CheckSigner, NoCheck
<1>3. /\ SignedSound(check) /\ check \in SignedChecks /\ todo # <<>> /\ check.owner = Head(todo)
      /\ check.owner \in Names /\ TruthTyped /\ ZoneTable(zones)
  BY <1>2, CheckIs DEF SignedSound
<1>4. s \in Names /\ s <= check.owner /\ (honest => s = ZoneOf(check.owner))
  BY <1>3 DEF SignedSound, SignedChecks
<1>5. Anchor(check.owner) \in Names /\ (honest => ~(s < Anchor(check.owner)) /\ IsApex(s))
  <2>1. PICK a : a = Anchor(check.owner)
    OBVIOUS
  <2>2. a \in Names /\ (honest => a <= s /\ IsApex(s))
    BY <1>3, <1>4, <2>1, AnchorOfName, AnchorInZone, ZoneOfName
  <2> QED
    BY <1>4, <2>1, <2>2 DEF Names
<1>6. CASE s < Anchor(check.owner)
  BY <1>1, <1>2, <1>5, <1>6, SawKeeps DEF States
<1>7. CASE ~(s < Anchor(check.owner)) /\ zones[s] = Unknown
  BY <1>1, <1>4, <1>5, <1>7, PushKeeps, AuthenticatesKeeps
<1>8. CASE ~(s < Anchor(check.owner)) /\ zones[s] # Unknown /\ zones[s].state # "secure"
  <2>1. Anchor(check.owner) <= s
    BY <1>4, <1>5, <1>8 DEF Names
  <2>2. PICK state : state = zones[s].state
    OBVIOUS
  <2>3. /\ state \in States
        /\ state = "insecure" => ~IsSecure(check.owner)
        /\ honest => state # "bogus" /\ (state = "indeterminate" => OutOfReach(check.owner))
    BY <1>3, <1>4, <1>8, <2>1, <2>2, JudgedAbove
  <2>4. Saw(s, state, FALSE)
    BY <1>1, <1>8, <2>2
  <2> QED
    BY <1>2, <1>8, <2>2, <2>3, <2>4, SawKeeps
<1>9. CASE ~(s < Anchor(check.owner)) /\ zones[s] # Unknown /\ zones[s].state = "secure"
  <2>0. PICK l : l = check.left \ {s}
    OBVIOUS
  <2>00. l \in SUBSET Names
    BY <1>3, <2>0 DEF SignedChecks
  <2>1. CASE /\ Verifies(zones[s], Publishes(s, check.owner, answer.kind))
             /\ Updated([check EXCEPT !.left = @ \ {s}, !.valid = TRUE])
    <3>1. PICK c : c = [phase |-> "signed", owner |-> check.owner, left |-> l, seen |-> check.seen,
                        checked |-> check.checked, valid |-> TRUE, optOut |-> check.optOut]
      OBVIOUS
    <3>2. Updated(c)
      <4>1. [check EXCEPT !.left = l, !.valid = TRUE] =
                [phase |-> "signed", owner |-> check.owner, left |-> l, seen |-> check.seen,
                 checked |-> check.checked, valid |-> TRUE, optOut |-> check.optOut]
        BY <1>3, <2>00, ValidFields, Zenon
      <4>2. Updated([check EXCEPT !.left = l, !.valid = TRUE])
        BY <2>0, <2>1
      <4> QED
        BY <3>1, <4>1, <4>2
    <3>3. IsSecure(check.owner)
      <4>1. ZoneOf(check.owner) = s /\ IsSecure(s)
        BY <1>3, <1>4, <1>9, <2>1, SecureVerifies DEF Publishes
      <4> QED
        BY <1>3, <4>1, ZoneIsSecure
    <3>4. c \in SignedChecks
      BY <1>3, <2>00, <3>1 DEF SignedChecks
    <3>5. SignedSound(c)
      BY <1>3, <2>0, <3>1, <3>3, <3>4 DEF SignedSound
    <3> QED
      BY <1>3, <3>1, <3>2, <3>5, UpdatedKeeps
  <2>2. CASE /\ ~honest
             /\ Updated([check EXCEPT !.left = @ \ {s}, !.seen = @ \union {"insecure"},
                                      !.checked = TRUE, !.optOut = TRUE])
    <3>0. PICK w : w = check.seen \cup {"insecure"}
      OBVIOUS
    <3>00. w \in SUBSET States
      BY <1>3, <3>0 DEF SignedChecks, States
    <3>1. PICK c : c = [phase |-> "signed", owner |-> check.owner, left |-> l, seen |-> w,
                        checked |-> TRUE, valid |-> check.valid, optOut |-> TRUE]
      OBVIOUS
    <3>2. Updated(c)
      <4>1. [check EXCEPT !.left = l, !.seen = w, !.checked = TRUE, !.optOut = TRUE] =
                [phase |-> "signed", owner |-> check.owner, left |-> l, seen |-> w,
                 checked |-> TRUE, valid |-> check.valid, optOut |-> TRUE]
        BY <1>3, <2>00, <3>00, OptOutFields, Zenon
      <4>2. Updated([check EXCEPT !.left = l, !.seen = w, !.checked = TRUE, !.optOut = TRUE])
        BY <2>0, <2>2, <3>0
      <4> QED
        BY <3>1, <4>1, <4>2
    <3>4. c \in SignedChecks
      BY <1>3, <2>00, <3>00, <3>1 DEF SignedChecks
    <3>5. SignedSound(c)
      BY <1>3, <2>0, <2>2, <3>0, <3>1, <3>4 DEF SignedSound
    <3> QED
      BY <1>3, <3>1, <3>2, <3>5, UpdatedKeeps
  <2>3. CASE ~honest /\ \E state \in {"indeterminate", "bogus"} : Saw(s, state, TRUE)
    BY <1>2, <2>3, SawKeeps DEF States
  <2> QED
    BY <1>1, <1>9, <2>1, <2>2, <2>3
<1> QED
  BY <1>6, <1>7, <1>8, <1>9

LEMMA SignersDoneKeeps == ASSUME TrustInv, SignersDone PROVE TrustInv'
<1>1. check.phase = "signed" /\ check # NoCheck /\ check.left = {}
  BY DEF SignersDone, NoCheck
<1>2. SignedSound(check) /\ check.seen \in SUBSET States
  BY <1>1, CheckIs DEF SignedSound, SignedChecks
<1>3. (honest => ~Excused) /\ (check.optOut => Excused)
  BY <1>1, <1>2 DEF SignedSound, Excused
<1>4. CASE check.valid
  <2>1. Checked("secure") /\ IsSecure(check.owner)
    BY <1>2, <1>4 DEF SignersDone, SignedSound
  <2> QED
    BY <1>1, <1>3, <2>1, CheckedKeeps DEF States
<1>5. CASE ~check.valid
  <2>1. PICK state : state = CASE check.checked /\ "bogus" \in check.seen -> "bogus"
                               [] check.seen = {} -> "indeterminate"
                               [] OTHER -> Weakest(check.seen)
    OBVIOUS
  <2>2. Checked(state)
    BY <1>5, <2>1 DEF SignersDone
  <2>3. \/ state = "bogus" /\ "bogus" \in check.seen
        \/ state = "indeterminate" /\ (check.seen = {} \/ "indeterminate" \in check.seen)
        \/ state = "insecure" /\ "insecure" \in check.seen
        \/ state = "secure" /\ check.seen # {} /\ check.seen \cap {"bogus", "indeterminate", "insecure"} = {}
    BY <2>1 DEF Weakest
  <2>4. state \in {"bogus", "indeterminate", "insecure"}
    BY <1>2, <2>3 DEF SignedSound, States
  <2>5. state = "insecure" => Excused \/ ~IsSecure(check.owner)
    BY <1>2, <1>3, <2>3 DEF SignedSound
  <2>6. honest => state = "insecure" \/ OutOfReach(check.owner)
    BY <1>1, <1>2, <1>5, <2>3, <2>4 DEF SignedSound
  <2> QED
    BY <1>1, <1>3, <2>2, <2>4, <2>5, <2>6, CheckedKeeps DEF States
<1> QED
  BY <1>4, <1>5

\* The zone of an RRset without signatures is one that signs nothing, for an honest upstream.
LEMMA LookingIs ==
  ASSUME TrustInv, check # NoCheck, check.phase \in {"looking", "cuts"}
  PROVE  /\ LookingSound(check, zones) /\ check \in LookingChecks /\ ~Excused
         /\ todo # <<>> /\ check.owner = Head(todo) /\ TruthTyped /\ ZoneTable(zones)
         /\ check.owner \in Names /\ check.zone \in Names /\ check.next \in Nat
         /\ check.zone <= check.owner /\ Anchor(check.owner) <= check.zone /\ check.zone < check.next
         /\ honest => check.zone = ZoneOf(check.owner) /\ IsApex(check.zone) /\ ~IsSecure(check.zone)
<1>1. /\ LookingSound(check, zones) /\ check \in LookingChecks /\ ~Excused
      /\ todo # <<>> /\ check.owner = Head(todo) /\ TruthTyped /\ ZoneTable(zones)
  BY CheckIs DEF LookingSound
<1>2. check.owner \in Names /\ check.zone \in Names /\ check.next \in Nat
  BY <1>1 DEF LookingChecks
<1>3. check.zone <= check.owner /\ Anchor(check.owner) <= check.zone /\ check.zone < check.next
  BY <1>1 DEF LookingSound
<1>4. honest => check.zone = ZoneOf(check.owner) /\ ~Signs(check.zone)
  BY <1>1 DEF LookingSound
<1>5. honest => IsApex(check.zone)
  BY <1>2, <1>4, ZoneOfName
<1>6. honest => ~IsSecure(check.zone)
  BY <1>1, <1>2, <1>4, <1>5, UnsignedZone
<1> QED
  BY <1>1, <1>2, <1>3, <1>4, <1>5, <1>6

LEMMA LookKeeps == ASSUME TrustInv, Look PROVE TrustInv'
<1>1. check.phase \in {"looking", "cuts"} /\ check # NoCheck /\ check.phase = "looking"
  BY DEF Look, NoCheck
<1>2. CASE ~honest /\ Checked("indeterminate")
  BY <1>1, <1>2, LookingIs, CheckedKeeps DEF States
<1>3. CASE zones[check.zone] = Unknown /\ Push(check.zone)
  BY <1>1, <1>3, LookingIs, PushKeeps, AuthenticatesKeeps
<1>4. CASE zones[check.zone] # Unknown /\ Updated([check EXCEPT !.phase = "cuts"])
  <2>1. PICK c : c = [phase |-> "cuts", owner |-> check.owner, zone |-> check.zone, next |-> check.next]
    OBVIOUS
  <2>2. [check EXCEPT !.phase = "cuts"] = c
    BY <1>1, <2>1, LookingIs, LookingFields
  <2>3. c \in LookingChecks
    BY <1>1, <2>1, LookingIs DEF LookingChecks
  <2>4. LookingSound(c, zones)
    BY <1>1, <1>4, <2>1, <2>3, LookingIs DEF LookingSound
  <2> QED
    BY <1>1, <1>4, <2>1, <2>2, <2>4, LookingIs, UpdatedKeeps
<1> QED
  BY <1>2, <1>3, <1>4 DEF Look

LEMMA NearestZoneKeeps == ASSUME TrustInv, NearestZone PROVE TrustInv'
<1>1. check.phase \in {"looking", "cuts"} /\ check # NoCheck /\ check.phase = "cuts"
  BY DEF NearestZone, NoCheck
<1>2. zones[check.zone] # Unknown /\ zones[check.zone].state \in States
  <2>1. zones[check.zone] # Unknown
    BY <1>1, LookingIs DEF LookingSound
  <2> QED
    BY <1>1, <2>1, LookingIs, TableHas
<1>3. PICK state : state = zones[check.zone].state
  OBVIOUS
<1>4. /\ state = "insecure" => ~IsSecure(check.owner)
      /\ honest => state # "bogus" /\ (state = "indeterminate" => OutOfReach(check.owner))
      /\ ~Excused
  BY <1>1, <1>2, <1>3, LookingIs, JudgedAbove
<1>5. honest => state # "secure"
  BY <1>1, <1>2, <1>3, LookingIs, TableHas DEF VerdictSound
<1>6. \/ state = "insecure" /\ Checked("insecure")
      \/ state = "secure" /\ Checked("bogus")
      \/ state \in {"bogus", "indeterminate"} /\ Checked("indeterminate")
  BY <1>2, <1>3 DEF NearestZone, UnsignedIn, States
<1> QED
  BY <1>1, <1>4, <1>5, <1>6, CheckedKeeps DEF States

LEMMA EstablishKeeps == ASSUME TrustInv, Establish PROVE TrustInv'
<1>1. /\ check.phase \in {"looking", "cuts"} /\ check # NoCheck /\ check.phase = "cuts"
      /\ zones[check.zone].state = "secure" /\ check.next <= check.owner
  BY DEF Establish, NoCheck
<1>2. zones[check.zone] # Unknown /\ IsSecure(check.zone)
  <2>1. zones[check.zone] # Unknown
    BY <1>1 DEF Unknown
  <2> QED
    BY <1>1, <2>1, LookingIs, TableHas DEF VerdictSound
<1>3. ~honest /\ ~Excused /\ TruthTyped
  BY <1>1, <1>2, LookingIs
<1>4. check.next \in Names
  BY <1>1, LookingIs, TrustAssumption DEF Names
<1>5. PICK auth : auth = zones[check.zone]
  OBVIOUS
<1>6. \/ Checked("indeterminate")
      \/ zones[check.next] = Unknown /\ Push(check.next)
      \/ zones[check.next] # Unknown /\ Updated([check EXCEPT !.zone = check.next, !.next = @ + 1])
      \/ Verifies(zones[check.zone], ProvablyUnsigned(check.zone, check.next)) /\ Checked("insecure")
      \/ Updated([check EXCEPT !.next = @ + 1])
  BY DEF Establish
<1>7. CASE Checked("indeterminate")
  BY <1>1, <1>3, <1>7, CheckedKeeps DEF States
<1>8. CASE zones[check.next] = Unknown /\ Push(check.next)
  BY <1>3, <1>4, <1>8, PushKeeps, AuthenticatesKeeps
<1>9. CASE zones[check.next] # Unknown /\ Updated([check EXCEPT !.zone = check.next, !.next = @ + 1])
  <2>1. PICK c : c = [phase |-> check.phase, owner |-> check.owner, zone |-> check.next, next |-> check.next + 1]
    OBVIOUS
  <2>2. PICK x : x = check.next + 1
    OBVIOUS
  <2>3. [check EXCEPT !.zone = check.next, !.next = x] = c
    BY <1>1, <1>4, <2>1, <2>2, LookingIs, LookingFields
  <2>4. Updated(c)
    BY <1>9, <2>2, <2>3
  <2>5. c \in LookingChecks
    BY <1>1, <1>4, <2>1, LookingIs DEF LookingChecks
  <2>6. /\ Anchor(c.owner) <= c.zone /\ c.zone < c.next /\ c.zone <= c.owner
        /\ zones[c.zone] # Unknown /\ c.owner = Head(todo)
    <3>1. PICK a : a = Anchor(check.owner)
      OBVIOUS
    <3>2. a \in Nat /\ check.next \in Nat /\ check.zone \in Nat /\ a <= check.zone /\ check.zone < check.next
      BY <1>1, <3>1, LookingIs, AnchorOfName DEF Names
    <3>3. a <= check.next /\ check.next < check.next + 1
      BY <3>2
    <3> QED
      BY <1>1, <1>9, <2>1, <3>1, <3>3, LookingIs
  <2>7. LookingSound(c, zones)
    BY <1>3, <2>5, <2>6 DEF LookingSound
  <2> QED
    BY <1>1, <2>4, <2>6, <2>7, LookingIs, UpdatedKeeps
<1>10. CASE Verifies(zones[check.zone], ProvablyUnsigned(check.zone, check.next)) /\ Checked("insecure")
  <2>1. ProvablyUnsigned(check.zone, check.next)
    BY <1>1, <1>10, LookingIs, SecureVerifies
  <2>2. ~IsSecure(check.owner)
    BY <1>1, <1>4, <2>1, LookingIs, ProvedUnsigned
  <2> QED
    BY <1>1, <1>3, <1>10, <2>2, CheckedKeeps DEF States
<1>11. CASE Updated([check EXCEPT !.next = @ + 1])
  <2>1. PICK c : c = [phase |-> check.phase, owner |-> check.owner, zone |-> check.zone, next |-> check.next + 1]
    OBVIOUS
  <2>2. PICK x : x = check.next + 1
    OBVIOUS
  <2>3. [check EXCEPT !.next = x] = c
    BY <1>1, <1>4, <2>1, <2>2, LookingIs, LookingFields
  <2>4. Updated(c)
    BY <1>11, <2>2, <2>3
  <2>5. c \in LookingChecks
    BY <1>1, <2>1, LookingIs DEF LookingChecks
  <2>6. /\ Anchor(c.owner) <= c.zone /\ c.zone < c.next /\ c.zone <= c.owner
        /\ zones[c.zone] # Unknown /\ c.owner = Head(todo)
    <3>1. check.zone \in Nat /\ check.next \in Nat /\ check.zone < check.next
      BY <1>1, LookingIs DEF Names
    <3>2. check.zone < check.next + 1
      BY <3>1
    <3> QED
      BY <1>1, <1>2, <2>1, <3>2, LookingIs
  <2>7. LookingSound(c, zones)
    BY <1>3, <2>5, <2>6 DEF LookingSound
  <2> QED
    BY <1>1, <2>4, <2>6, <2>7, LookingIs, UpdatedKeeps
<1> QED
  BY <1>6, <1>7, <1>8, <1>9, <1>10, <1>11

-----------------------------------------------------------------------------
\* The answer as a whole.
LEMMA OneAndTwo ==
  ASSUME NEW a \in Names, NEW b \in Names
  PROVE  /\ <<a>> \in Seq(Names) /\ {<<a>>[i] : i \in 1..Len(<<a>>)} = {a}
         /\ <<a, b>> \in Seq(Names) /\ {<<a, b>>[i] : i \in 1..Len(<<a, b>>)} = {a, b}
<1>1. Len(<<a>>) = 1 /\ Len(<<a, b>>) = 2 /\ 1..1 = {1} /\ 1..2 = {1, 2}
  OBVIOUS
<1>2. {<<a>>[i] : i \in {1}} = {a}
  OBVIOUS
<1>3. {<<a, b>>[i] : i \in {1, 2}} = {a, b}
  OBVIOUS
<1> QED
  BY <1>1, <1>2, <1>3

LEMMA ClassifyKeeps == ASSUME TrustInv, Classify PROVE TrustInv'
<1>1. /\ Running /\ answer.kind = "none" /\ answer.state = "none" /\ results = {} /\ todo = <<>> /\ check = NoCheck
      /\ UNCHANGED <<truth, stack, memo, zones, check, results, reply>> /\ honest' = honest
  BY DEF Classify, TrustInv, CheckSound, truth
<1>2. PICK kind \in {"data", "alias", "dname", "denial"}, soa \in Names :
         /\ honest /\ kind = "denial" => soa = ZoneOf(Depth)
         /\ answer' = [kind |-> kind, state |-> "open", soa |-> soa, optOut |-> FALSE]
         /\ todo' = IF kind = "denial" THEN <<soa>> ELSE Owners(kind)
  BY DEF Classify
<1>3. /\ answer' \in AnswerTypes /\ answer'.kind = kind /\ answer'.state = "open" /\ answer'.soa = soa
      /\ ~answer'.optOut
  BY <1>2 DEF AnswerTypes, AnswerKinds
<1>4. Depth \in Names /\ Depth - 1 \in Names
  BY KeptNames
<1>5. todo' \in Seq(Names) /\ {todo'[i] : i \in 1..Len(todo')} = Kept(kind, soa)
  BY <1>2, <1>4, OneAndTwo DEF Owners, Kept
<1>6. Remain' = Kept(kind, soa) /\ Kept(answer.kind, answer.soa)' = Kept(kind, soa)
  BY <1>3, <1>5 DEF Remain, Kept
<1>7. TruthTyped' /\ TrustTyped'
  BY <1>1, <1>3, <1>5, FramesStand DEF TrustInv, TrustTyped
<1>8. Judged'
  BY <1>1, <1>2, <1>3, <1>6, TruthStands DEF Judged
<1>9. ReplySound'
  BY <1>1, <1>3 DEF ReplySound, TrustInv, Running
<1> QED
  BY <1>1, <1>3, <1>7, <1>8, <1>9 DEF TrustInv, CheckSound, Done, States

LEMMA ClassifiedKeeps ==
  ASSUME TrustInv, Finished, NEW state \in States, NEW b \in BOOLEAN, Classified(state, b),
         state = "secure" => TrulySecure /\ (answer.kind = "denial" => answer.soa = ZoneOf(Depth)),
         state = "insecure" => ~TrulySecure \/ answer.optOut \/ b \/ SoaAboveAnchor,
         honest /\ ~OutOfReach(Depth) => state = IF TrulySecure THEN "secure" ELSE "insecure"
  PROVE  TrustInv'
<1>1. /\ UNCHANGED <<truth, stack, memo, todo, check, reply>> /\ Running /\ honest' = honest
      /\ results' = {} /\ zones' = NoZones /\ check = NoCheck /\ todo = <<>> /\ answer.state = "open"
      /\ answer.kind # "none" /\ answer \in AnswerTypes
  BY DEF Classified, Finished, TrustInv, TrustTyped, truth
<1>2. PICK d \in BOOLEAN : d <=> (answer.optOut \/ b)
  OBVIOUS
<1>3. /\ answer' \in AnswerTypes /\ answer'.kind = answer.kind /\ answer'.soa = answer.soa
      /\ answer'.state = state /\ (answer'.optOut <=> d)
  <2>1. answer' = [answer EXCEPT !.state = state, !.optOut = answer.optOut \/ b]
    BY DEF Classified
  <2>2. answer' = [kind |-> answer.kind, state |-> state, soa |-> answer.soa, optOut |-> answer.optOut \/ b]
    <3>1. PICK e : e = [answer EXCEPT !.state = state]
      OBVIOUS
    <3>2. e = [kind |-> answer.kind, state |-> state, soa |-> answer.soa, optOut |-> answer.optOut]
      BY <1>1, <3>1 DEF AnswerTypes
    <3>3. e \in AnswerTypes
      BY <1>1, <3>2 DEF AnswerTypes
    <3>4. answer' = [e EXCEPT !.optOut = answer.optOut \/ b]
      BY <2>1, <3>1
    <3> QED
      BY <3>2, <3>3, <3>4 DEF AnswerTypes
  <2>3. answer'.optOut <=> d
    BY <1>2, <2>2
  <2>4. answer' \in AnswerTypes
    BY <1>1, <2>2 DEF AnswerTypes
  <2> QED
    BY <2>2, <2>3, <2>4
<1>4. TrulySecure' = TrulySecure /\ SoaAboveAnchor' = SoaAboveAnchor
  BY <1>1, <1>3, TruthStands DEF TrulySecure, SoaAboveAnchor
<1>5. OutcomeSound'
  BY <1>1, <1>2, <1>3, <1>4, TruthStands DEF OutcomeSound
<1>6. TruthTyped' /\ TrustTyped'
  <2>1. ZoneTable(zones)'
    BY <1>1, NothingKnown, TablesAre
  <2>2. {} \in SUBSET States
    OBVIOUS
  <2> QED
    BY <1>1, <1>3, <2>1, <2>2, FramesStand DEF TrustInv, TrustTyped
<1>7. ReplySound'
  BY <1>1, <1>3 DEF ReplySound, TrustInv, Running
<1> QED
  BY <1>1, <1>3, <1>5, <1>6, <1>7 DEF TrustInv, CheckSound, States

\* The RRsets of an answer and the owners that have to be secure.
LEMMA OwnersAre ==
  ASSUME TrustInv, Finished, Running
  PROVE  /\ answer.kind # "denial" => (TrulySecure <=> \A o \in Kept(answer.kind, answer.soa) : IsSecure(o))
         /\ answer.kind = "denial" => (TrulySecure <=> IsSecure(Depth)) /\ Kept(answer.kind, answer.soa) = {answer.soa}
         /\ Remain = {} /\ Judged /\ results \in SUBSET States /\ answer.soa \in Names
         /\ results # {} /\ (honest /\ ~OutOfReach(Depth) => results \in SUBSET {"secure", "insecure"})
<1>1. /\ TrulySecure <=> \A o \in {Owners(answer.kind)[i] : i \in 1..Len(Owners(answer.kind))} : IsSecure(o)
  BY DEF TrulySecure
<1>2. Depth \in Names /\ Depth - 1 \in Names /\ answer.kind \in AnswerKinds /\ answer.soa \in Names
  BY KeptNames DEF TrustInv, TrustTyped, AnswerTypes
<1>3. answer.kind # "denial" =>
          {Owners(answer.kind)[i] : i \in 1..Len(Owners(answer.kind))} = Kept(answer.kind, answer.soa)
  BY <1>2, OneAndTwo DEF Owners, Kept, AnswerKinds
<1>4. answer.kind = "denial" =>
          /\ {Owners(answer.kind)[i] : i \in 1..Len(Owners(answer.kind))} = {Depth}
          /\ Kept(answer.kind, answer.soa) = {answer.soa}
  BY <1>2, OneAndTwo DEF Owners, Kept
<1>5. Remain = {}
  BY DEF Finished, Remain
<1>6. Judged /\ results \in SUBSET States
  BY DEF Finished, TrustInv, TrustTyped
<1>7. PICK o \in Kept(answer.kind, answer.soa) : TRUE
  BY DEF Kept
<1>8. results # {}
  BY <1>5, <1>6, <1>7 DEF Judged
<1> QED
  BY <1>1, <1>2, <1>3, <1>4, <1>5, <1>6, <1>8 DEF Judged

\* The conjunction of the verdicts is earned when every one is.
LEMMA CombinedSound ==
  ASSUME TrustInv, Finished, Running, NEW state, state = Combined(results),
         results # {"secure"} \/ answer.kind # "denial"
  PROVE  /\ state \in States
         /\ state = "secure" => TrulySecure /\ answer.kind # "denial"
         /\ state = "insecure" => ~TrulySecure \/ answer.optOut \/ SoaAboveAnchor
         /\ honest /\ ~OutOfReach(Depth) => state = IF TrulySecure THEN "secure" ELSE "insecure"
<1>1. /\ Remain = {} /\ Judged /\ results \in SUBSET States /\ results # {} /\ answer.soa \in Names
      /\ honest /\ ~OutOfReach(Depth) => results \in SUBSET {"secure", "insecure"}
  BY OwnersAre
<1>2. /\ state \in States
      /\ state = "secure" => results = {"secure"}
      /\ state = "insecure" => "insecure" \in results
      /\ results \in SUBSET {"secure", "insecure"} => state \in {"secure", "insecure"}
      /\ results = {"secure"} => state = "secure"
  BY <1>1 DEF Combined, States
<1>3. ASSUME results = {"secure"} PROVE TrulySecure /\ answer.kind # "denial"
  BY <1>1, <1>3, OwnersAre DEF Judged
<1>4. Depth \in Names /\ TruthTyped
  BY KeptNames DEF TrustInv
<1>5. ASSUME "insecure" \in results PROVE ~TrulySecure \/ answer.optOut \/ SoaAboveAnchor
  <2>1. CASE answer.kind # "denial"
    BY <1>1, <1>5, <2>1, OwnersAre DEF Judged
  <2>2. CASE answer.kind = "denial" /\ ~answer.optOut /\ ~SoaAboveAnchor
    <3>1. PICK o \in Kept(answer.kind, answer.soa) : ~IsSecure(o)
      BY <1>1, <1>5, <2>2 DEF Judged
    <3>2. ~IsSecure(answer.soa) /\ (TrulySecure <=> IsSecure(Depth))
      BY <2>2, <3>1, OwnersAre
    <3>3. PICK a : a = Anchor(Depth)
      OBVIOUS
    <3>4. a \in Names /\ a <= answer.soa /\ answer.soa <= Depth
      <4>1. a \in Nat /\ answer.soa \in Nat /\ answer.soa <= Depth /\ a \in Names
        BY <1>1, <1>4, <3>3, AnchorOfName, TrustAssumption DEF Names
      <4>2. ~(answer.soa < a)
        BY <2>2, <3>3 DEF SoaAboveAnchor
      <4> QED
        BY <4>1, <4>2
    <3> QED
      BY <1>1, <1>4, <3>2, <3>3, <3>4, SecureAbove
  <2> QED
    BY <2>1, <2>2
<1>6. ASSUME honest, ~OutOfReach(Depth) PROVE state = IF TrulySecure THEN "secure" ELSE "insecure"
  <2>1. state \in {"secure", "insecure"}
    BY <1>1, <1>2, <1>6
  <2>2. ASSUME state = "insecure" PROVE ~TrulySecure
    <3>1. "insecure" \in results /\ ~answer.optOut /\ (answer.kind = "denial" => answer.soa = ZoneOf(Depth))
      BY <1>1, <1>2, <1>6, <2>2 DEF Judged
    <3>2. ~SoaAboveAnchor
      <4>1. PICK a : a = Anchor(Depth)
        OBVIOUS
      <4>2. PICK y : y = ZoneOf(Depth)
        OBVIOUS
      <4>3. a \in Nat /\ y \in Nat /\ a <= y
        BY <1>4, <4>1, <4>2, AnchorOfName, ZoneOfName, AnchorInZone DEF Names
      <4>4. ~(y < a)
        BY <4>3
      <4> QED
        BY <3>1, <4>1, <4>2, <4>4 DEF SoaAboveAnchor
    <3> QED
      BY <1>5, <3>1, <3>2
  <2> QED
    BY <1>2, <1>3, <2>1, <2>2
<1> QED
  BY <1>2, <1>3, <1>5, <1>6

LEMMA Concluded ==
  ASSUME TrustInv, Finished, Running, Classified(Combined(results), FALSE),
         results # {"secure"} \/ answer.kind # "denial"
  PROVE  TrustInv'
<1>1. PICK state : state = Combined(results)
  OBVIOUS
<1>2. /\ state \in States
      /\ state = "secure" => TrulySecure /\ answer.kind # "denial"
      /\ state = "insecure" => ~TrulySecure \/ answer.optOut \/ SoaAboveAnchor
      /\ honest /\ ~OutOfReach(Depth) => state = IF TrulySecure THEN "secure" ELSE "insecure"
  BY <1>1, CombinedSound
<1>3. PICK b \in BOOLEAN : b <=> FALSE
  OBVIOUS
<1>4. Classified(state, b)
  BY <1>1, <1>3
<1> QED
  BY <1>2, <1>4, ClassifiedKeeps

LEMMA ConcludeKeeps == ASSUME TrustInv, Conclude PROVE TrustInv'
<1>1. Finished /\ answer.kind # "denial" /\ Classified(Combined(results), FALSE)
  BY DEF Conclude
<1> QED
  BY <1>1, Concluded DEF Classified

\* A verdict that a dishonest upstream can bring about.
LEMMA Misled ==
  ASSUME TrustInv, Finished, ~honest, NEW state \in {"bogus", "indeterminate"}, Classified(state, FALSE)
  PROVE  TrustInv'
<1>1. PICK b \in BOOLEAN : b <=> FALSE
  OBVIOUS
<1>2. Classified(state, b)
  BY <1>1
<1> QED
  BY <1>2, ClassifiedKeeps DEF States

LEMMA ConcludeDnameKeeps == ASSUME TrustInv, ConcludeDname PROVE TrustInv'
<1>1. Finished /\ answer.kind # "denial"
  BY DEF ConcludeDname
<1>2. CASE Classified(Combined(results), FALSE)
  BY <1>1, <1>2, Concluded DEF Classified
<1>3. CASE ~honest /\ Classified("bogus", FALSE)
  BY <1>1, <1>3, Misled
<1> QED
  BY <1>2, <1>3 DEF ConcludeDname

LEMMA ConcludeDenialKeeps == ASSUME TrustInv, ConcludeDenial PROVE TrustInv'
<1>1. Finished /\ answer.kind = "denial"
  BY DEF ConcludeDenial
<1>2. CASE results # {"secure"} /\ Classified(Combined(results), FALSE)
  BY <1>1, <1>2, Concluded DEF Classified
<1>3. CASE ~honest /\ \E state \in {"bogus", "indeterminate"} : Classified(state, FALSE)
  BY <1>1, <1>3, Misled
<1>4. CASE /\ results = {"secure"} /\ zones[answer.soa].state = "secure"
           /\ Verifies(zones[answer.soa], ZoneOf(Depth) = answer.soa) /\ Classified("secure", FALSE)
  <2>1. answer.soa \in Names /\ Depth \in Names /\ ZoneTable(zones) /\ TruthTyped
    BY KeptNames DEF TrustInv, TrustTyped, AnswerTypes
  <2>2. ZoneOf(Depth) = answer.soa /\ IsSecure(answer.soa)
    BY <1>4, <2>1, SecureVerifies
  <2>3. IsSecure(Depth)
    BY <2>1, <2>2, ZoneIsSecure
  <2>4. TrulySecure
    BY <1>1, <2>3, OwnersAre, <1>4 DEF Classified
  <2>5. PICK b \in BOOLEAN : b <=> FALSE
    OBVIOUS
  <2>6. Classified("secure", b)
    BY <1>4, <2>5
  <2>7. "secure" \in States
    BY DEF States
  <2> QED
    BY <1>1, <2>2, <2>4, <2>6, <2>7, ClassifiedKeeps
<1>5. CASE ~honest /\ Classified("insecure", TRUE)
  <2>1. PICK b \in BOOLEAN : b
    OBVIOUS
  <2>2. Classified("insecure", b)
    BY <1>5, <2>1
  <2>3. "insecure" \in States
    BY DEF States
  <2> QED
    BY <1>1, <1>5, <2>1, <2>2, <2>3, ClassifiedKeeps
<1> QED
  BY <1>2, <1>3, <1>4, <1>5 DEF ConcludeDenial

-----------------------------------------------------------------------------
\* The reply.
LEMMA RepliedKeeps ==
  ASSUME TrustInv, NEW kind \in {"servfail", "plain", "answer", "unchecked"}, NEW ad \in BOOLEAN, Replied(kind, ad),
         kind \in {"servfail", "plain"} => ~ad,
         ad => answer.state = "secure",
         kind = "answer" => answer.state \in {"secure", "insecure"} /\ (~ad => answer.state = "insecure")
  PROVE  TrustInv'
<1>1. /\ UNCHANGED <<truth, stack, memo, zones, todo, check, results, answer>>
      /\ reply' = [kind |-> kind, ad |-> ad]
  BY DEF Replied
<1>2. TruthTyped' /\ TrustTyped'
  BY <1>1, FramesStand DEF TrustInv, TrustTyped, AnswerTypes
<1>3. CheckSound'
  <2>1. check = NoCheck => (check = NoCheck)'
    BY <1>1
  <2>2. SignedSound(check) => SignedSound(check)'
    <3>1. SignedSound(check)' = SignedSound(check)
      BY <1>1, TruthStands DEF SignedSound, truth
    <3> QED
      BY <3>1
  <2>3. LookingSound(check, zones) => LookingSound(check, zones)'
    BY <1>1, TruthStands DEF LookingSound, truth
  <2> QED
    BY <1>1, <2>1, <2>2, <2>3 DEF TrustInv, CheckSound
<1>4. ReplySound'
  BY <1>1 DEF ReplySound
<1>5. OutcomeSound' = OutcomeSound
  BY <1>1, AnswerStands
<1> QED
  BY <1>1, <1>2, <1>3, <1>4, <1>5 DEF TrustInv, Running, Done

LEMMA FallbackKeeps == ASSUME TrustInv, Fallback PROVE TrustInv'
<1>1. PICK b \in BOOLEAN : ~b
  OBVIOUS
<1>2. Replied("servfail", b)
  BY <1>1 DEF Fallback
<1> QED
  BY <1>1, <1>2, RepliedKeeps

LEMMA PlainKeeps == ASSUME TrustInv, Plain PROVE TrustInv'
<1>1. PICK b \in BOOLEAN : ~b
  OBVIOUS
<1>2. Replied("plain", b)
  BY <1>1 DEF Plain
<1> QED
  BY <1>1, <1>2, RepliedKeeps

LEMMA RenderKeeps == ASSUME TrustInv, Render PROVE TrustInv'
<1>1. answer.state \in {"secure", "insecure", "bogus"}
  BY DEF Render, Done, States
<1>2. PICK cd \in BOOLEAN :
         IF answer.state = "bogus" /\ ~cd THEN Replied("servfail", FALSE)
         ELSE Replied(IF cd THEN "unchecked" ELSE "answer", answer.state = "secure")
  BY DEF Render
<1>3. CASE answer.state = "bogus" /\ ~cd
  <2>1. PICK b \in BOOLEAN : ~b
    OBVIOUS
  <2>2. Replied("servfail", b)
    BY <1>2, <1>3, <2>1
  <2> QED
    BY <2>1, <2>2, RepliedKeeps
<1>4. CASE ~(answer.state = "bogus" /\ ~cd)
  <2>1. PICK b \in BOOLEAN : b <=> answer.state = "secure"
    OBVIOUS
  <2>2. PICK kind : kind = IF cd THEN "unchecked" ELSE "answer"
    OBVIOUS
  <2>3. Replied(kind, b)
    BY <1>2, <1>4, <2>1, <2>2
  <2>4. kind \in {"answer", "unchecked"} /\ (kind = "answer" => answer.state # "bogus")
    BY <1>4, <2>2
  <2> QED
    BY <1>1, <2>1, <2>3, <2>4, RepliedKeeps
<1> QED
  BY <1>3, <1>4

LEMMA DeniedKeeps == ASSUME TrustInv, Denied PROVE TrustInv'
<1>1. /\ UNCHANGED <<truth, answer>> /\ reply' = [kind |-> "none at all", ad |-> FALSE]
      /\ stack' = <<>> /\ memo' = NoZones /\ zones' = NoZones
      /\ todo' = <<>> /\ check' = NoCheck /\ results' = {}
  BY DEF Denied
<1>2. TruthTyped' /\ ZoneTable(memo)' /\ ZoneTable(zones)'
  BY <1>1, VerdictStands, NothingKnown, TablesAre DEF TrustInv
<1>3. TrustTyped'
  <2>1. (stack \in Seq(SoundFrames))'
    <3>1. SoundFrames' = SoundFrames
      BY <1>1, VerdictStands
    <3>2. PICK F : F = SoundFrames
      OBVIOUS
    <3>3. <<>> \in Seq(F)
      OBVIOUS
    <3> QED
      BY <1>1, <3>1, <3>2, <3>3
  <2>4. (todo \in Seq(Names))' /\ (results \in SUBSET States)'
    <3>1. <<>> \in Seq(Names) /\ {} \in SUBSET States
      OBVIOUS
    <3> QED
      BY <1>1, <3>1 DEF Names, States
  <2>2. (answer \in AnswerTypes)'
    BY <1>1 DEF TrustInv, TrustTyped, AnswerTypes
  <2>3. (reply \in [kind : {"none", "none at all", "servfail", "plain", "answer", "unchecked"}, ad : BOOLEAN])'
    BY <1>1
  <2> QED
    BY <1>2, <2>1, <2>2, <2>3, <2>4 DEF TrustTyped
<1>4. ReplySound'
  BY <1>1 DEF ReplySound
<1>5. OutcomeSound' = OutcomeSound
  BY <1>1, AnswerStands
<1> QED
  BY <1>1, <1>2, <1>3, <1>4, <1>5 DEF TrustInv, CheckSound, Running, Done

-----------------------------------------------------------------------------
LEMMA TrustBegins == Init => TrustInv
<1> SUFFICES ASSUME Init PROVE TrustInv
  OBVIOUS
<1>1. TruthTyped
  BY DEF Init, TruthTyped, Cuts
<1>2. ZoneTable(memo) /\ ZoneTable(zones)
  BY NothingKnown DEF Init
<1>3. 0 \in Names
  BY TrustAssumption DEF Names
<1>4. answer = [kind |-> "none", state |-> "none", soa |-> 0, optOut |-> FALSE] /\ answer \in AnswerTypes
  BY <1>3 DEF Init, AnswerTypes, AnswerKinds
<1>5. reply = [kind |-> "none", ad |-> FALSE]
  BY DEF Init
<1>6. TrustTyped
  BY <1>2, <1>4, <1>5 DEF Init, TrustTyped
<1> QED
  BY <1>1, <1>4, <1>5, <1>6 DEF Init, TrustInv, CheckSound, ReplySound, Done, States

LEMMA TrustStep == ASSUME TrustInv, Next PROVE TrustInv'
<1>1. CASE AskKeys \/ AskDs \/ AskParent \/ DeniedByParent \/ DelegatedByParent \/ NoParentLeft
  BY <1>1, AskKeysKeeps, AskDsKeeps, AskParentKeeps, DeniedByParentKeeps, DelegatedByParentKeeps,
     NoParentLeftKeeps, AuthenticatesKeeps
<1>2. CASE Classify \/ BeginCheck \/ CheckSigner \/ SignersDone \/ Look \/ NearestZone \/ Establish
  BY <1>2, ClassifyKeeps, BeginCheckKeeps, CheckSignerKeeps, SignersDoneKeeps, LookKeeps,
     NearestZoneKeeps, EstablishKeeps
<1>3. CASE Conclude \/ ConcludeDname \/ ConcludeDenial
  BY <1>3, ConcludeKeeps, ConcludeDnameKeeps, ConcludeDenialKeeps
<1>4. CASE Plain \/ Denied \/ Fallback \/ Render
  BY <1>4, PlainKeeps, DeniedKeeps, FallbackKeeps, RenderKeeps
<1> QED
  BY <1>1, <1>2, <1>3, <1>4 DEF Next

LEMMA TrustStands == ASSUME TrustInv, UNCHANGED vars PROVE TrustInv'
<1>1. /\ UNCHANGED <<truth, stack, memo, zones, todo, check, results, answer, reply>>
  BY DEF vars
<1>2. TruthTyped' /\ TrustTyped'
  BY <1>1, FramesStand DEF TrustInv, TrustTyped, AnswerTypes
<1>3. CheckSound'
  <2>1. SignedSound(check) => SignedSound(check)'
    BY <1>1, TruthStands DEF SignedSound, truth
  <2>2. LookingSound(check, zones) => LookingSound(check, zones)'
    BY <1>1, TruthStands DEF LookingSound, truth
  <2> QED
    BY <1>1, <2>1, <2>2 DEF TrustInv, CheckSound
<1> QED
  BY <1>1, <1>2, <1>3, AnswerStands DEF TrustInv, Running, Done

LEMMA TrustMeans == ASSUME TrustInv PROVE TrustIsEarned
<1>1. ChainsAreReal
  <2>1. ASSUME NEW n \in Names, NEW m \in {memo, zones}
        PROVE  /\ m[n].state = "secure" => m[n].keys = "true" /\ IsApex(n) /\ IsSecure(n)
               /\ m[n].state = "insecure" => ~IsSecure(n)
    <3>1. ZoneTable(m)
      BY <2>1 DEF TrustInv, TrustTyped
    <3> QED
      BY <3>1, TableHas DEF VerdictSound, States
  <2> QED
    BY <2>1 DEF ChainsAreReal
<1>2. AnswersAreReal
  BY DEF TrustInv, ReplySound, OutcomeSound, AnswersAreReal, Done, States
<1>3. HonestIsUnderstood
  BY DEF TrustInv, OutcomeSound, HonestIsUnderstood
<1> QED
  BY <1>1, <1>2, <1>3 DEF TrustIsEarned

-----------------------------------------------------------------------------
(***************************************************************************)
(* DnssecDenial: what is denied is not there, and what is not there can be *)
(* denied.                                                                 *)
(***************************************************************************)

\* Names as sequences of labels.
Labels == Seq(Nat)
StartsWith(x, y) == Len(y) <= Len(x) /\ \A i \in 1..Len(y) : y[i] = x[i]

\* A name is below another when it starts with its labels.
LEMMA BelowIs ==
  ASSUME NEW x \in Labels, NEW y \in Labels
  PROVE  Denial!Below(x, y) <=> StartsWith(x, y)
<1>1. CASE Len(y) <= Len(x)
  <2>1. PICK z : z = SubSeq(x, 1, Len(y))
    OBVIOUS
  <2>2. z \in Labels /\ Len(z) = Len(y) /\ \A i \in 1..Len(y) : z[i] = x[i]
    BY <1>1, <2>1 DEF Labels
  <2>3. (\A i \in 1..Len(y) : y[i] = x[i]) => \A i \in 1..Len(z) : z[i] = y[i]
    BY <2>2
  <2>4. (\A i \in 1..Len(z) : z[i] = y[i]) => z = y
    BY <2>2, SeqEqual, Zenon DEF Labels
  <2>5. z = y => \A i \in 1..Len(y) : y[i] = x[i]
    BY <2>2
  <2> QED
    BY <1>1, <2>1, <2>3, <2>4, <2>5 DEF Denial!Below, StartsWith
<1>2. CASE ~(Len(y) <= Len(x))
  BY <1>2 DEF Denial!Below, StartsWith
<1> QED
  BY <1>1, <1>2

\* Names with the same labels are the same.
LEMMA SameName ==
  ASSUME NEW x \in Labels, NEW y \in Labels, Len(x) = Len(y), \A i \in 1..Len(x) : x[i] = y[i]
  PROVE  x = y
BY SeqEqual DEF Labels

\* Below is a partial order, and a line on the names above one name.
LEMMA BelowOrder ==
  ASSUME NEW x \in Labels, NEW y \in Labels
  PROVE  /\ Denial!Below(x, x) /\ Denial!Below(x, <<>>)
         /\ Denial!Below(x, y) => Len(y) <= Len(x) /\ (Len(x) = Len(y) => x = y) /\ (x # y => Len(y) < Len(x))
         /\ \A z \in Labels : Denial!Below(x, y) /\ Denial!Below(y, z) => Denial!Below(x, z)
         /\ \A z \in Labels : Denial!Below(x, y) /\ Denial!Below(x, z) /\ Len(z) <= Len(y) => Denial!Below(y, z)
<1>1. <<>> \in Labels /\ Len(x) \in Nat /\ Len(y) \in Nat
  BY DEF Labels
<1>2. Denial!Below(x, x) /\ Denial!Below(x, <<>>)
  BY <1>1, BelowIs DEF StartsWith
<1>3. ASSUME Denial!Below(x, y) PROVE Len(y) <= Len(x) /\ (Len(x) = Len(y) => x = y) /\ (x # y => Len(y) < Len(x))
  BY <1>1, <1>3, BelowIs, SameName DEF StartsWith
<1>4. ASSUME NEW z \in Labels, Denial!Below(x, y), Denial!Below(y, z) PROVE Denial!Below(x, z)
  <2>1. Len(z) \in Nat /\ StartsWith(x, y) /\ StartsWith(y, z)
    BY <1>4, BelowIs DEF Labels
  <2>2. StartsWith(x, z)
    BY <1>1, <2>1 DEF StartsWith
  <2> QED
    BY <2>2, BelowIs
<1>5. ASSUME NEW z \in Labels, Denial!Below(x, y), Denial!Below(x, z), Len(z) <= Len(y) PROVE Denial!Below(y, z)
  <2>1. Len(z) \in Nat /\ StartsWith(x, y) /\ StartsWith(x, z)
    BY <1>5, BelowIs DEF Labels
  <2>2. StartsWith(y, z)
    BY <1>1, <1>5, <2>1 DEF StartsWith
  <2> QED
    BY <2>2, BelowIs
<1> QED
  BY <1>2, <1>3, <1>4, <1>5

\* The ancestors of a name are the names it is below.
LEMMA AncestorsAre ==
  ASSUME NEW n \in Labels
  PROVE  \A x : x \in Denial!Ancestors(n) <=> x \in Labels /\ Denial!Below(n, x)
<1>1. ASSUME NEW k \in 0..Len(n)
      PROVE  SubSeq(n, 1, k) \in Labels /\ StartsWith(n, SubSeq(n, 1, k)) /\ Len(SubSeq(n, 1, k)) = k
             /\ \A i \in 1..k : SubSeq(n, 1, k)[i] = n[i]
  BY DEF Labels, StartsWith
<1>2. ASSUME NEW x \in Denial!Ancestors(n) PROVE x \in Labels /\ Denial!Below(n, x)
  <2>1. PICK k \in 0..Len(n) : x = SubSeq(n, 1, k)
    BY <1>2 DEF Denial!Ancestors
  <2> QED
    BY <1>1, <2>1, BelowIs
<1>3. ASSUME NEW x \in Labels, Denial!Below(n, x) PROVE x \in Denial!Ancestors(n)
  <2>1. StartsWith(n, x) /\ Len(x) \in 0..Len(n)
    BY <1>3, BelowIs DEF Labels, StartsWith
  <2>2. PICK y : y = SubSeq(n, 1, Len(x))
    OBVIOUS
  <2>3. y \in Labels /\ Len(y) = Len(x) /\ \A i \in 1..Len(x) : y[i] = n[i]
    BY <1>1, <2>1, <2>2
  <2>4. x = y
    BY <2>1, <2>3, SameName DEF StartsWith
  <2> QED
    BY <2>1, <2>2, <2>4 DEF Denial!Ancestors
<1> QED
  BY <1>2, <1>3

\* The next closer name: one label more than the encloser, and no name lies between them.
LEMMA CloserIs ==
  ASSUME NEW n \in Labels, NEW c \in Labels, Denial!Below(n, c), c # n
  PROVE  /\ Denial!Closer(n, c) \in Labels /\ Denial!Below(n, Denial!Closer(n, c)) /\ Len(Denial!Closer(n, c)) = Len(c) + 1
         /\ Denial!Below(Denial!Closer(n, c), c) /\ Denial!Closer(n, c) # c
         /\ \A x \in Labels : Denial!Below(n, x) => Denial!Below(c, x) \/ Denial!Below(x, Denial!Closer(n, c))
<1>1. Len(c) \in Nat /\ Len(n) \in Nat /\ Len(c) < Len(n)
  BY BelowOrder DEF Labels
<1>2. PICK y : y = Denial!Closer(n, c)
  OBVIOUS
<1>3. y \in Labels /\ Len(y) = Len(c) + 1 /\ \A i \in 1..Len(c) + 1 : y[i] = n[i]
  BY <1>1, <1>2 DEF Denial!Closer, Labels
<1>4. Denial!Below(n, y)
  BY <1>1, <1>3, BelowIs DEF StartsWith
<1>5. Denial!Below(y, c) /\ y # c
  BY <1>1, <1>3, <1>4, BelowOrder
<1>6. ASSUME NEW x \in Labels, Denial!Below(n, x) PROVE Denial!Below(c, x) \/ Denial!Below(x, y)
  <2>1. Len(x) \in Nat
    BY DEF Labels
  <2>2. CASE Len(x) <= Len(c)
    BY <1>6, <2>2, BelowOrder
  <2>3. CASE Len(y) <= Len(x)
    BY <1>3, <1>4, <1>6, <2>3, BelowOrder
  <2> QED
    BY <1>1, <1>3, <2>1, <2>2, <2>3
<1> QED
  BY <1>2, <1>3, <1>4, <1>5, <1>6

\* The wildcard of a name: one label more, and no name lies between them.
LEMMA StarIs ==
  ASSUME NEW c \in Labels
  PROVE  /\ Denial!Star(c) \in Labels /\ Len(Denial!Star(c)) = Len(c) + 1 /\ Denial!Below(Denial!Star(c), c) /\ Denial!Star(c) # c
         /\ Denial!Parent(Denial!Star(c)) = c
         /\ \A x \in Labels : Denial!Below(Denial!Star(c), x) => x = Denial!Star(c) \/ Denial!Below(c, x)
<1>1. PICK s : s = Denial!Star(c)
  OBVIOUS
<1>2. s \in Labels /\ Len(s) = Len(c) + 1 /\ Len(c) \in Nat /\ \A i \in 1..Len(c) : s[i] = c[i]
  BY <1>1 DEF Denial!Star, Labels
<1>3. Denial!Below(s, c) /\ s # c
  BY <1>2, BelowIs DEF StartsWith
<1>4. Denial!Parent(s) = c
  <2>1. PICK q : q = SubSeq(s, 1, Len(c))
    OBVIOUS
  <2>2. q \in Labels /\ Len(q) = Len(c) /\ \A i \in 1..Len(c) : q[i] = s[i]
    BY <1>2, <2>1 DEF Labels
  <2>3. q = c
    BY <1>2, <2>2, SameName
  <2> QED
    BY <1>2, <2>1, <2>3 DEF Denial!Parent
<1>5. ASSUME NEW x \in Labels, Denial!Below(s, x), x # s PROVE Denial!Below(c, x)
  <2>1. Len(x) \in Nat /\ Len(x) < Len(s)
    BY <1>2, <1>5, BelowOrder DEF Labels
  <2> QED
    BY <1>2, <1>3, <1>5, <2>1, BelowOrder
<1> QED
  BY <1>1, <1>2, <1>3, <1>4, <1>5

\* The deepest of some ancestors.
LEMMA DeepestIs ==
  ASSUME NEW n \in Labels, NEW S, S \subseteq Denial!Ancestors(n), S # {}
  PROVE  Denial!Deepest(S) \in S /\ \A y \in S : Len(y) <= Len(Denial!Deepest(S))
<1>1. \A x \in S : x \in Labels /\ Len(x) \in Nat /\ Len(n) \in Nat /\ Len(x) <= Len(n)
  BY AncestorsAre, BelowOrder DEF Labels
<1>2. PICK N : N = {Len(x) : x \in S}
  OBVIOUS
<1>3. N \in SUBSET Nat /\ N # {} /\ Len(n) \in Nat /\ \A k \in N : k <= Len(n)
  BY <1>1, <1>2
<1>4. PICK k \in N : \A j \in N : j <= k
  BY <1>3, GreatestExists
<1>5. PICK x \in S : k = Len(x)
  BY <1>2, <1>4
<1>6. \E m \in S : \A y \in S : Len(y) <= Len(m)
  BY <1>2, <1>4, <1>5
<1> QED
  BY <1>6 DEF Denial!Deepest

\* The canonical order.
Differ(x, y, i) == /\ i \in 1..Len(x) /\ i <= Len(y) /\ x[i] < y[i]
                   /\ \A j \in 1..(i - 1) : x[j] = y[j]

\* The canonical order, by the first label in which two names differ.
LEMMA BeforeIs ==
  ASSUME NEW x \in Labels, NEW y \in Labels
  PROVE  Denial!Before(x, y) <=> (Denial!Below(y, x) /\ x # y) \/ \E i \in Nat : Differ(x, y, i)
<1>1. ASSUME NEW i \in 1..Len(x), i <= Len(y)
      PROVE  SubSeq(x, 1, i - 1) = SubSeq(y, 1, i - 1) <=> \A j \in 1..(i - 1) : x[j] = y[j]
  <2>1. PICK k : k = i - 1
    OBVIOUS
  <2>2. k \in Nat /\ k <= Len(x) /\ k <= Len(y) /\ Len(x) \in Nat /\ Len(y) \in Nat
    BY <1>1, <2>1 DEF Labels
  <2>3. PICK p : p = SubSeq(x, 1, k)
    OBVIOUS
  <2>4. PICK q : q = SubSeq(y, 1, k)
    OBVIOUS
  <2>5. p \in Labels /\ Len(p) = k /\ \A j \in 1..k : p[j] = x[j]
    BY <2>2, <2>3 DEF Labels
  <2>6. q \in Labels /\ Len(q) = k /\ \A j \in 1..k : q[j] = y[j]
    BY <2>2, <2>4 DEF Labels
  <2>7. p = q <=> \A j \in 1..k : x[j] = y[j]
    BY <2>5, <2>6, SameName
  <2> QED
    BY <2>1, <2>3, <2>4, <2>7
<1>2. (\E i \in 1..Len(x) : i <= Len(y) /\ SubSeq(x, 1, i - 1) = SubSeq(y, 1, i - 1) /\ x[i] < y[i])
         <=> \E i \in Nat : Differ(x, y, i)
  BY <1>1 DEF Differ, Labels
<1> QED
  BY <1>2 DEF Denial!Before, Denial!Below

\* The canonical order is transitive.
LEMMA BeforeTransitive ==
  ASSUME NEW x \in Labels, NEW y \in Labels, NEW z \in Labels, Denial!Before(x, y), Denial!Before(y, z)
  PROVE  Denial!Before(x, z)
<1>0. Len(x) \in Nat /\ Len(y) \in Nat /\ Len(z) \in Nat
      /\ (\A i \in 1..Len(x) : x[i] \in Nat) /\ (\A i \in 1..Len(y) : y[i] \in Nat) /\ (\A i \in 1..Len(z) : z[i] \in Nat)
  BY DEF Labels
<1>1. CASE Denial!Below(y, x) /\ x # y /\ Denial!Below(z, y) /\ y # z
  <2>1. Denial!Below(z, x) /\ Len(x) < Len(y) /\ Len(y) < Len(z)
    BY <1>1, BelowOrder
  <2> QED
    BY <1>0, <2>1, BeforeIs
<1>2. CASE Denial!Below(y, x) /\ x # y /\ \E i \in Nat : Differ(y, z, i)
  <2>1. PICK i \in Nat : Differ(y, z, i)
    BY <1>2
  <2>2. StartsWith(y, x)
    BY <1>2, BelowIs
  <2>3. CASE i <= Len(x)
    <3>1. Differ(x, z, i)
      BY <1>0, <2>1, <2>2, <2>3 DEF Differ, StartsWith
    <3> QED
      BY <3>1, BeforeIs
  <2>4. CASE ~(i <= Len(x))
    <3>1. StartsWith(z, x) /\ Len(x) < Len(z)
      BY <1>0, <2>1, <2>2, <2>4 DEF Differ, StartsWith
    <3> QED
      BY <1>0, <3>1, BelowIs, BeforeIs
  <2> QED
    BY <2>3, <2>4
<1>3. CASE (\E i \in Nat : Differ(x, y, i)) /\ Denial!Below(z, y) /\ y # z
  <2>1. PICK i \in Nat : Differ(x, y, i)
    BY <1>3
  <2>2. StartsWith(z, y)
    BY <1>3, BelowIs
  <2>3. Differ(x, z, i)
    BY <1>0, <2>1, <2>2 DEF Differ, StartsWith
  <2> QED
    BY <2>3, BeforeIs
<1>4. CASE (\E i \in Nat : Differ(x, y, i)) /\ \E i \in Nat : Differ(y, z, i)
  <2>1. PICK i \in Nat : Differ(x, y, i)
    BY <1>4
  <2>2. PICK k \in Nat : Differ(y, z, k)
    BY <1>4
  <2>3. CASE i <= k
    <3>1. i <= Len(z) /\ (\A j \in 1..(i - 1) : x[j] = z[j])
      BY <1>0, <2>1, <2>2, <2>3 DEF Differ
    <3>2. x[i] < z[i]
      <4>1. y[i] <= z[i]
        BY <1>0, <2>1, <2>2, <2>3 DEF Differ
      <4>2. x[i] \in Nat /\ y[i] \in Nat /\ z[i] \in Nat /\ x[i] < y[i]
        BY <1>0, <2>1, <3>1 DEF Differ
      <4> QED
        BY <4>1, <4>2
    <3>3. Differ(x, z, i)
      BY <2>1, <3>1, <3>2 DEF Differ
    <3> QED
      BY <3>3, BeforeIs
  <2>4. CASE ~(i <= k)
    <3>1. Differ(x, z, k)
      BY <1>0, <2>1, <2>2, <2>4 DEF Differ
    <3> QED
      BY <3>1, BeforeIs
  <2> QED
    BY <2>3, <2>4
<1> QED
  BY <1>1, <1>2, <1>3, <1>4, BeforeIs

\* No name comes before itself.
LEMMA BeforeStrict == ASSUME NEW x \in Labels PROVE ~Denial!Before(x, x)
<1>1. \A i \in 1..Len(x) : x[i] \in Nat
  BY DEF Labels
<1> QED
  BY <1>1, BeforeIs DEF Differ

\* Of two names one comes before the other.
LEMMA BeforeTotal ==
  ASSUME NEW x \in Labels, NEW y \in Labels, x # y
  PROVE  Denial!Before(x, y) \/ Denial!Before(y, x)
<1>0. Len(x) \in Nat /\ Len(y) \in Nat
      /\ (\A i \in 1..Len(x) : x[i] \in Nat) /\ (\A i \in 1..Len(y) : y[i] \in Nat)
  BY DEF Labels
<1>1. PICK D : D = {i \in 1..Len(x) : i <= Len(y) /\ x[i] # y[i]}
  OBVIOUS
<1>2. CASE D = {}
  <2>1. StartsWith(x, y) \/ StartsWith(y, x)
    BY <1>0, <1>1, <1>2 DEF StartsWith
  <2> QED
    BY <2>1, BelowIs, BeforeIs
<1>3. CASE D # {}
  <2>1. PICK i \in D : \A j \in D : i <= j
    <3>1. D \in SUBSET Nat
      BY <1>0, <1>1
    <3> QED
      BY <1>3, <3>1, LeastExists
  <2>2. i \in 1..Len(x) /\ i <= Len(y) /\ x[i] # y[i]
    BY <1>1, <2>1
  <2>3. \A j \in 1..(i - 1) : x[j] = y[j]
    <3> SUFFICES ASSUME NEW j \in 1..(i - 1), x[j] # y[j] PROVE FALSE
      OBVIOUS
    <3>1. j \in D /\ j < i
      BY <1>0, <1>1, <2>2
    <3> QED
      BY <1>0, <2>1, <2>2, <3>1
  <2>4. Differ(x, y, i) \/ Differ(y, x, i)
    BY <1>0, <2>2, <2>3 DEF Differ
  <2>5. i \in Nat
    BY <1>0, <2>2
  <2> QED
    BY <2>4, <2>5, BeforeIs
<1> QED
  BY <1>2, <1>3

\* The apex comes before every other name.
LEMMA ApexFirst == ASSUME NEW x \in Labels, x # <<>> PROVE Denial!Before(<<>>, x)
<1>1. <<>> \in Labels
  BY DEF Labels
<1> QED
  BY <1>1, BelowOrder, BeforeIs

\* What comes between a name and another below it is below it too.
LEMMA Between ==
  ASSUME NEW p \in Labels, NEW w \in Labels, NEW y \in Labels, Denial!Below(y, p), Denial!Before(p, w), w = y \/ Denial!Before(w, y)
  PROVE  Denial!Below(w, p)
<1>1. CASE w = y
  BY <1>1
<1>2. CASE Denial!Below(w, p)
  BY <1>2
<1>3. CASE Denial!Before(w, y) /\ ~Denial!Below(w, p)
  <2>0. Len(p) \in Nat /\ Len(w) \in Nat /\ Len(y) \in Nat
    BY DEF Labels
  <2>1. PICK i \in Nat : Differ(p, w, i)
    BY <1>3, BeforeIs
  <2>2. StartsWith(y, p)
    BY BelowIs
  <2>3. Differ(y, w, i)
    BY <2>0, <2>1, <2>2 DEF Differ, StartsWith
  <2>4. Denial!Before(y, w)
    BY <2>3, BeforeIs
  <2> QED
    BY <1>3, <2>4, BeforeTransitive, BeforeStrict
<1> QED
  BY <1>1, <1>2, <1>3

\* The order of the records.
Universe == {x \in Labels : x \in DOMAIN Hash}

\* The order of the records is a strict total order, by name and by hash.
LEMMA PrecedesOrder ==
  ASSUME NEW x \in Universe, NEW y \in Universe
  PROVE  /\ ~Denial!Precedes(x, x)
         /\ x # y => Denial!Precedes(x, y) \/ Denial!Precedes(y, x)
         /\ Denial!Precedes(x, y) => ~Denial!Precedes(y, x)
         /\ \A z \in Universe : Denial!Precedes(x, y) /\ Denial!Precedes(y, z) => Denial!Precedes(x, z)
<1>1. CASE style = "nsec"
  <2>1. x \in Labels /\ y \in Labels
    BY DEF Universe
  <2>2. ASSUME NEW z \in Universe, Denial!Before(x, y), Denial!Before(y, z) PROVE Denial!Before(x, z)
    BY <2>1, <2>2, BeforeTransitive DEF Universe
  <2>3. Denial!Before(x, y) => ~Denial!Before(y, x)
    BY <2>1, BeforeTransitive, BeforeStrict
  <2> QED
    BY <1>1, <2>1, <2>2, <2>3, BeforeStrict, BeforeTotal DEF Denial!Precedes
<1>2. CASE style # "nsec"
  <2>1. \A z \in Universe : Hash[z] \in Nat
    BY DenialAssumption DEF Universe
  <2>2. x # y => Hash[x] # Hash[y]
    BY DenialAssumption DEF Universe
  <2> QED
    BY <1>2, <2>1, <2>2 DEF Denial!Precedes
<1> QED
  BY <1>1, <1>2

\* The names before a member of a finite set, the fewer the earlier it comes.
LEMMA FewerBefore ==
  ASSUME NEW S, S \subseteq Universe, IsFiniteSet(S), NEW x \in S, NEW y \in S, Denial!Precedes(y, x)
  PROVE  /\ Cardinality({w \in S : Denial!Precedes(w, y)}) \in Nat /\ Cardinality({w \in S : Denial!Precedes(w, x)}) \in Nat
         /\ Cardinality({w \in S : Denial!Precedes(w, y)}) < Cardinality({w \in S : Denial!Precedes(w, x)})
<1>1. PICK Y : Y = {w \in S : Denial!Precedes(w, y)}
  OBVIOUS
<1>2. PICK X : X = {w \in S : Denial!Precedes(w, x)}
  OBVIOUS
<1>3. IsFiniteSet(X) /\ Cardinality(X) \in Nat
  BY <1>2, FS_Subset, FS_CardinalityType
<1>4. Y \subseteq X /\ y \in X /\ y \notin Y
  BY <1>1, <1>2, PrecedesOrder
<1>5. IsFiniteSet(Y) /\ Cardinality(Y) \in Nat /\ Cardinality(Y) <= Cardinality(X) /\ Cardinality(Y) # Cardinality(X)
  BY <1>3, <1>4, FS_Subset, FS_CardinalityType
<1> QED
  BY <1>1, <1>2, <1>3, <1>5

\* A finite set of names has a first one.
LEMMA FirstExists ==
  ASSUME NEW S, S \subseteq Universe, IsFiniteSet(S), S # {}
  PROVE  Denial!First(S) \in S /\ \A y \in S \ {Denial!First(S)} : Denial!Precedes(Denial!First(S), y)
<1>1. PICK N : N = {Cardinality({w \in S : Denial!Precedes(w, x)}) : x \in S}
  OBVIOUS
<1>2. N \in SUBSET Nat /\ N # {}
  <2>1. \A x \in S : Cardinality({w \in S : Denial!Precedes(w, x)}) \in Nat
    <3> TAKE x \in S
    <3>1. PICK X : X = {w \in S : Denial!Precedes(w, x)}
      OBVIOUS
    <3>2. IsFiniteSet(X)
      BY <3>1, FS_Subset
    <3> QED
      BY <3>1, <3>2, FS_CardinalityType
  <2> QED
    BY <1>1, <2>1
<1>3. PICK k \in N : \A j \in N : k <= j
  BY <1>2, LeastExists
<1>4. PICK x \in S : k = Cardinality({w \in S : Denial!Precedes(w, x)})
  BY <1>1, <1>3
<1>5. ASSUME NEW y \in S \ {x} PROVE Denial!Precedes(x, y)
  <2>1. CASE Denial!Precedes(y, x)
    <3>1. PICK j : j = Cardinality({w \in S : Denial!Precedes(w, y)})
      OBVIOUS
    <3>2. j \in N /\ j < k /\ j \in Nat /\ k \in Nat
      BY <1>1, <1>4, <2>1, <3>1, FewerBefore
    <3> QED
      BY <1>3, <3>2
  <2> QED
    BY <2>1, <1>5, PrecedesOrder
<1> QED
  BY <1>5 DEF Denial!First

\* A finite set of names has a last one.
LEMMA LastExists ==
  ASSUME NEW S, S \subseteq Universe, IsFiniteSet(S), S # {}
  PROVE  \E x \in S : \A y \in S \ {x} : Denial!Precedes(y, x)
<1>0. IsFiniteSet(S) /\ Cardinality(S) \in Nat
  BY FS_CardinalityType
<1>1. PICK N : N = {Cardinality({w \in S : Denial!Precedes(w, x)}) : x \in S}
  OBVIOUS
<1>2. N \in SUBSET Nat /\ N # {} /\ \A j \in N : j <= Cardinality(S)
  <2>1. \A x \in S : /\ Cardinality({w \in S : Denial!Precedes(w, x)}) \in Nat
                     /\ Cardinality({w \in S : Denial!Precedes(w, x)}) <= Cardinality(S)
    <3> TAKE x \in S
    <3>1. PICK X : X = {w \in S : Denial!Precedes(w, x)}
      OBVIOUS
    <3>2. IsFiniteSet(X) /\ Cardinality(X) <= Cardinality(S)
      BY <3>1, FS_Subset
    <3> QED
      BY <3>1, <3>2, FS_CardinalityType
  <2> QED
    BY <1>1, <2>1
<1>3. PICK k \in N : \A j \in N : j <= k
  BY <1>0, <1>2, GreatestExists
<1>4. PICK x \in S : k = Cardinality({w \in S : Denial!Precedes(w, x)})
  BY <1>1, <1>3
<1>5. ASSUME NEW y \in S \ {x} PROVE Denial!Precedes(y, x)
  <2>1. CASE Denial!Precedes(x, y)
    <3>1. PICK j : j = Cardinality({w \in S : Denial!Precedes(w, y)})
      OBVIOUS
    <3>2. j \in N /\ k < j /\ j \in Nat /\ k \in Nat
      BY <1>1, <1>4, <2>1, <3>1, FewerBefore
    <3> QED
      BY <1>3, <3>2
  <2> QED
    BY <2>1, <1>5, PrecedesOrder
<1> QED
  BY <1>5

\* The zone is lawful and its records are what is shown.
DenialInv == zone \in Denial!Zones /\ style \in {"nsec", "nsec3", "optout"} /\ shown \subseteq Denial!Chain

\* What a zone may hold at a name.
LEMMA ZoneIs ==
  ASSUME zone \in Denial!Zones, NEW x \in ZoneNames
  PROVE  /\ x \in Labels /\ Denial!Types(x) = zone[x] /\ x \in Universe /\ Denial!Ancestors(x) \subseteq ZoneNames
         /\ "SOA" \in zone[x] <=> x = <<>>
         /\ Denial!IsCut(zone[x]) => "DNAME" \notin zone[x]
         /\ (\E y \in ZoneNames : x = Denial!Star(y)) => "NS" \notin zone[x]
         /\ \A y \in ZoneNames : zone[x] # {} /\ Denial!Below(x, y) /\ x # y => ~Denial!IsCut(zone[y]) /\ "DNAME" \notin zone[y]
<1>1. x \in Labels /\ x \in Universe /\ zone[x] \in Contents[x]
  BY DenialAssumption DEF Labels, Universe, Denial!Zones
<1>2. ASSUME NEW y \in ZoneNames, zone[x] # {}, Denial!Below(x, y), x # y PROVE ~Denial!IsCut(zone[y]) /\ "DNAME" \notin zone[y]
  <2>1. y \in Denial!Ancestors(x) \ {x}
    BY <1>1, <1>2, AncestorsAre, DenialAssumption DEF Labels
  <2> QED
    BY <1>2, <2>1 DEF Denial!Zones, Denial!Lawful
<1> QED
  BY <1>1, <1>2, DenialAssumption DEF Denial!Types

\* What exists or is kept makes what is above it exist or be kept.
LEMMA ExistsUpward ==
  ASSUME NEW x \in Labels, NEW y \in Labels, Denial!Below(x, y)
  PROVE  (Denial!Exists(x) => Denial!Exists(y)) /\ (Denial!Kept(x) => Denial!Kept(y)) /\ (Denial!Kept(x) => Denial!Exists(x))
<1>1. \A w \in ZoneNames : w \in Labels
  BY DenialAssumption DEF Labels
<1>2. \A w \in ZoneNames : Denial!Below(w, x) => Denial!Below(w, y)
  BY <1>1, BelowOrder
<1> QED
  BY <1>2 DEF Denial!Exists, Denial!Kept

\* The owners of the records: the names with types, the names that exist, or those kept.
LEMMA ChainIs ==
  ASSUME DenialInv
  PROVE  /\ Denial!Chain \subseteq ZoneNames /\ Denial!Chain \subseteq Universe /\ IsFiniteSet(Denial!Chain) /\ <<>> \in Denial!Chain
         /\ \A x \in Denial!Chain : x \in Labels /\ Denial!Exists(x)
         /\ style = "nsec" => \A x \in Labels : x \in Denial!Chain <=> Denial!Types(x) # {}
         /\ style = "nsec3" => \A x \in Labels : x \in Denial!Chain <=> Denial!Exists(x)
         /\ style = "optout" => \A x \in Labels : x \in Denial!Chain <=> Denial!Kept(x)
<1>1. Denial!Chain \subseteq ZoneNames
  BY DEF Denial!Chain, DenialInv
<1>2. Denial!Chain \subseteq Universe /\ IsFiniteSet(Denial!Chain) /\ \A x \in Denial!Chain : x \in Labels
  BY <1>1, DenialAssumption, FS_Subset, ZoneIs DEF DenialInv
<1>3. \A x \in Labels : Denial!Exists(x) => x \in ZoneNames
  <2> TAKE x \in Labels
  <2> HAVE Denial!Exists(x)
  <2>1. PICK y \in ZoneNames : Denial!Below(y, x)
    BY DEF Denial!Exists
  <2>2. y \in Labels /\ Denial!Ancestors(y) \subseteq ZoneNames
    BY ZoneIs DEF DenialInv
  <2> QED
    BY <2>1, <2>2, AncestorsAre
<1>4. \A x \in Labels : Denial!Kept(x) => Denial!Exists(x)
  BY DEF Denial!Kept, Denial!Exists
<1>5. <<>> \in ZoneNames /\ "SOA" \in zone[<<>>] /\ <<>> \in Labels
  BY DenialAssumption, ZoneIs DEF DenialInv
<1>6. Denial!Exists(<<>>) /\ Denial!Kept(<<>>)
  <2>1. Denial!Below(<<>>, <<>>)
    BY <1>5, BelowOrder
  <2> QED
    BY <1>5, <2>1 DEF Denial!Exists, Denial!Kept, Denial!UnsignedCut, Denial!IsCut
<1>7. <<>> \in Denial!Chain
  BY <1>5, <1>6 DEF Denial!Chain, DenialInv
<1>8. CASE style = "nsec"
  <2>1. Denial!Chain = {x \in ZoneNames : zone[x] # {}}
    BY <1>8 DEF Denial!Chain
  <2>2. \A x \in Labels : x \in Denial!Chain <=> Denial!Types(x) # {}
    BY <2>1 DEF Denial!Types
  <2>3. \A x \in Denial!Chain : Denial!Exists(x)
    BY <1>2, <2>1, BelowOrder DEF Denial!Exists
  <2> QED
    BY <1>1, <1>2, <1>7, <1>8, <2>2, <2>3
<1>9. CASE style = "nsec3"
  <2>1. Denial!Chain = {x \in ZoneNames : Denial!Exists(x)}
    BY <1>9 DEF Denial!Chain
  <2> QED
    BY <1>1, <1>2, <1>3, <1>7, <1>9, <2>1
<1>10. CASE style = "optout"
  <2>1. Denial!Chain = {x \in ZoneNames : Denial!Kept(x)}
    BY <1>10 DEF Denial!Chain
  <2> QED
    BY <1>1, <1>2, <1>3, <1>4, <1>7, <1>10, <2>1
<1> QED
  BY <1>8, <1>9, <1>10 DEF DenialInv

\* The next owner is the least after a record, or the least of all after the last.
LEMMA FollowingIs ==
  ASSUME DenialInv, NEW x \in Denial!Chain
  PROVE  /\ Denial!Following(x) \in Denial!Chain /\ Denial!Following(x) \in Universe /\ x \in Universe
         /\ \/ /\ Denial!Precedes(x, Denial!Following(x))
               /\ \A y \in Denial!Chain : Denial!Precedes(x, y) => y = Denial!Following(x) \/ Denial!Precedes(Denial!Following(x), y)
            \/ /\ \A y \in Denial!Chain : ~Denial!Precedes(x, y)
               /\ \A y \in Denial!Chain : y = Denial!Following(x) \/ Denial!Precedes(Denial!Following(x), y)
<1>1. Denial!Chain \subseteq Universe /\ IsFiniteSet(Denial!Chain)
  BY ChainIs
<1>2. PICK L : L = {y \in Denial!Chain : Denial!Precedes(x, y)}
  OBVIOUS
<1>3. L \subseteq Denial!Chain /\ IsFiniteSet(L)
  BY <1>1, <1>2, FS_Subset
<1>4. Denial!Following(x) = Denial!First(IF L = {} THEN Denial!Chain ELSE L)
  BY <1>2 DEF Denial!Following
<1>5. CASE L = {}
  <2>1. Denial!Following(x) \in Denial!Chain /\ \A y \in Denial!Chain \ {Denial!Following(x)} : Denial!Precedes(Denial!Following(x), y)
    BY <1>1, <1>4, <1>5, FirstExists
  <2> QED
    BY <1>1, <1>2, <1>5, <2>1
<1>6. CASE L # {}
  <2>1. Denial!Following(x) \in L /\ \A y \in L \ {Denial!Following(x)} : Denial!Precedes(Denial!Following(x), y)
    BY <1>1, <1>3, <1>4, <1>6, FirstExists
  <2> QED
    BY <1>1, <1>2, <1>3, <2>1
<1> QED
  BY <1>5, <1>6

\* Between a record's owner and the next there is none.
LEMMA SpanIsGap ==
  ASSUME DenialInv, NEW x \in Denial!Chain, NEW n \in Universe, Denial!Spans(x, n)
  PROVE  /\ n \notin Denial!Chain
         /\ \A y \in Denial!Chain : Denial!Precedes(n, y) =>
                Denial!Precedes(n, Denial!Following(x)) /\ (y = Denial!Following(x) \/ Denial!Precedes(Denial!Following(x), y))
         /\ \A y \in Denial!Chain : Denial!Precedes(y, n) => Denial!Precedes(x, n) /\ (y = x \/ Denial!Precedes(y, x))
<1>1. PICK f : f = Denial!Following(x)
  OBVIOUS
<1>2. f \in Denial!Chain /\ f \in Universe /\ x \in Universe /\ Denial!Chain \subseteq Universe
  BY <1>1, FollowingIs, ChainIs
<1>3. /\ n # x /\ n # f
      /\ \/ Denial!Precedes(x, n) /\ Denial!Precedes(n, f)
         \/ Denial!Precedes(f, x) /\ (Denial!Precedes(x, n) \/ Denial!Precedes(n, f))
         \/ x = f
  BY <1>1 DEF Denial!Spans
<1>4. \/ Denial!Precedes(x, f) /\ \A y \in Denial!Chain : Denial!Precedes(x, y) => y = f \/ Denial!Precedes(f, y)
      \/ (\A y \in Denial!Chain : ~Denial!Precedes(x, y)) /\ \A y \in Denial!Chain : y = f \/ Denial!Precedes(f, y)
  BY <1>1, FollowingIs
<1>5. CASE Denial!Precedes(x, n) /\ Denial!Precedes(n, f)
  <2>1. Denial!Precedes(x, f)
    BY <1>2, <1>5, PrecedesOrder
  <2>2. \A y \in Denial!Chain : Denial!Precedes(x, y) => y = f \/ Denial!Precedes(f, y)
    BY <1>2, <1>4, <2>1
  <2>3. ASSUME NEW y \in Denial!Chain, y = n \/ Denial!Precedes(n, y) PROVE y # n /\ (y = f \/ Denial!Precedes(f, y))
    BY <1>2, <1>5, <2>2, <2>3, PrecedesOrder
  <2>4. ASSUME NEW y \in Denial!Chain, Denial!Precedes(y, n) PROVE y = x \/ Denial!Precedes(y, x)
    BY <1>2, <1>5, <2>2, <2>4, PrecedesOrder
  <2> QED
    BY <1>1, <1>5, <2>3, <2>4
<1>6. CASE (\A y \in Denial!Chain : ~Denial!Precedes(x, y)) /\ \A y \in Denial!Chain : y = f \/ Denial!Precedes(f, y)
  <2>0. \A y \in Denial!Chain : y = x \/ Denial!Precedes(y, x)
    BY <1>2, <1>6, PrecedesOrder
  <2>1. Denial!Precedes(x, n) \/ Denial!Precedes(n, f) \/ x = f
    BY <1>3
  <2>2. n \notin Denial!Chain
    BY <1>2, <1>3, <1>6, <2>1, PrecedesOrder
  <2>3. ASSUME NEW y \in Denial!Chain, Denial!Precedes(n, y) PROVE Denial!Precedes(n, f)
    <3>1. y = x \/ Denial!Precedes(y, x)
      BY <2>0
    <3>2. Denial!Precedes(n, x)
      BY <1>2, <2>3, <3>1, PrecedesOrder
    <3>3. ~Denial!Precedes(x, n)
      BY <1>2, <3>2, PrecedesOrder
    <3> QED
      BY <2>1, <3>2, <3>3
  <2>4. ASSUME NEW y \in Denial!Chain, Denial!Precedes(y, n) PROVE Denial!Precedes(x, n)
    <3>1. y = f \/ Denial!Precedes(f, y)
      BY <1>6
    <3>2. Denial!Precedes(f, n)
      BY <1>2, <2>4, <3>1, PrecedesOrder
    <3>3. ~Denial!Precedes(n, f)
      BY <1>2, <3>2, PrecedesOrder
    <3> QED
      BY <2>1, <3>2, <3>3
  <2> QED
    BY <1>1, <1>6, <2>0, <2>2, <2>3, <2>4
<1>7. CASE Denial!Precedes(x, f) /\ ~(Denial!Precedes(x, n) /\ Denial!Precedes(n, f))
  <2>1. ~Denial!Precedes(f, x) /\ x # f
    BY <1>2, <1>7, PrecedesOrder
  <2> QED
    BY <1>3, <1>7, <2>1
<1> QED
  BY <1>4, <1>5, <1>6, <1>7

\* A name without a record lies between two.
LEMMA GapIsSpanned ==
  ASSUME DenialInv, NEW n \in Universe, n \notin Denial!Chain
  PROVE  \E x \in Denial!Chain :
            /\ n \notin {x, Denial!Following(x)}
            /\ \/ Denial!Precedes(x, n) /\ Denial!Precedes(n, Denial!Following(x))
               \/ Denial!Precedes(Denial!Following(x), x) /\ (Denial!Precedes(x, n) \/ Denial!Precedes(n, Denial!Following(x)))
               \/ x = Denial!Following(x)
<1>1. Denial!Chain \subseteq Universe /\ IsFiniteSet(Denial!Chain) /\ Denial!Chain # {}
  BY ChainIs
<1>2. PICK B : B = {y \in Denial!Chain : Denial!Precedes(y, n)}
  OBVIOUS
<1>3. B \subseteq Denial!Chain /\ IsFiniteSet(B)
  BY <1>1, <1>2, FS_Subset
<1>4. PICK x \in Denial!Chain : \/ x \in B /\ \A y \in B : y = x \/ Denial!Precedes(y, x)
                                \/ B = {} /\ \A y \in Denial!Chain : y = x \/ Denial!Precedes(y, x)
  <2>1. CASE B # {}
    <3>1. PICK x \in B : \A y \in B \ {x} : Denial!Precedes(y, x)
      BY <1>1, <1>3, <2>1, LastExists
    <3> QED
      BY <1>3, <3>1
  <2>2. CASE B = {}
    <3>1. PICK x \in Denial!Chain : \A y \in Denial!Chain \ {x} : Denial!Precedes(y, x)
      BY <1>1, LastExists
    <3> QED
      BY <2>2, <3>1
  <2> QED
    BY <2>1, <2>2
<1>5. PICK f : f = Denial!Following(x)
  OBVIOUS
<1>6. f \in Denial!Chain /\ f \in Universe /\ x \in Universe
  BY <1>5, FollowingIs
<1>7. \/ Denial!Precedes(x, f) /\ \A y \in Denial!Chain : Denial!Precedes(x, y) => y = f \/ Denial!Precedes(f, y)
      \/ (\A y \in Denial!Chain : ~Denial!Precedes(x, y)) /\ \A y \in Denial!Chain : y = f \/ Denial!Precedes(f, y)
  BY <1>5, FollowingIs
<1>8. n # x /\ n # f
  BY <1>6
<1>9. \A y \in Denial!Chain : y \in B <=> Denial!Precedes(y, n)
  BY <1>2, Zenon
<1>10. CASE x \in B /\ \A y \in B : y = x \/ Denial!Precedes(y, x)
  <2>1. Denial!Precedes(x, n)
    BY <1>9, <1>10
  <2>2. CASE Denial!Precedes(x, f)
    <3>1. f \notin B
      BY <1>6, <1>10, <2>2, PrecedesOrder
    <3>2. Denial!Precedes(n, f)
      BY <1>6, <1>8, <1>9, <3>1, PrecedesOrder
    <3> QED
      BY <1>5, <1>8, <2>1, <3>2
  <2>3. CASE ~Denial!Precedes(x, f)
    BY <1>5, <1>6, <1>8, <2>1, <2>3, PrecedesOrder
  <2> QED
    BY <2>2, <2>3
<1>11. CASE B = {} /\ \A y \in Denial!Chain : y = x \/ Denial!Precedes(y, x)
  <2>1. f = x \/ Denial!Precedes(f, x)
    BY <1>6, <1>11
  <2>2. Denial!Precedes(n, f)
    BY <1>6, <1>8, <1>9, <1>11, PrecedesOrder
  <2> QED
    BY <1>5, <1>8, <2>1, <2>2
<1> QED
  BY <1>4, <1>10, <1>11

\* A name that hides nothing below it.
Open(x) == ~Denial!IsCut(Denial!Types(x)) /\ "DNAME" \notin Denial!Types(x)

\* What is above a name that exists hides nothing.
LEMMA OpenAbove ==
  ASSUME DenialInv, NEW x \in Labels, NEW y \in Labels, Denial!Below(y, x), x # y, Denial!Exists(y)
  PROVE  Open(x)
<1>1. PICK w \in ZoneNames : zone[w] # {} /\ Denial!Below(w, y)
  BY DEF Denial!Exists
<1>2. w \in Labels /\ Denial!Below(w, x) /\ w # x
  <2>1. w \in Labels /\ Denial!Below(w, x)
    BY <1>1, ZoneIs, BelowOrder DEF DenialInv
  <2>2. Len(x) < Len(y) /\ Len(y) <= Len(w) /\ Len(x) \in Nat /\ Len(y) \in Nat /\ Len(w) \in Nat
    BY <1>1, <2>1, BelowOrder DEF Labels
  <2> QED
    BY <2>1, <2>2
<1>3. x \in ZoneNames /\ Denial!Types(x) = zone[x]
  <2>1. x \in Denial!Ancestors(w) /\ Denial!Ancestors(w) \subseteq ZoneNames
    BY <1>2, AncestorsAre, ZoneIs DEF DenialInv
  <2> QED
    BY <2>1, ZoneIs DEF DenialInv
<1> QED
  BY <1>1, <1>2, <1>3, ZoneIs DEF Open, DenialInv

\* A name that does not exist holds nothing, and what holds nothing hides nothing.
LEMMA NothingHere ==
  ASSUME DenialInv, NEW x \in Labels
  PROVE  /\ ~Denial!Exists(x) => Denial!Types(x) = {}
         /\ Denial!Types(x) = {} => Open(x)
<1>1. ASSUME Denial!Types(x) # {} PROVE Denial!Exists(x)
  <2>1. x \in ZoneNames /\ zone[x] # {}
    BY <1>1 DEF Denial!Types
  <2> QED
    BY <2>1, BelowOrder DEF Denial!Exists
<1> QED
  BY <1>1 DEF Open, Denial!IsCut

\* What a bitmap says of its owner.
LEMMA BitmapIs ==
  ASSUME DenialInv, NEW x \in Denial!Chain
  PROVE  /\ Denial!Types(x) = zone[x] /\ x \in ZoneNames
         /\ Denial!Authoritative(Denial!Bitmap(x)) <=> Open(x)
         /\ Denial!IsCut(Denial!Bitmap(x)) <=> Denial!IsCut(Denial!Types(x))
         /\ \A t \in {"A", "DS", "CNAME", "SOA", "NS", "DNAME"} : t \in Denial!Bitmap(x) <=> t \in Denial!Types(x)
         /\ Denial!Bitmap(x) = {} => Denial!Types(x) = {} /\ style # "nsec"
         /\ Denial!Types(x) = {} /\ style # "nsec" => Denial!Bitmap(x) = {}
<1>1. x \in ZoneNames /\ Denial!Types(x) = zone[x]
  BY ChainIs DEF Denial!Types
<1> QED
  BY <1>1 DEF Denial!Bitmap, Denial!Authoritative, Open, Denial!IsCut

\* The names above a name that is asked about have a place in the order.
LEMMA ProbeIs ==
  ASSUME NEW n \in Probes, NEW x \in Labels, Denial!Below(n, x)
  PROVE  n \in Labels /\ x \in Universe
<1>1. n \in Labels
  BY DenialAssumption DEF Labels
<1>2. x \in Denial!Ancestors(n)
  BY <1>1, AncestorsAre
<1> QED
  BY <1>1, <1>2, DenialAssumption DEF Universe

\* A name that a record spans has none.
LEMMA CoveredIs ==
  ASSUME DenialInv, NEW n \in Universe, Denial!Covered(n)
  PROVE  /\ n \notin Denial!Chain
         /\ style = "nsec3" => ~Denial!Exists(n)
         /\ style = "optout" => ~Denial!Kept(n)
         /\ style = "nsec" => Denial!Types(n) = {}
<1>1. PICK x \in shown : Denial!Spans(x, n)
  BY DEF Denial!Covered
<1>2. n \notin Denial!Chain
  BY <1>1, SpanIsGap DEF DenialInv
<1>3. n \in Labels
  BY DEF Universe
<1> QED
  BY <1>2, <1>3, ChainIs

\* What NSEC endpoints are taken to witness exists.
LEMMA EndpointsAre ==
  ASSUME DenialInv, style = "nsec"
  PROVE  /\ shown \subseteq Denial!Endpoints /\ Denial!Endpoints \subseteq Denial!Chain
         /\ \A n \in Labels : Denial!Witnessed(n) => Denial!Exists(n)
<1>1. shown \subseteq Denial!Endpoints /\ Denial!Endpoints \subseteq Denial!Chain
  BY FollowingIs DEF Denial!Endpoints, DenialInv
<1>2. ASSUME NEW n \in Labels, Denial!Witnessed(n) PROVE Denial!Exists(n)
  <2>1. PICK y \in Denial!Endpoints : Denial!Below(y, n)
    BY <1>2 DEF Denial!Witnessed
  <2>2. y \in Labels /\ Denial!Exists(y)
    BY <1>1, <2>1, ChainIs
  <2> QED
    BY <2>1, <2>2, ExistsUpward
<1> QED
  BY <1>1, <1>2

\* A name that an NSEC record spans and no endpoint witnesses does not exist.
LEMMA NothingBelow ==
  ASSUME DenialInv, style = "nsec", NEW n \in Universe, Denial!Covered(n), ~Denial!Witnessed(n)
  PROVE  ~Denial!Exists(n)
<1> SUFFICES ASSUME Denial!Exists(n) PROVE FALSE
  OBVIOUS
<1>1. PICK y \in ZoneNames : zone[y] # {} /\ Denial!Below(y, n)
  BY DEF Denial!Exists
<1>2. y \in Denial!Chain /\ y \in Labels /\ n \in Labels /\ y \in Universe
  BY <1>1, ChainIs, ZoneIs DEF Universe, DenialInv
<1>3. PICK x \in shown : Denial!Spans(x, n)
  BY DEF Denial!Covered
<1>4. x \in Denial!Chain /\ n \notin Denial!Chain
  BY <1>3, CoveredIs DEF DenialInv
<1>5. Denial!Before(n, y)
  BY <1>1, <1>2, <1>4, BeforeIs
<1>6. Denial!Precedes(n, y)
  BY <1>5 DEF Denial!Precedes
<1>7. PICK f : f = Denial!Following(x)
  OBVIOUS
<1>8. Denial!Precedes(n, f) /\ (y = f \/ Denial!Precedes(f, y)) /\ f \in Denial!Chain /\ f \in Labels
  BY <1>2, <1>3, <1>4, <1>6, <1>7, SpanIsGap, FollowingIs, ChainIs
<1>9. Denial!Below(f, n)
  <2>1. Denial!Before(n, f) /\ (f = y \/ Denial!Before(f, y))
    BY <1>8 DEF Denial!Precedes
  <2> QED
    BY <1>1, <1>2, <1>8, <2>1, Between
<1>10. f \in Denial!Endpoints
  BY <1>3, <1>7 DEF Denial!Endpoints
<1> QED
  BY <1>9, <1>10 DEF Denial!Witnessed

\* The next closer name of one that is asked about has a place in the order.
LEMMA CloserIsProbed ==
  ASSUME NEW n \in Probes, NEW c \in Labels, Denial!Below(n, c), c # n
  PROVE  n \in Labels /\ Denial!Closer(n, c) \in Labels /\ Denial!Closer(n, c) \in Universe
<1>1. n \in Labels
  BY DenialAssumption DEF Labels
<1> QED
  BY <1>1, CloserIs, ProbeIs

\* The encloser of a denied name does not hide what is below it.
LEMMA EncloserOpen ==
  ASSUME DenialInv, NEW n \in Probes, NEW c \in Labels, Denial!Below(n, c), c # n, Denial!NextCloserDenied(n, c),
         style # "nsec" => c \in shown \/ Open(c)
  PROVE  Open(c)
<1>1. CASE c \in shown
  <2>1. c \in Denial!Chain
    BY <1>1 DEF DenialInv
  <2> QED
    BY <1>1, <2>1, BitmapIs DEF Denial!NextCloserDenied
<1>2. CASE c \notin shown /\ style = "nsec" /\ Denial!Types(c) # {}
  <2>1. PICK nc : nc = Denial!Closer(n, c)
    OBVIOUS
  <2>2. /\ nc \in Labels /\ nc \in Universe /\ Denial!Below(nc, c) /\ nc # c
    BY <2>1, CloserIsProbed, CloserIs
  <2>3. PICK x \in shown : Denial!Spans(x, nc)
    BY <2>1 DEF Denial!NextCloserDenied, Denial!Covered
  <2>4. c \in Denial!Chain /\ c \in Universe /\ x \in Denial!Chain /\ x \in Labels /\ Denial!Exists(x)
    BY <1>2, <2>3, ChainIs DEF DenialInv
  <2>5. Denial!Precedes(c, nc)
    BY <1>2, <2>2, BeforeIs DEF Denial!Precedes
  <2>6. Denial!Precedes(x, nc) /\ Denial!Precedes(c, x) /\ c # x
    BY <1>2, <2>2, <2>3, <2>4, <2>5, SpanIsGap
  <2>7. Denial!Below(x, c)
    <3>1. Denial!Before(c, x) /\ Denial!Before(x, nc)
      BY <1>2, <2>6 DEF Denial!Precedes
    <3> QED
      BY <2>2, <2>4, <3>1, Between
  <2> QED
    BY <2>4, <2>6, <2>7, OpenAbove
<1>3. CASE c \notin shown /\ style = "nsec" /\ Denial!Types(c) = {}
  BY <1>3, NothingHere
<1> QED
  BY <1>1, <1>2, <1>3

\* Down to an open encloser that exists, nothing hides a name.
LEMMA OpenPath ==
  ASSUME DenialInv, NEW n \in Labels, NEW c \in Labels, Denial!Below(n, c), c # n, Denial!Exists(c), Open(c),
         NEW x \in Labels, Denial!Below(n, x), ~Denial!Below(x, Denial!Closer(n, c))
  PROVE  Open(x)
<1>1. Denial!Below(c, x)
  BY CloserIs
<1> QED
  BY <1>1, OpenAbove

\* The encloser of a name is its closest when the next closer does not exist.
LEMMA ClosestIs ==
  ASSUME DenialInv, NEW n \in Labels, NEW c \in Labels, Denial!Below(n, c), c # n, Denial!Exists(c), Open(c),
         ~Denial!Exists(Denial!Closer(n, c))
  PROVE  ~Denial!Exists(n) /\ Denial!Closest(n) = c /\ \A x \in Denial!Ancestors(n) \ {n} : Open(x)
<1>0. PICK nc : nc = Denial!Closer(n, c)
  OBVIOUS
<1>1. nc \in Labels /\ Denial!Below(n, nc) /\ ~Denial!Exists(nc)
  BY <1>0, CloserIs
<1>2. ASSUME NEW x \in Labels, Denial!Below(x, nc) PROVE ~Denial!Exists(x)
  BY <1>1, <1>2, ExistsUpward
<1>3. ~Denial!Exists(n)
  BY <1>1, <1>2
<1>4. ASSUME NEW x \in Denial!Ancestors(n) \ {n} PROVE Open(x)
  <2>1. x \in Labels /\ Denial!Below(n, x)
    BY AncestorsAre
  <2>2. CASE Denial!Below(x, nc)
    BY <1>2, <2>1, <2>2, NothingHere
  <2>3. CASE ~Denial!Below(x, nc)
    BY <1>0, <2>1, <2>3, OpenPath
  <2> QED
    BY <2>2, <2>3
<1>5. PICK S : S = {x \in Denial!Ancestors(n) : Denial!Exists(x)}
  OBVIOUS
<1>6. c \in S /\ S \subseteq Denial!Ancestors(n)
  BY <1>5, AncestorsAre
<1>7. PICK d : d = Denial!Deepest(S)
  OBVIOUS
<1>8. d \in S /\ Len(c) <= Len(d)
  BY <1>6, <1>7, DeepestIs
<1>9. d \in Labels /\ Denial!Below(n, d) /\ Denial!Exists(d)
  BY <1>5, <1>8, AncestorsAre
<1>10. Denial!Below(c, d)
  BY <1>0, <1>2, <1>9, CloserIs
<1>11. d = c
  BY <1>8, <1>9, <1>10, BelowOrder DEF Labels
<1> QED
  BY <1>3, <1>4, <1>5, <1>7, <1>11 DEF Denial!Closest

\* What an opt-out span leaves out holds nothing signed.
LEMMA SpanLeavesOut ==
  ASSUME DenialInv, NEW n \in Labels, NEW c \in Labels, Denial!Below(n, c), c # n, Denial!Exists(c), Open(c),
         ~Denial!Kept(Denial!Closer(n, c))
  PROVE  Denial!LeftOut(n)
<1>0. PICK nc : nc = Denial!Closer(n, c)
  OBVIOUS
<1>1. nc \in Labels /\ Denial!Below(n, nc) /\ ~Denial!Kept(nc)
  BY <1>0, CloserIs
<1>2. ASSUME NEW x \in Labels, Denial!Below(x, nc) PROVE ~Denial!Kept(x)
  BY <1>1, <1>2, ExistsUpward
<1>3. ~Denial!Kept(n)
  BY <1>1, <1>2
<1>4. ASSUME NEW x \in Denial!Ancestors(n) \ {n}
      PROVE  "DNAME" \notin Denial!Types(x) /\ (Denial!IsCut(Denial!Types(x)) => Denial!UnsignedCut(Denial!Types(x)))
  <2>1. x \in Labels /\ Denial!Below(n, x)
    BY AncestorsAre
  <2>2. CASE Denial!Below(x, nc) /\ x \in ZoneNames /\ zone[x] # {}
    <3>1. ~Denial!Kept(x) /\ Denial!Below(x, x)
      BY <1>2, <2>1, <2>2, BelowOrder
    <3>2. Denial!UnsignedCut(zone[x])
      BY <2>2, <3>1 DEF Denial!Kept
    <3> QED
      BY <2>2, <3>2, ZoneIs DEF Denial!UnsignedCut, DenialInv
  <2>3. CASE Denial!Below(x, nc) /\ ~(x \in ZoneNames /\ zone[x] # {})
    <3>1. Denial!Types(x) = {}
      BY <2>3 DEF Denial!Types
    <3> QED
      BY <3>1 DEF Denial!IsCut
  <2>4. CASE ~Denial!Below(x, nc)
    BY <1>0, <2>1, <2>4, OpenPath DEF Open
  <2> QED
    BY <2>2, <2>3, <2>4
<1> QED
  BY <1>3, <1>4 DEF Denial!LeftOut

\* What is above a name that exists does not hide it.
LEMMA OpenOverhead ==
  ASSUME DenialInv, NEW n \in Labels, Denial!Exists(n)
  PROVE  \A x \in Denial!Ancestors(n) \ {n} : Open(x)
BY AncestorsAre, OpenAbove

\* A wildcard is a name of the zone when anything below its parent's star exists.
LEMMA StarHolds ==
  ASSUME DenialInv, NEW c \in ZoneNames
  PROVE  /\ Denial!Star(c) \in Labels /\ Denial!Star(c) \in Universe
         /\ Denial!Exists(Denial!Star(c)) <=> Denial!Types(Denial!Star(c)) # {}
         /\ Denial!Kept(Denial!Star(c)) <=> Denial!Types(Denial!Star(c)) # {}
         /\ "NS" \notin Denial!Types(Denial!Star(c)) /\ "SOA" \notin Denial!Types(Denial!Star(c))
<1>1. PICK s : s = Denial!Star(c)
  OBVIOUS
<1>2. s \in Labels /\ s \in Universe /\ s # <<>> /\ c \in Labels
  <2>1. c \in Labels
    BY ZoneIs DEF DenialInv
  <2>2. s \in Labels /\ Len(s) = Len(c) + 1 /\ Len(c) \in Nat
    BY <1>1, <2>1, StarIs DEF Labels
  <2> QED
    BY <1>1, <2>1, <2>2, DenialAssumption DEF Universe
<1>3. ASSUME Denial!Exists(s) PROVE Denial!Types(s) # {}
  <2>1. PICK y \in ZoneNames : zone[y] # {} /\ Denial!Below(y, s)
    BY <1>3 DEF Denial!Exists
  <2>2. y = s
    BY <1>1, <2>1, DenialAssumption
  <2> QED
    BY <2>1, <2>2 DEF Denial!Types
<1>4. Denial!Types(s) # {} => s \in ZoneNames /\ Denial!Types(s) = zone[s] /\ Denial!Below(s, s)
  BY <1>2, BelowOrder DEF Denial!Types
<1>5. "NS" \notin Denial!Types(s) /\ "SOA" \notin Denial!Types(s)
  <2>1. CASE s \in ZoneNames
    BY <1>1, <1>2, <2>1, ZoneIs DEF DenialInv
  <2>2. CASE s \notin ZoneNames
    BY <2>2 DEF Denial!Types
  <2> QED
    BY <2>1, <2>2
<1>6. Denial!Types(s) # {} => Denial!Kept(s)
  BY <1>4, <1>5 DEF Denial!Kept, Denial!UnsignedCut, Denial!IsCut
<1>7. Denial!Kept(s) => Denial!Exists(s)
  BY <1>2, BelowOrder, ExistsUpward
<1> QED
  BY <1>1, <1>2, <1>3, <1>5, <1>6, <1>7

\* What the zone answers below what hides nothing.
LEMMA LookupIs ==
  ASSUME NEW n \in Labels, NEW t, \A x \in Denial!Ancestors(n) \ {n} : Open(x)
  PROVE  /\ Denial!Exists(n) =>
              Denial!Lookup(n, t) = IF Denial!IsCut(Denial!Types(n)) /\ t # "DS" THEN "referral"
                             ELSE IF t \in Denial!Types(n) \/ (t = "ANY" /\ Denial!Types(n) # {}) THEN "answer"
                             ELSE IF "CNAME" \in Denial!Types(n) THEN "cname" ELSE "nodata"
         /\ ~Denial!Exists(n) =>
              Denial!Lookup(n, t) = IF Denial!Types(Denial!Star(Denial!Closest(n))) = {} THEN "nxdomain"
                             ELSE IF t \in Denial!Types(Denial!Star(Denial!Closest(n))) \union {"ANY"} \/ "CNAME" \in Denial!Types(Denial!Star(Denial!Closest(n)))
                             THEN "wildcard" ELSE "wildcard_nodata"
<1>1. ~(\E x \in Denial!Ancestors(n) \ {n} : Denial!IsCut(Denial!Types(x))) /\ ~(\E x \in Denial!Ancestors(n) \ {n} : "DNAME" \in Denial!Types(x))
  BY DEF Open
<1> QED
  BY <1>1 DEF Denial!Lookup

\* What validate_denial takes for the closest encloser.
LEMMA EncloserIs ==
  ASSUME DenialInv, NEW n \in Probes, Denial!Enclosers(n) # {}
  PROVE  /\ Denial!Deepest(Denial!Enclosers(n)) \in Labels /\ Denial!Below(n, Denial!Deepest(Denial!Enclosers(n))) /\ Denial!Witnessed(Denial!Deepest(Denial!Enclosers(n)))
         /\ Denial!Exists(Denial!Deepest(Denial!Enclosers(n)))
         /\ style # "nsec" => Denial!Deepest(Denial!Enclosers(n)) \in shown
         /\ Denial!Deepest(Denial!Enclosers(n)) # n => ~Denial!Witnessed(Denial!Closer(n, Denial!Deepest(Denial!Enclosers(n))))
<1>1. PICK c : c = Denial!Deepest(Denial!Enclosers(n))
  OBVIOUS
<1>2. n \in Labels
  BY DenialAssumption DEF Labels
<1>3. c \in Denial!Enclosers(n) /\ \A y \in Denial!Enclosers(n) : Len(y) <= Len(c)
  <2>1. Denial!Enclosers(n) \subseteq Denial!Ancestors(n)
    BY DEF Denial!Enclosers
  <2>2. PICK S : S = Denial!Enclosers(n)
    OBVIOUS
  <2>3. Denial!Deepest(S) \in S /\ \A y \in S : Len(y) <= Len(Denial!Deepest(S))
    BY <1>2, <2>1, <2>2, DeepestIs
  <2> QED
    BY <1>1, <2>2, <2>3
<1>4. c \in Labels /\ Denial!Below(n, c) /\ Denial!Witnessed(c)
  BY <1>2, <1>3, AncestorsAre DEF Denial!Enclosers
<1>5. Denial!Exists(c) /\ (style # "nsec" => c \in shown)
  <2>1. CASE style = "nsec"
    BY <1>4, <2>1, EndpointsAre
  <2>2. CASE style # "nsec"
    BY <1>4, <2>2, ChainIs DEF Denial!Witnessed, Denial!Endpoints, DenialInv
  <2> QED
    BY <2>1, <2>2
<1>6. ASSUME c # n PROVE ~Denial!Witnessed(Denial!Closer(n, c))
  <2> SUFFICES ASSUME Denial!Witnessed(Denial!Closer(n, c)) PROVE FALSE
    OBVIOUS
  <2>1. Denial!Closer(n, c) \in Labels /\ Denial!Below(n, Denial!Closer(n, c)) /\ Len(Denial!Closer(n, c)) = Len(c) + 1 /\ Len(c) \in Nat
    BY <1>2, <1>4, <1>6, CloserIs DEF Labels
  <2>2. Denial!Closer(n, c) \in Denial!Enclosers(n)
    BY <1>2, <2>1, AncestorsAre DEF Denial!Enclosers
  <2> QED
    BY <1>3, <2>1, <2>2
<1> QED
  BY <1>1, <1>4, <1>5, <1>6

\* Where the next closer name is denied: nothing is there, or nothing signed.
LEMMA DeniedIs ==
  ASSUME DenialInv, NEW n \in Probes, NEW c \in Labels, Denial!Below(n, c), c # n, Denial!NextCloserDenied(n, c),
         Denial!Exists(c), Open(c), style = "nsec" => ~Denial!Witnessed(Denial!Closer(n, c)) \/ ~Denial!Overlooked(Denial!Closer(n, c))
  PROVE  /\ style = "optout" => Denial!LeftOut(n)
         /\ style # "optout" => /\ ~Denial!Exists(n) /\ Denial!Closest(n) = c
                                /\ \A x \in Denial!Ancestors(n) \ {n} : Open(x)
<1>0. PICK nc : nc = Denial!Closer(n, c)
  OBVIOUS
<1>1. nc \in Labels /\ nc \in Universe /\ n \in Labels /\ Denial!Covered(nc)
  BY <1>0, CloserIsProbed DEF Denial!NextCloserDenied
<1>2. CASE style = "optout"
  <2>1. ~Denial!Kept(nc)
    BY <1>1, <1>2, CoveredIs
  <2> QED
    BY <1>0, <1>1, <1>2, <2>1, SpanLeavesOut
<1>3. CASE style # "optout"
  <2>1. ~Denial!Exists(nc)
    <3>1. CASE style = "nsec" /\ ~Denial!Witnessed(nc)
      BY <1>1, <3>1, NothingBelow
    <3>2. CASE style = "nsec" /\ ~Denial!Overlooked(nc)
      BY <1>1, <3>2, CoveredIs DEF Denial!Overlooked
    <3>3. CASE style # "nsec"
      BY <1>1, <1>3, <3>3, CoveredIs DEF DenialInv
    <3> QED
      BY <1>0, <3>1, <3>2, <3>3
  <2>2. ~Denial!Exists(n) /\ Denial!Closest(n) = c /\ \A x \in Denial!Ancestors(n) \ {n} : Open(x)
    BY <1>0, <1>1, <2>1, ClosestIs
  <2> QED
    BY <1>3, <2>2
<1> QED
  BY <1>2, <1>3

\* A record of the very name that denies the type.
LEMMA MatchIsTrue ==
  ASSUME DenialInv, NEW n \in Probes, n \in shown, NEW t \in Denial!QTypes, Denial!DeniesType(Denial!Bitmap(n), t)
  PROVE  Denial!Lookup(n, t) = "nodata"
<1>1. n \in Denial!Chain /\ n \in Labels /\ Denial!Exists(n)
  BY ChainIs DEF DenialInv
<1>2. \A x \in Denial!Ancestors(n) \ {n} : Open(x)
  BY <1>1, OpenOverhead
<1>3. /\ Denial!IsCut(Denial!Types(n)) => t = "DS"
      /\ t \notin Denial!Types(n) /\ "CNAME" \notin Denial!Types(n) /\ (t = "ANY" => Denial!Types(n) = {})
  <2>1. CASE t = "ANY"
    BY <1>1, <2>1, BitmapIs DEF Denial!DeniesType, Denial!IsCut
  <2>2. CASE t # "ANY"
    <3>1. t \notin Denial!Bitmap(n) /\ "CNAME" \notin Denial!Bitmap(n) /\ (t # "DS" => ~Denial!IsCut(Denial!Bitmap(n)))
      BY <2>2 DEF Denial!DeniesType
    <3>2. t \in {"A", "DS"}
      BY <2>2 DEF Denial!QTypes
    <3> QED
      BY <1>1, <2>2, <3>1, <3>2, BitmapIs
  <2> QED
    BY <2>1, <2>2
<1> QED
  BY <1>1, <1>2, <1>3, LookupIs

\* A proof by the closest encloser.
LEMMA EncloserIsTrue ==
  ASSUME DenialInv, NEW n \in Probes, n \notin shown, NEW t \in Denial!QTypes, NEW k \in Denial!Kinds,
         Denial!EncloserProof(n, t, k).valid
  PROVE  /\ Denial!EncloserProof(n, t, k).optOut => Denial!LeftOut(n)
         /\ ~Denial!EncloserProof(n, t, k).optOut => Denial!Lookup(n, t) = k
<1>0. Denial!Enclosers(n) # {}
  BY DEF Denial!EncloserProof, Denial!Verdict
<1>1. PICK c : c = Denial!Deepest(Denial!Enclosers(n))
  OBVIOUS
<1>2. /\ n \in Labels /\ c \in Labels /\ Denial!Below(n, c) /\ Denial!Witnessed(c) /\ Denial!Exists(c)
      /\ style # "nsec" => c \in shown
      /\ c # n => ~Denial!Witnessed(Denial!Closer(n, c))
  BY <1>0, <1>1, EncloserIs, DenialAssumption DEF Labels
<1>3. CASE c = n
  <2>1. k = "nodata" /\ Denial!Covered(n) /\ ~Denial!EncloserProof(n, t, k).optOut
    BY <1>0, <1>1, <1>3 DEF Denial!EncloserProof, Denial!Verdict
  <2>2. style = "nsec" /\ Denial!Types(n) = {} /\ Denial!Exists(n)
    <3>1. n \in Universe
      BY <1>2, BelowOrder, ProbeIs
    <3> QED
      BY <1>2, <1>3, <2>1, <3>1, CoveredIs
  <2>3. \A x \in Denial!Ancestors(n) \ {n} : Open(x)
    BY <1>2, <2>2, OpenOverhead
  <2>4. Denial!Lookup(n, t) = "nodata"
    BY <1>2, <2>2, <2>3, LookupIs DEF Denial!IsCut
  <2> QED
    BY <2>1, <2>4
<1>4. CASE c # n
  <2>0. PICK s : s = Denial!Star(c)
    OBVIOUS
  <2>1. /\ Denial!NextCloserDenied(n, c)
        /\ \/ style = "optout"
           \/ k = "nxdomain" /\ Denial!Covered(s)
           \/ k = "wildcard_nodata" /\ s \in shown /\ Denial!DeniesType(Denial!Bitmap(s), t)
        /\ Denial!EncloserProof(n, t, k).optOut <=> style = "optout"
    BY <1>0, <1>1, <1>4, <2>0 DEF Denial!EncloserProof, Denial!Verdict, Denial!Kinds
  <2>2. Open(c)
    BY <1>2, <1>4, <2>1, EncloserOpen
  <2>3. /\ style = "optout" => Denial!LeftOut(n)
        /\ style # "optout" => /\ ~Denial!Exists(n) /\ Denial!Closest(n) = c
                               /\ \A x \in Denial!Ancestors(n) \ {n} : Open(x)
    BY <1>2, <1>4, <2>1, <2>2, DeniedIs
  <2>4. CASE style = "optout"
    BY <2>1, <2>3, <2>4
  <2>5. CASE style # "optout"
    <3>1. c \in ZoneNames
      <4>1. PICK y \in ZoneNames : Denial!Below(y, c)
        BY <1>2 DEF Denial!Exists
      <4> QED
        BY <1>2, <4>1, ZoneIs, AncestorsAre DEF DenialInv
    <3>2. s \in Labels /\ s \in Universe /\ (Denial!Exists(s) <=> Denial!Types(s) # {})
      BY <2>0, <3>1, StarHolds
    <3>3. CASE k = "nxdomain" /\ Denial!Covered(s)
      <4>1. Denial!Types(s) = {}
        BY <2>5, <3>2, <3>3, CoveredIs DEF DenialInv
      <4> QED
        BY <1>2, <2>0, <2>1, <2>3, <2>5, <3>3, <4>1, LookupIs
    <3>4. CASE k = "wildcard_nodata" /\ s \in shown /\ Denial!DeniesType(Denial!Bitmap(s), t)
      <4>1. s \in Denial!Chain /\ Denial!Types(s) # {}
        BY <3>2, <3>4, ChainIs DEF DenialInv
      <4>2. t # "ANY"
        BY <3>4, <4>1, BitmapIs DEF Denial!DeniesType
      <4>3. t \in {"A", "DS"} /\ t \notin Denial!Bitmap(s) /\ "CNAME" \notin Denial!Bitmap(s)
        BY <3>4, <4>2 DEF Denial!DeniesType, Denial!QTypes
      <4>4. t \notin Denial!Types(s) /\ "CNAME" \notin Denial!Types(s)
        BY <4>1, <4>3, BitmapIs
      <4> QED
        BY <1>2, <2>0, <2>1, <2>3, <2>5, <3>4, <4>1, <4>2, <4>4, LookupIs
    <3> QED
      BY <2>1, <2>5, <3>3, <3>4
  <2> QED
    BY <2>4, <2>5
<1> QED
  BY <1>3, <1>4

\* What is proved absent is absent.
LEMMA AbsenceHolds == ASSUME DenialInv PROVE Denial!AbsenceIsTrue
<1> SUFFICES ASSUME NEW n \in Probes \ {<<>>}, NEW t \in Denial!QTypes, NEW k \in Denial!Kinds, Denial!Proof(n, t, k).valid
             PROVE  IF Denial!Proof(n, t, k).optOut THEN Denial!LeftOut(n) ELSE Denial!Lookup(n, t) = k
  BY DEF Denial!AbsenceIsTrue
<1>1. CASE n \in shown
  <2>1. Denial!MatchProof(n, t, k).valid /\ Denial!Proof(n, t, k) = Denial!MatchProof(n, t, k)
    BY <1>1 DEF Denial!Proof
  <2>2. k = "nodata" /\ Denial!DeniesType(Denial!Bitmap(n), t) /\ ~Denial!MatchProof(n, t, k).optOut
    BY <2>1 DEF Denial!MatchProof, Denial!Verdict, Denial!Kinds
  <2> QED
    BY <1>1, <2>1, <2>2, MatchIsTrue
<1>2. CASE n \notin shown
  <2>1. Denial!Proof(n, t, k) = Denial!EncloserProof(n, t, k)
    BY <1>2 DEF Denial!Proof
  <2> QED
    BY <1>2, <2>1, EncloserIsTrue
<1> QED
  BY <1>1, <1>2

\* What is proved unsigned is delegated without a DS, or holds nothing signed.
LEMMA UnsignedHolds == ASSUME DenialInv PROVE Denial!UnsignedIsTrue
<1> SUFFICES ASSUME NEW n \in Probes \ {<<>>}, Denial!Proof(n, "DS", "unsigned_delegation").valid
             PROVE  IF Denial!Proof(n, "DS", "unsigned_delegation").optOut THEN Denial!LeftOut(n) ELSE Denial!UnsignedCut(Denial!Types(n))
  BY DEF Denial!UnsignedIsTrue
<1>0. PICK k : k = "unsigned_delegation"
  OBVIOUS
<1>1. CASE n \in shown
  <2>1. Denial!Delegates(Denial!Bitmap(n)) /\ ~Denial!Proof(n, "DS", k).optOut
    BY <1>0, <1>1 DEF Denial!Proof, Denial!MatchProof, Denial!Verdict
  <2>2. Denial!UnsignedCut(Denial!Types(n))
    <3>1. n \in Denial!Chain
      BY <1>1 DEF DenialInv
    <3> QED
      BY <2>1, <3>1, BitmapIs DEF Denial!Delegates, Denial!UnsignedCut, Denial!IsCut
  <2> QED
    BY <1>0, <2>1, <2>2
<1>2. CASE n \notin shown
  <2>1. Denial!EncloserProof(n, "DS", k).valid
    BY <1>0, <1>2 DEF Denial!Proof
  <2>2. PICK c : c = Denial!Deepest(Denial!Enclosers(n))
    OBVIOUS
  <2>3. Denial!Enclosers(n) # {} /\ c # n /\ Denial!NextCloserDenied(n, c) /\ style = "optout"
    BY <1>0, <2>1, <2>2 DEF Denial!EncloserProof, Denial!Verdict
  <2>4. /\ n \in Labels /\ c \in Labels /\ Denial!Below(n, c) /\ Denial!Exists(c) /\ c \in shown
    BY <2>2, <2>3, EncloserIs, DenialAssumption DEF Labels
  <2>5. Open(c)
    BY <2>3, <2>4, EncloserOpen
  <2>6. Denial!LeftOut(n)
    BY <2>3, <2>4, <2>5, DeniedIs
  <2>7. Denial!EncloserProof(n, "DS", k).optOut
    BY <2>1, <2>2, <2>3 DEF Denial!EncloserProof, Denial!Verdict
  <2> QED
    BY <1>0, <1>2, <2>6, <2>7 DEF Denial!Proof
<1> QED
  BY <1>1, <1>2

\* A wildcard is expanded only where the zone would.
LEMMA ExpansionHolds == ASSUME DenialInv PROVE Denial!ExpansionIsTrue
<1> SUFFICES ASSUME NEW n \in Probes, NEW x \in ZoneNames,
                    Denial!Types(Denial!Star(x)) # {}, Denial!Below(n, x), n \notin {x, Denial!Star(x)}, n \notin shown,
                    Denial!WildcardProof(n, Denial!Star(x)).valid, ~Denial!Overlooked(Denial!Closer(n, x))
             PROVE  IF Denial!WildcardProof(n, Denial!Star(x)).optOut THEN Denial!LeftOut(n) ELSE ~Denial!Exists(n) /\ Denial!Closest(n) = x
  BY DEF Denial!ExpansionIsTrue
<1>1. PICK s : s = Denial!Star(x)
  OBVIOUS
<1>2. x \in Labels /\ n \in Labels /\ s \in Labels /\ Denial!Below(s, x) /\ s # x /\ Denial!Parent(s) = x
  BY <1>1, StarIs, ZoneIs, DenialAssumption DEF Labels, DenialInv
<1>3. Denial!Exists(s) /\ Denial!Exists(x) /\ Open(x)
  <2>1. Denial!Exists(s)
    BY <1>1, <1>2, NothingHere
  <2> QED
    BY <1>2, <2>1, ExistsUpward, OpenAbove
<1>4. Denial!NextCloserDenied(n, x) /\ (Denial!WildcardProof(n, s).optOut <=> style = "optout")
  BY <1>1, <1>2 DEF Denial!WildcardProof, Denial!Verdict
<1>5. /\ style = "optout" => Denial!LeftOut(n)
      /\ style # "optout" => ~Denial!Exists(n) /\ Denial!Closest(n) = x
  BY <1>2, <1>3, <1>4, DeniedIs
<1> QED
  BY <1>1, <1>4, <1>5

\* With every record shown, a name without one is covered when what encloses it is open.
LEMMA AllCovered ==
  ASSUME DenialInv, shown = Denial!Chain, NEW n \in Universe, n \notin Denial!Chain,
         \A x \in Labels : Denial!Below(n, x) /\ x # n => Open(x)
  PROVE  Denial!Covered(n)
<1>1. PICK x \in Denial!Chain :
            /\ n \notin {x, Denial!Following(x)}
            /\ \/ Denial!Precedes(x, n) /\ Denial!Precedes(n, Denial!Following(x))
               \/ Denial!Precedes(Denial!Following(x), x) /\ (Denial!Precedes(x, n) \/ Denial!Precedes(n, Denial!Following(x)))
               \/ x = Denial!Following(x)
  BY GapIsSpanned
<1>2. style = "nsec" /\ Denial!Below(n, x) => Denial!Authoritative(Denial!Bitmap(x))
  BY <1>1, ChainIs, BitmapIs
<1>3. Denial!Spans(x, n)
  BY <1>1, <1>2 DEF Denial!Spans
<1> QED
  BY <1>1, <1>3 DEF Denial!Covered

\* With every record shown, the closest encloser is the one the zone has.
LEMMA AllWitnessed ==
  ASSUME DenialInv, shown = Denial!Chain, NEW n \in Labels, style = "optout" => Denial!Kept(Denial!Closest(n))
  PROVE  /\ Denial!Closest(n) \in Labels /\ Denial!Below(n, Denial!Closest(n)) /\ Denial!Exists(Denial!Closest(n))
         /\ \A x \in Denial!Ancestors(n) : Denial!Exists(x) => Len(x) <= Len(Denial!Closest(n))
         /\ Denial!Enclosers(n) # {} /\ Denial!Deepest(Denial!Enclosers(n)) = Denial!Closest(n)
<1>1. PICK S : S = {x \in Denial!Ancestors(n) : Denial!Exists(x)}
  OBVIOUS
<1>2. PICK c : c = Denial!Deepest(S)
  OBVIOUS
<1>3. c = Denial!Closest(n)
  BY <1>1, <1>2 DEF Denial!Closest
<1>4. <<>> \in S /\ S \subseteq Denial!Ancestors(n)
  <2>1. <<>> \in Labels /\ Denial!Below(n, <<>>) /\ Denial!Exists(<<>>)
    BY BelowOrder, ChainIs DEF Labels
  <2> QED
    BY <1>1, <2>1, AncestorsAre
<1>5. c \in S /\ \A y \in S : Len(y) <= Len(c)
  BY <1>2, <1>4, DeepestIs
<1>6. c \in Labels /\ Denial!Below(n, c) /\ Denial!Exists(c)
  BY <1>1, <1>5, AncestorsAre
<1>7. Denial!Witnessed(c)
  <2>1. CASE style = "nsec"
    <3>1. PICK y \in ZoneNames : zone[y] # {} /\ Denial!Below(y, c)
      BY <1>6 DEF Denial!Exists
    <3>2. y \in shown
      BY <2>1, <3>1 DEF Denial!Chain
    <3> QED
      BY <2>1, <3>1, <3>2, EndpointsAre DEF Denial!Witnessed
  <2>2. CASE style # "nsec"
    <3>1. c \in Denial!Chain
      BY <1>3, <1>6, <2>2, ChainIs DEF DenialInv
    <3> QED
      BY <2>2, <3>1 DEF Denial!Witnessed, Denial!Endpoints
  <2> QED
    BY <2>1, <2>2
<1>8. PICK E : E = Denial!Enclosers(n)
  OBVIOUS
<1>9. c \in E /\ E \subseteq Denial!Ancestors(n)
  BY <1>1, <1>5, <1>7, <1>8 DEF Denial!Enclosers
<1>10. ASSUME NEW x \in E PROVE x \in S
  <2>1. x \in Labels /\ x \in Denial!Ancestors(n) /\ Denial!Witnessed(x)
    BY <1>8, AncestorsAre DEF Denial!Enclosers
  <2>2. Denial!Exists(x)
    <3>1. CASE style = "nsec"
      BY <2>1, <3>1, EndpointsAre
    <3>2. CASE style # "nsec"
      BY <2>1, <3>2, ChainIs DEF Denial!Witnessed, Denial!Endpoints, DenialInv
    <3> QED
      BY <3>1, <3>2
  <2> QED
    BY <1>1, <2>1, <2>2
<1>11. PICK d : d = Denial!Deepest(E)
  OBVIOUS
<1>12. d \in E /\ \A y \in E : Len(y) <= Len(d)
  BY <1>9, <1>11, DeepestIs
<1>13. d \in Labels /\ Denial!Below(n, d) /\ Len(d) = Len(c)
  <2>1. Len(d) <= Len(c) /\ Len(c) <= Len(d) /\ d \in Denial!Ancestors(n)
    BY <1>5, <1>9, <1>10, <1>12
  <2>2. d \in Labels /\ Denial!Below(n, d)
    BY <2>1, AncestorsAre
  <2> QED
    BY <1>6, <2>1, <2>2 DEF Labels
<1>14. d = c
  <2>1. Denial!Below(d, c)
    BY <1>6, <1>13, BelowOrder DEF Labels
  <2> QED
    BY <1>6, <1>13, <2>1, BelowOrder
<1>15. \A x \in Denial!Ancestors(n) : Denial!Exists(x) => Len(x) <= Len(c)
  BY <1>1, <1>5
<1> QED
  BY <1>3, <1>6, <1>8, <1>9, <1>11, <1>14, <1>15

\* A type that is not at a name is denied.
LEMMA NodataProved ==
  ASSUME DenialInv, shown = Denial!Chain, NEW n \in Probes \ {<<>>}, NEW t \in Denial!QTypes, Denial!Lookup(n, t) = "nodata",
         \A x \in Denial!Ancestors(n) \ {n} : Open(x), Denial!Exists(n), style = "optout" => Denial!Kept(Denial!Closest(n))
  PROVE  Denial!Proof(n, t, "nodata").valid
<1>0. n \in Labels /\ n \in Universe
  <2>1. n \in Labels
    BY DenialAssumption DEF Labels
  <2> QED
    BY <2>1, BelowOrder, ProbeIs
<1>1. /\ Denial!IsCut(Denial!Types(n)) => t = "DS"
      /\ t \notin Denial!Types(n) /\ (t = "ANY" => Denial!Types(n) = {}) /\ "CNAME" \notin Denial!Types(n)
  BY <1>0, LookupIs
<1>2. Denial!Closest(n) = n
  <2>1. /\ Denial!Closest(n) \in Labels /\ Denial!Below(n, Denial!Closest(n))
        /\ \A x \in Denial!Ancestors(n) : Denial!Exists(x) => Len(x) <= Len(Denial!Closest(n))
    BY <1>0, AllWitnessed
  <2>2. n \in Denial!Ancestors(n)
    BY <1>0, BelowOrder, AncestorsAre
  <2>3. Len(n) <= Len(Denial!Closest(n))
    BY <2>1, <2>2
  <2> QED
    BY <1>0, <2>1, <2>3, BelowOrder DEF Labels
<1>3. CASE n \in Denial!Chain
  <2>1. "SOA" \notin Denial!Types(n)
    BY <1>3, BitmapIs, ZoneIs DEF DenialInv
  <2>2. Denial!DeniesType(Denial!Bitmap(n), t)
    <3>1. CASE t = "ANY"
      <4>1. Denial!Types(n) = {} /\ style # "nsec"
        BY <1>0, <1>1, <1>3, <3>1, ChainIs
      <4>2. Denial!Bitmap(n) = {}
        BY <1>3, <4>1, BitmapIs
      <4> QED
        BY <3>1, <4>2 DEF Denial!DeniesType
    <3>2. CASE t # "ANY"
      <4>1. t \in {"A", "DS"}
        BY <3>2 DEF Denial!QTypes
      <4>2. t \notin Denial!Bitmap(n) /\ "CNAME" \notin Denial!Bitmap(n) /\ "SOA" \notin Denial!Bitmap(n) /\ (t # "DS" => ~Denial!IsCut(Denial!Bitmap(n)))
        BY <1>1, <1>3, <2>1, <4>1, BitmapIs
      <4> QED
        BY <3>2, <4>2 DEF Denial!DeniesType
    <3> QED
      BY <3>1, <3>2
  <2> QED
    BY <1>3, <2>2 DEF Denial!Proof, Denial!MatchProof, Denial!Verdict
<1>4. CASE n \notin Denial!Chain
  <2>1. style = "nsec"
    BY <1>0, <1>2, <1>4, ChainIs DEF DenialInv
  <2>2. Denial!Enclosers(n) # {} /\ Denial!Deepest(Denial!Enclosers(n)) = n
    BY <1>0, <1>2, AllWitnessed
  <2>3. Denial!Covered(n)
    <3>1. \A x \in Labels : Denial!Below(n, x) /\ x # n => Open(x)
      BY <1>0, AncestorsAre
    <3> QED
      BY <1>0, <1>4, <3>1, AllCovered
  <2> QED
    BY <1>4, <2>2, <2>3 DEF Denial!Proof, Denial!EncloserProof, Denial!Verdict
<1> QED
  BY <1>3, <1>4

\* The next closer name of one that does not exist is denied.
LEMMA CloserProved ==
  ASSUME DenialInv, shown = Denial!Chain, NEW n \in Probes, ~Denial!Exists(n),
         \A x \in Denial!Ancestors(n) \ {n} : Open(x), style = "optout" => Denial!Kept(Denial!Closest(n))
  PROVE  /\ n \in Labels /\ Denial!Closest(n) \in ZoneNames /\ Denial!Closest(n) # n /\ Denial!Below(n, Denial!Closest(n))
         /\ n \notin shown /\ Denial!Enclosers(n) # {} /\ Denial!Deepest(Denial!Enclosers(n)) = Denial!Closest(n)
         /\ Denial!NextCloserDenied(n, Denial!Closest(n))
<1>0. n \in Labels
  BY DenialAssumption DEF Labels
<1>1. PICK c : c = Denial!Closest(n)
  OBVIOUS
<1>2. /\ c \in Labels /\ Denial!Below(n, c) /\ Denial!Exists(c) /\ c # n
      /\ \A x \in Denial!Ancestors(n) : Denial!Exists(x) => Len(x) <= Len(c)
      /\ Denial!Enclosers(n) # {} /\ Denial!Deepest(Denial!Enclosers(n)) = c
  BY <1>0, <1>1, AllWitnessed
<1>3. c \in ZoneNames
  <2>1. PICK y \in ZoneNames : Denial!Below(y, c)
    BY <1>2 DEF Denial!Exists
  <2> QED
    BY <1>2, <2>1, ZoneIs, AncestorsAre DEF DenialInv
<1>4. n \notin shown
  BY ChainIs
<1>5. PICK nc : nc = Denial!Closer(n, c)
  OBVIOUS
<1>6. nc \in Labels /\ nc \in Universe /\ Denial!Below(n, nc) /\ Len(nc) = Len(c) + 1 /\ Len(c) \in Nat
  BY <1>0, <1>2, <1>5, CloserIsProbed, CloserIs DEF Labels
<1>7. ~Denial!Exists(nc)
  BY <1>0, <1>2, <1>6, AncestorsAre
<1>8. nc \notin Denial!Chain
  BY <1>7, ChainIs
<1>9. ASSUME NEW x \in Labels, Denial!Below(nc, x), x # nc PROVE Open(x)
  <2>1. Denial!Below(n, x) /\ Len(x) < Len(nc) /\ Len(nc) <= Len(n) /\ Len(x) \in Nat /\ Len(nc) \in Nat /\ Len(n) \in Nat
    BY <1>0, <1>6, <1>9, BelowOrder DEF Labels
  <2>2. x # n
    BY <2>1
  <2> QED
    BY <1>0, <2>1, <2>2, AncestorsAre
<1>10. Denial!Covered(nc)
  BY <1>6, <1>8, <1>9, AllCovered
<1>11. c \in shown => Denial!Authoritative(Denial!Bitmap(c))
  <2>1. Open(c)
    BY <1>0, <1>2, AncestorsAre
  <2> QED
    BY <2>1, BitmapIs
<1> QED
  BY <1>0, <1>1, <1>2, <1>3, <1>4, <1>5, <1>10, <1>11 DEF Denial!NextCloserDenied

\* A name that does not exist is denied, with its wildcard or with the type at it.
LEMMA NxdomainProved ==
  ASSUME DenialInv, shown = Denial!Chain, NEW n \in Probes \ {<<>>}, NEW t \in Denial!QTypes,
         ~Denial!Exists(n), \A x \in Denial!Ancestors(n) \ {n} : Open(x), style = "optout" => Denial!Kept(Denial!Closest(n))
  PROVE  /\ Denial!Lookup(n, t) = "nxdomain" => Denial!Proof(n, t, "nxdomain").valid
         /\ Denial!Lookup(n, t) = "wildcard_nodata" => Denial!Proof(n, t, "wildcard_nodata").valid
<1>1. PICK c : c = Denial!Closest(n)
  OBVIOUS
<1>2. PICK s : s = Denial!Star(c)
  OBVIOUS
<1>3. /\ n \in Labels /\ c \in ZoneNames /\ c \in Labels /\ c # n /\ Denial!Below(n, c)
      /\ n \notin shown /\ Denial!Enclosers(n) # {} /\ Denial!Deepest(Denial!Enclosers(n)) = c
      /\ Denial!NextCloserDenied(n, c)
  BY <1>1, CloserProved, ZoneIs DEF DenialInv
<1>4. /\ s \in Labels /\ s \in Universe
      /\ Denial!Exists(s) <=> Denial!Types(s) # {}
      /\ Denial!Kept(s) <=> Denial!Types(s) # {}
      /\ "NS" \notin Denial!Types(s) /\ "SOA" \notin Denial!Types(s)
  BY <1>2, <1>3, StarHolds
<1>5. s \in Denial!Chain <=> Denial!Types(s) # {}
  BY <1>4, ChainIs DEF DenialInv
<1>6. ASSUME Denial!Lookup(n, t) = "nxdomain" PROVE Denial!Covered(s)
  <2>1. Denial!Types(s) = {}
    BY <1>1, <1>2, <1>3, <1>6, LookupIs
  <2>2. ASSUME NEW x \in Labels, Denial!Below(s, x), x # s PROVE Open(x)
    <3>1. Denial!Below(c, x)
      BY <1>2, <1>3, <2>2, StarIs
    <3>2. Denial!Below(n, x) /\ x # n
      <4>1. Denial!Below(n, x) /\ Len(x) <= Len(c) /\ Len(c) < Len(n) /\ Len(x) \in Nat /\ Len(c) \in Nat /\ Len(n) \in Nat
        BY <1>3, <3>1, BelowOrder DEF Labels
      <4> QED
        BY <4>1
    <3> QED
      BY <1>3, <3>2, AncestorsAre
  <2> QED
    BY <1>4, <1>5, <2>1, <2>2, AllCovered
<1>7. ASSUME Denial!Lookup(n, t) = "wildcard_nodata" PROVE s \in shown /\ Denial!DeniesType(Denial!Bitmap(s), t)
  <2>1. Denial!Types(s) # {} /\ t \notin Denial!Types(s) /\ t # "ANY" /\ "CNAME" \notin Denial!Types(s)
    BY <1>1, <1>2, <1>3, <1>7, LookupIs
  <2>2. s \in Denial!Chain /\ t \in {"A", "DS"}
    BY <1>5, <2>1 DEF Denial!QTypes
  <2>3. t \notin Denial!Bitmap(s) /\ "CNAME" \notin Denial!Bitmap(s) /\ "SOA" \notin Denial!Bitmap(s) /\ ~Denial!IsCut(Denial!Bitmap(s))
    BY <1>4, <2>1, <2>2, BitmapIs DEF Denial!IsCut
  <2> QED
    BY <2>1, <2>2, <2>3 DEF Denial!DeniesType
<1> QED
  BY <1>2, <1>3, <1>6, <1>7 DEF Denial!Proof, Denial!EncloserProof, Denial!Verdict

\* A zone that shows all its records is believed.
LEMMA ProvableHolds == ASSUME DenialInv PROVE Denial!AbsenceIsProvable
<1> SUFFICES ASSUME shown = Denial!Chain, NEW n \in Probes \ {<<>>}, NEW t \in Denial!QTypes,
                    Denial!Lookup(n, t) \in Denial!Kinds, style = "optout" => Denial!Kept(Denial!Closest(n))
             PROVE  Denial!Proof(n, t, Denial!Lookup(n, t)).valid
  BY DEF Denial!AbsenceIsProvable
<1>0. n \in Labels
  BY DenialAssumption DEF Labels
<1>1. \A x \in Denial!Ancestors(n) \ {n} : Open(x)
  BY DEF Denial!Lookup, Denial!Kinds, Open
<1>2. CASE Denial!Exists(n)
  <2>1. Denial!Lookup(n, t) = "nodata"
    BY <1>0, <1>1, <1>2, LookupIs DEF Denial!Kinds
  <2> QED
    BY <1>1, <1>2, <2>1, NodataProved
<1>3. CASE ~Denial!Exists(n)
  <2>1. Denial!Lookup(n, t) \in {"nxdomain", "wildcard_nodata"}
    BY <1>0, <1>1, <1>3, LookupIs DEF Denial!Kinds
  <2> QED
    BY <1>1, <1>3, <2>1, NxdomainProved
<1> QED
  BY <1>2, <1>3

\* What the invariant says of the verdicts.
LEMMA DenialMeans == ASSUME DenialInv PROVE Denial!DenialIsSound
BY AbsenceHolds, UnsignedHolds, ExpansionHolds, ProvableHolds DEF Denial!DenialIsSound

\* A zone of which nothing has been shown.
LEMMA DenialBegins == ASSUME Denial!Init PROVE DenialInv
BY DEF Denial!Init, DenialInv

\* One more record of the zone is shown.
LEMMA DenialStep == ASSUME DenialInv, Denial!Next PROVE DenialInv'
<1>1. PICK x \in Denial!Chain \ shown : shown' = shown \union {x} /\ UNCHANGED <<zone, style>>
  BY DEF Denial!Next, Denial!Show
<1>2. Denial!Chain' = Denial!Chain
  BY <1>1 DEF Denial!Chain, Denial!Exists, Denial!Kept
<1>3. shown' \subseteq Denial!Chain
  BY <1>1 DEF DenialInv
<1> QED
  BY <1>1, <1>2, <1>3 DEF DenialInv

\* A stuttering step leaves the zone and its records.
LEMMA DenialStays == ASSUME DenialInv, UNCHANGED Denial!vars PROVE DenialInv'
<1>1. Denial!Chain' = Denial!Chain
  BY DEF Denial!vars, Denial!Chain, Denial!Exists, Denial!Kept
<1> QED
  BY <1>1 DEF DenialInv, Denial!vars

-----------------------------------------------------------------------------
(***************************************************************************)
(* One component moves.                                                    *)
(***************************************************************************)

AnyInv ==
    /\ part \in {"trust", "denial", "resolution", "membership", "service", "status", "mirror", "restart"}
    /\ part = "trust" => TrustInv
    /\ part = "denial" => DenialInv
    /\ part = "resolution" => ResolutionInv
    /\ part = "membership" => MemberInv
    /\ part = "service" => ServiceInv
    /\ part = "status" => StatusInv
    /\ part = "mirror" => MirrorInv(MaxSerial, 0)
    /\ part = "restart" => MirrorInv(2, MaxCrashes)

\* Every component starts in its invariant.
LEMMA AnyInitHolds == AnyInit => AnyInv
<1> SUFFICES ASSUME AnyInit PROVE AnyInv
  OBVIOUS
<1>1. part = "membership" => MemberInv
  BY MemberInit DEF AnyInit
<1>2. part = "service" => ServiceInv
  BY ServiceInit DEF AnyInit
<1>3. part = "mirror" => MirrorInv(MaxSerial, 0)
  <2> SUFFICES ASSUME part = "mirror" PROVE MirrorInv(MaxSerial, 0)
    OBVIOUS
  <2>1. Mirror!Init
    BY DEF AnyInit
  <2>2. Mirror!Authorities = Auth(MaxSerial, 0)
    BY DEF Mirror!Authorities, Mirror!Serials, Auth
  <2> QED
    BY <2>1, <2>2, MirrorAssumption, MirrorInit DEF Mirror!Init
<1>4. part = "restart" => MirrorInv(2, MaxCrashes)
  <2> SUFFICES ASSUME part = "restart" PROVE MirrorInv(2, MaxCrashes)
    OBVIOUS
  <2>1. Restart!Init
    BY DEF AnyInit
  <2>2. Restart!Authorities = Auth(2, MaxCrashes)
    BY DEF Restart!Authorities, Restart!Serials, Auth
  <2>3. Restart!NoCrl = Mirror!NoCrl /\ Restart!Idle = Mirror!Idle
    BY DEF Restart!NoCrl, Mirror!NoCrl, Restart!Idle, Mirror!Idle
  <2> QED
    BY <2>1, <2>2, <2>3, MirrorAssumption, MirrorInit DEF Restart!Init
<1>5. part = "status" => StatusInv
  BY StatusInit DEF AnyInit
<1>6. part = "resolution" => ResolutionInv
  BY ResolutionInit DEF AnyInit
<1>7. part = "trust" => TrustInv
  BY TrustBegins DEF AnyInit
<1>8. part = "denial" => DenialInv
  BY DenialBegins DEF AnyInit
<1> QED
  BY <1>1, <1>2, <1>3, <1>4, <1>5, <1>6, <1>7, <1>8 DEF AnyInit, AnyInv

\* Every step is a step of one component.
LEMMA AnyStep == AnyInv /\ AnyNext => AnyInv'
<1> SUFFICES ASSUME AnyInv, AnyNext PROVE AnyInv'
  OBVIOUS
<1>1. CASE MemberMoves
  <2>1. part = "membership" /\ part' = part /\ Member!Next
    BY <1>1 DEF MemberMoves
  <2>2. MemberInv'
    BY <2>1, MemberStep DEF AnyInv
  <2> QED
    BY <2>1, <2>2 DEF AnyInv
<1>2. CASE ServiceMoves
  <2>1. part = "service" /\ part' = part /\ Service!Next
    BY <1>2 DEF ServiceMoves
  <2>2. ServiceInv'
    BY <2>1, ServiceStep DEF AnyInv
  <2> QED
    BY <2>1, <2>2 DEF AnyInv
<1>3. CASE MirrorMoves
  <2>1. part = "mirror" /\ part' = part /\ Mirror!Next
    BY <1>3 DEF MirrorMoves
  <2>2. MirrorInv(MaxSerial, 0)'
    BY <2>1, MirrorStep DEF AnyInv
  <2> QED
    BY <2>1, <2>2 DEF AnyInv
<1>4. CASE RestartMoves
  <2>1. part = "restart" /\ part' = part /\ Restart!Next
    BY <1>4 DEF RestartMoves
  <2>2. MirrorInv(2, MaxCrashes)'
    BY <2>1, RestartStep DEF AnyInv
  <2> QED
    BY <2>1, <2>2 DEF AnyInv
<1>5. CASE StatusMoves
  <2>1. part = "status" /\ part' = part /\ Status!Next
    BY <1>5 DEF StatusMoves
  <2>2. StatusInv'
    BY <2>1, StatusStep DEF AnyInv
  <2> QED
    BY <2>1, <2>2 DEF AnyInv
<1>6. CASE ResolvingMoves
  <2>1. part = "resolution" /\ part' = part /\ Resolving!Next
    BY <1>6 DEF ResolvingMoves
  <2>2. ResolutionInv'
    BY <2>1, ResolutionStep DEF AnyInv
  <2> QED
    BY <2>1, <2>2 DEF AnyInv
<1>7. CASE DenialMoves
  <2>1. part = "denial" /\ part' = part /\ Denial!Next
    BY <1>7 DEF DenialMoves
  <2>2. DenialInv'
    BY <2>1, DenialStep DEF AnyInv
  <2> QED
    BY <2>1, <2>2 DEF AnyInv
<1>8. CASE TrustMoves
  <2>1. part = "trust" /\ part' = part /\ Next
    BY <1>8 DEF TrustMoves
  <2>2. TrustInv'
    BY <2>1, TrustStep DEF AnyInv
  <2> QED
    BY <2>1, <2>2 DEF AnyInv
<1> QED
  BY <1>1, <1>2, <1>3, <1>4, <1>5, <1>6, <1>7, <1>8 DEF AnyNext

\* A stuttering step changes nothing.
LEMMA AnyStutters == AnyInv /\ UNCHANGED anyVars => AnyInv'
<1> SUFFICES ASSUME AnyInv, UNCHANGED anyVars PROVE AnyInv'
  OBVIOUS
<1>a. UNCHANGED part /\ UNCHANGED membershipVars /\ UNCHANGED serviceVars /\ UNCHANGED mirrorVars
      /\ UNCHANGED statusVars /\ UNCHANGED resolutionVars
  BY DEF anyVars
<1>1. MemberInv => MemberInv'
  BY <1>a DEF membershipVars, MemberInv, LookupSound, KeptSound, RequestSound, Held, Member!EvidenceIsCurrent, Member!Is
<1>2. ServiceInv => ServiceInv'
  BY <1>a DEF serviceVars, ServiceInv, ServiceTypes, ConnSound, DatagramSound, AnswerSound, Awaited, CapacitySound,
     UdpHeld, UdpRunning, TcpHeld, TcpRunning, ConnHeld, Of
<1>3. \A m, k \in Nat : MirrorInv(m, k) => MirrorInv(m, k)'
  <2> SUFFICES ASSUME NEW m \in Nat, NEW k \in Nat, MirrorInv(m, k) PROVE MirrorInv(m, k)'
    OBVIOUS
  <2>1. UNCHANGED <<mirrorConn, pair, heads, service, mirrorShown, serial, mirrorClock, crashes>>
    BY <1>a DEF mirrorVars
  <2>2. \A d : Mirror!Signer(d)' = Mirror!Signer(d)
    BY <2>1 DEF Mirror!Signer
  <2>3. MirrorTypes(m, k)'
    BY <2>1 DEF MirrorInv, MirrorTypes
  <2>4. ComposedSound(m, k)' /\ PairSound(m, k)' /\ ShownSound(m, k)' /\ ServedSound'
    BY <2>1, <2>2 DEF MirrorInv, ComposedSound, PairSound, ShownSound, ServedSound
  <2> QED
    BY <2>3, <2>4 DEF MirrorInv
<1>4. MirrorInv(MaxSerial, 0) => MirrorInv(MaxSerial, 0)'
  BY <1>3, MirrorAssumption
<1>5. MirrorInv(2, MaxCrashes) => MirrorInv(2, MaxCrashes)'
  BY <1>3, MirrorAssumption
<1>6. StatusInv => StatusInv'
  BY <1>a DEF statusVars, StatusInv, StatusTyped, Numbered, Clean, Earned, Past, Begun
<1>7. ResolutionInv => ResolutionInv'
  BY <1>a DEF resolutionVars, ResolutionInv, Resolving!TtlsOnlyShrink
<1>8. TrustInv => TrustInv'
  <2>1. UNCHANGED vars
    BY DEF anyVars, trustVars
  <2> QED
    BY <2>1, TrustStands
<1>9. DenialInv => DenialInv'
  <2>1. UNCHANGED <<zone, style, shown>>
    BY DEF anyVars, denialVars
  <2>2. UNCHANGED Denial!vars
    BY <2>1 DEF Denial!vars
  <2> QED
    BY <2>2, DenialStays
<1> QED
  BY <1>a, <1>1, <1>2, <1>4, <1>5, <1>6, <1>7, <1>8, <1>9 DEF AnyInv

\* The invariant holds of every behaviour.
LEMMA AnyInvariance == AnySpec => []AnyInv
<1>1. AnyInv /\ [AnyNext]_anyVars => AnyInv'
  BY AnyStep, AnyStutters
<1> QED
  BY <1>1, AnyInitHolds, PTL DEF AnySpec

\* Whatever an upstream shows, a zone is called secure only by its own keys below an unbroken
\* line of signed delegations and insecure only below a delegation that really is unsigned;
\* an answer is marked authentic only if a securely delegated zone says it; and an honest
\* upstream is never called bogus where the truth is within reach: for any depth of names.
THEOREM TrustStaysEarned == AnySpec => []TrustEarned
<1>1. AnyInv => TrustEarned
  BY TrustMeans DEF AnyInv, TrustEarned
<1> QED
  BY <1>1, AnyInvariance, PTL

\* Whichever genuine records a zone's upstream shows, a name or a type is denied only where
\* it is absent, a delegation is called unsigned only where it is, and a wildcard is expanded
\* only where the zone would; and a zone that shows them all is believed: for any zone.
THEOREM DenialStaysSound == AnySpec => []DenialIsSound
<1>1. AnyInv => DenialIsSound
  BY DenialMeans DEF AnyInv, DenialIsSound
<1> QED
  BY <1>1, AnyInvariance, PTL

\* However the names lead on, a resolution keeps its limits; the evidence it gathers lapses
\* no later than any record that led to one of its addresses; and a client may keep no
\* record longer than the upstream allowed, the time of the walk included.
THEOREM ResolutionHolds == AnySpec => []ResolutionIsSound
<1>1. AnyInv => ResolutionIsSound
  BY ResolutionMeans DEF AnyInv, ResolutionIsSound
<1> QED
  BY <1>1, AnyInvariance, PTL

\* A request on a guest's connection is let through only on evidence that is current for
\* it, however lookups are shared, cancelled and overtaken; evidence and lookups stay
\* within the bound, and a closed connection leaves nothing behind.
THEOREM EvidenceLetsThrough == AnySpec => []MembershipIsCurrent
<1>1. AnyInv => MembershipIsCurrent
  BY MemberMeans DEF AnyInv, MembershipIsCurrent
<1> QED
  BY <1>1, AnyInvariance, PTL

\* The DNS service counts exactly what it holds, within every limit; a connection that
\* did not fail is owed no more and no less than it asked; and a service that is closed
\* holds nothing.
THEOREM ServiceCounts == AnySpec => []ServiceIsSound
<1>1. AnyInv => ServiceIsSound
  BY ServiceMeans DEF AnyInv, ServiceIsSound
<1> QED
  BY <1>1, AnyInvariance, PTL

\* When the status of a chain is acquired, a revocation that is handed on was said by a
\* status or a CRL of its issuer, and where none is handed on the newest of the CRLs taken
\* for a reason does not revoke for it, whatever bases and deltas came and in which order.
THEOREM StatusStaysTrue == AnySpec => []StatusIsTrue
<1>1. AnyInv => StatusIsTrue
  BY StatusMeans DEF AnyInv, StatusIsTrue
<1> QED
  BY <1>1, AnyInvariance, PTL

\* A revoked certificate that a guest was shown stays listed and no other is ever listed,
\* a CRL's number is never used again, and a sound origin keeps its certificate: for any
\* number of serials without a crash and for two with any number of crashes (MirrorKeeps
\* has both bounds free).
THEOREM ShownStaysTrue == AnySpec => []ShownStands
<1>1. \A m, k \in Nat : MirrorInv(m, k) => Mirror!ShownStands
  BY MirrorMeans
<1>2. AnyInv => ShownStands
  BY <1>1, MirrorAssumption DEF AnyInv, ShownStands
<1> QED
  BY <1>2, AnyInvariance, PTL
=============================================================================
