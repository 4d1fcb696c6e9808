-------------------------- MODULE StatusAcquisition --------------------------
(***************************************************************************)
(* The revocation status of an origin's certificate chain, acquired before *)
(* the guest's TLS handshake is answered (status_acquisition.py): for every *)
(* depth an OCSP response, then every full CRL the certificate advertises  *)
(* and the deltas they name, evaluated as one set (crl_status.py).  The    *)
(* issuers publish numbered CRLs meanwhile, and a replica of an endpoint   *)
(* may serve an older one that is still fresh, so the CRLs of one          *)
(* evaluation need not be of one moment.                                   *)
(*                                                                         *)
(* Every limit, malformed or stale input, failed fetch and the deadline is *)
(* `Refuse`, at any exchange.                                              *)
(***************************************************************************)
EXTENDS Integers, Sequences

CONSTANTS
  Reasons,      \* the revocation reasons a CRL can be limited to
  Hold,         \* the one of them that can be lifted again
  Advertised,   \* depth -> what the certificate there advertises:
                \* [ocsp, must : BOOLEAN, crls, freshest : sets of endpoints]; an
                \* endpoint is <<the scope of its CRLs, its number>>
  MaxFetches,   \* status requests one acquisition may make
  MaxNumber     \* bound of the model: CRLs an issuer publishes

VARIABLES
  ca,           \* depth -> the statuses its issuer has published, by CRL number
  conn          \* the acquisition of one connection

vars == <<ca, conn>>

None == "none"
NoStatus == [given |-> FALSE, revoked |-> FALSE, sound |-> FALSE]
Depths == DOMAIN Advertised
Idle == [pc |-> "idle", at |-> 0, staple |-> [d \in Depths |-> NoStatus], revoked |-> {},
         wires |-> [d \in Depths |-> {}], left |-> {}, count |-> 0]

Init ==
  /\ ca = [d \in Depths |-> <<None>>]
  /\ conn = Idle

-----------------------------------------------------------------------------
(* The origin's issuers.                                                   *)

\* An issuer publishes its next CRL number, in which the status may change.
IssuerPublishes(d) ==
  /\ Len(ca[d]) < MaxNumber
  /\ \E s \in {None} \union Reasons :
       /\ ca[d][Len(ca[d])] \in Reasons \ {Hold} => s = ca[d][Len(ca[d])]
       /\ ca' = [ca EXCEPT ![d] = Append(@, s)]
  /\ UNCHANGED conn

\* What the CRL w of depth d says of the certificate.
Entry(d, w) ==
  LET now == ca[d][w.number]
      listed == IF now \in w.scope THEN now ELSE None
  IN CASE w.since = 0 -> listed
       [] w.since # 0 /\ listed # None -> listed
       [] OTHER -> IF \E n \in w.since..w.number : ca[d][n] \in w.scope THEN "lifted" ELSE None

-----------------------------------------------------------------------------
(* crl_status.py: base and delta evaluation.                               *)

Bases(ws) == {w \in ws : w.since = 0}
Deltas(ws) == ws \ Bases(ws)
Matching(b, ws) == {w \in Deltas(ws) : w.scope = b.scope /\ w.since <= b.number /\ b.number < w.number}
\* Mutant: the first delta that matches is applied.
Earliest(ms) == CHOOSE w \in ms : \A x \in ms : x.number >= w.number
Latest(ms) == CHOOSE w \in ms : \A x \in ms : x.number <= w.number

\* A base with the latest of the deltas that match it.
Standing(d, b, ws) ==
  LET ms == Matching(b, ws)
      change == IF ms = {} THEN None ELSE Entry(d, Latest(ms))
  IN CASE change = "lifted" -> None
       [] change = None -> Entry(d, b)
       [] OTHER -> change

\* Two endpoints that serve one delta are a conflict as well.
Conflicting(b, ws) == \E x, y \in Matching(b, ws) : x # y /\ x.number = y.number
Unlawful(d, b, ws) ==
  /\ Matching(b, ws) # {}
  /\ Entry(d, Latest(Matching(b, ws))) = "lifted"
  /\ Entry(d, b) \notin {None, Hold}
\* Mutant: a delta without its base is passed over.
UnusedIgnored(ws) == {}
Unused(ws) == {w \in Deltas(ws) : \A b \in Bases(ws) : w \notin Matching(b, ws)}

CrlRevoked(d, ws) == \E b \in Bases(ws) : Standing(d, b, ws) # None

\* The set of CRLs establishes a status at all.
Conclusive(d, ws) ==
  /\ \A b \in Bases(ws) : ~Conflicting(b, ws) /\ ~Unlawful(d, b, ws)
  /\ Bases(ws) # {} /\ Unused(ws) = {}
  /\ CrlRevoked(d, ws) \/ UNION {b.scope : b \in Bases(ws)} = Reasons

\* OCSP evidence counts as a revocation when that is its only defect.
Revoking(r) == r.given /\ r.revoked /\ r.sound

-----------------------------------------------------------------------------
(* StatusAcquisition.acquire                                               *)

Refuse ==
  /\ conn.pc \notin {"idle", "acquired"}
  /\ conn' = Idle
  /\ UNCHANGED ca

\* An OCSP response about depth d as its issuer could have given it by now.
Responses(d) ==
  [given : {TRUE}, revoked : {ca[d][n] # None : n \in 1..Len(ca[d])}, sound : BOOLEAN]

\* The handshake with the origin, which may staple a response for its certificate.
Observe ==
  /\ conn.pc = "idle"
  /\ \E r \in {NoStatus} \union Responses(0) :
       conn' = [Idle EXCEPT !.pc = "status", !.staple = [@ EXCEPT ![0] = r]]
  /\ UNCHANGED ca

Asking(pc) == conn.pc = pc /\ conn.at \in Depths
Spend == conn.count < MaxFetches

\* The response of a depth: stapled, fetched from the first advertised responder,
\* or none.  A certificate that must staple is refused without one.
TakeStatus ==
  /\ Asking("status")
  /\ LET d == conn.at
         fetch == ~conn.staple[d].given /\ Advertised[d].ocsp
     IN /\ Advertised[d].must => conn.staple[d].given
        /\ fetch => Spend
        /\ \E r \in IF fetch THEN Responses(d) ELSE {conn.staple[d]} :
             conn' = [conn EXCEPT !.pc = "crls", !.staple = [@ EXCEPT ![d] = r],
                        !.revoked = IF Revoking(r) THEN @ \union {d} ELSE @,
                        !.left = Advertised[d].crls,
                        !.count = IF fetch THEN @ + 1 ELSE @]
  /\ UNCHANGED ca

\* A full CRL from each advertised endpoint; a replica may serve an older number.
TakeBase ==
  /\ Asking("crls") /\ Spend
  /\ \E e \in conn.left, n \in 1..Len(ca[conn.at]) :
       conn' = [conn EXCEPT !.left = @ \ {e}, !.count = @ + 1,
                  !.wires[conn.at] = @ \union
                     {[from |-> e, scope |-> e[1], number |-> n, since |-> 0]}]
  /\ UNCHANGED ca

BasesTaken ==
  /\ Asking("crls") /\ conn.left = {}
  /\ conn' = [conn EXCEPT !.pc = "deltas", !.left = Advertised[conn.at].freshest]
  /\ UNCHANGED ca

\* Then the deltas that the certificate and the full CRLs name.
TakeDelta ==
  /\ Asking("deltas") /\ Spend
  /\ \E e \in conn.left, n \in 2..Len(ca[conn.at]) : \E m \in 1..n - 1 :
       conn' = [conn EXCEPT !.left = @ \ {e}, !.count = @ + 1,
                  !.wires[conn.at] = @ \union
                     {[from |-> e, scope |-> e[1], number |-> n, since |-> m]}]
  /\ UNCHANGED ca

\* The depth is concluded; inconclusive CRLs refuse the connection.
Conclude ==
  /\ Asking("deltas") /\ conn.left = {}
  /\ LET d == conn.at
         ws == conn.wires[d]
     IN /\ ws # {} => Conclusive(d, ws)
        /\ conn' = [conn EXCEPT !.at = @ + 1,
                      !.pc = IF d + 1 \in Depths THEN "status" ELSE "acquired",
                      !.revoked = IF CrlRevoked(d, ws) THEN @ \union {d} ELSE @]
  /\ UNCHANGED ca

\* The result goes to CertificateMirror.tla; another connection is prepared.
Handed ==
  /\ conn.pc = "acquired"
  /\ conn' = Idle
  /\ UNCHANGED ca

Next ==
  \/ \E d \in Depths : IssuerPublishes(d)
  \/ Observe \/ TakeStatus \/ TakeBase \/ BasesTaken \/ TakeDelta \/ Conclude \/ Refuse \/ Handed

Spec == Init /\ [][Next]_vars

-----------------------------------------------------------------------------
(* Properties                                                              *)

\* The newest of the CRLs taken for depth d that covers reason r.
Newest(d, r) ==
  LET ns == {w.number : w \in {x \in conn.wires[d] : r \in x.scope}}
  IN CHOOSE n \in ns : \A m \in ns : m <= n

\* No evidence masks another: a depth concluded as not revoked was revoked neither
\* by the newest CRL taken for any reason, of whatever endpoints and deltas it was put
\* together, nor by a sound OCSP response.
NoRevocationMasked ==
  \A d \in Depths \ conn.revoked : d < conn.at =>
      /\ ~Revoking(conn.staple[d])
      /\ conn.wires[d] # {} => \A r \in Reasons : ca[d][Newest(d, r)] # r

\* The other way round: a certificate is taken for revoked only when some evidence
\* about it says so.
RevocationsAreEarned ==
  \A d \in conn.revoked :
      Revoking(conn.staple[d]) \/ \E w \in conn.wires[d] : ca[d][w.number] \in w.scope

\* What a connection learns of its origin's status is what the evidence says.
StatusIsTrue == NoRevocationMasked /\ RevocationsAreEarned
=============================================================================
