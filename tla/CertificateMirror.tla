-------------------------- MODULE CertificateMirror --------------------------
(***************************************************************************)
(* What a guest is shown of an origin's certificate.  With the origin's    *)
(* status in hand (StatusAcquisition.tla), the egress Pod composes a       *)
(* certificate of its own: the stable pair of a sound origin               *)
(* (certificates.py), kept in the identity store, or a mirror that carries *)
(* the defects (certificate_mirror.py), whose revocations are published in *)
(* local CRLs (crl.py) that the guest fetches (crl_http.py).               *)
(*                                                                         *)
(* Composition runs without an await, so one connection composes at a      *)
(* time.  One origin certificate, so one retained pair.  Serials are drawn *)
(* in sequence where the code draws them at random.  A quota, an           *)
(* unrepresentable defect and a failed validation are `Refuse`.            *)
(***************************************************************************)
EXTENDS Integers, FiniteSets, Sequences

CONSTANTS
  Top,          \* the depth of the last certificate below the root
  Lifetime,     \* of a local CRL
  MaxEntries,   \* revocations one local CRL may list
  MaxOpen,      \* connections the CRL listener serves at once
  FetchedCrls,  \* the authorities whose CRL the guest asks for
  MaxTime, MaxSerial, MaxCrashes   \* bounds of the model

VARIABLES
  conn,         \* the connection being composed
  pair,         \* the retained pair of the origin's certificate
  heads,        \* local CRL authority -> its committed head
  service,      \* the listener of the local CRLs: [up, open, served], where served is
                \* the greatest number a guest was given of each authority
  shown,        \* the identities presented to guests
  serial, clock, crashes

vars == <<conn, pair, heads, service, shown, serial, clock, crashes>>

Depths == 0..Top
Serials == 1..MaxSerial
Authorities == {<<"signer", 0>>} \union {<<"process", k>> : k \in 0..MaxCrashes}
                 \union {<<"bridge", s>> : s \in Serials}
NoCrl == [number |-> 0, listed |-> {}, last |-> 0, until |-> 0]
Idle == [pc |-> "idle", issuer |-> "known", revoked |-> {}, own |-> <<>>, at |-> 0, now |-> 0]

Init ==
  /\ conn = Idle
  /\ pair = [serial |-> 0, stage |-> "none"]
  /\ heads = [a \in Authorities |-> NoCrl]
  /\ service = [up |-> TRUE, open |-> 0, served |-> [a \in FetchedCrls |-> 0]]
  /\ shown = {} /\ serial = 0 /\ clock = 1 /\ crashes = 0

\* An origin with its acquired status: does its chain end in an unknown root or lack its
\* issuer, and which depths have another defect, an OCSP response, a revocation?
Origins ==
  [issuer : {"known", "unknown", "absent"}, defects : SUBSET Depths, stapled : SUBSET Depths, revoked : SUBSET Depths]

\* Composition ends without an identity; nothing committed is undone.
Refuse ==
  /\ conn.pc \in {"pair", "mirror", "validated"}
  /\ conn' = Idle
  /\ UNCHANGED <<pair, heads, service, shown, serial, clock, crashes>>

-----------------------------------------------------------------------------
(* CertificatePairs: the stable pair of a sound origin.                    *)

\* CertificateStatusComposer.compose: a pair, or a mirror?
Sound(o) == o.issuer = "known" /\ o.defects \union o.revoked = {} /\ o.stapled \subseteq {0}

\* Mutant: the certificate is minted again when its publication was interrupted.
FindPairAgain ==
  /\ conn.pc = "idle" /\ \E o \in Origins : Sound(o)
  /\ serial < MaxSerial /\ serial' = serial + 1
  /\ pair' = [serial |-> serial + 1, stage |-> "prepared"]
  /\ conn' = [Idle EXCEPT !.pc = "pair"]
  /\ UNCHANGED <<heads, service, shown, clock, crashes>>

\* A retained pair is used again; otherwise one is minted and prepared.
FindPair ==
  /\ conn.pc = "idle" /\ \E o \in Origins : Sound(o)
  /\ conn' = [Idle EXCEPT !.pc = "pair"]
  /\ IF pair.serial # 0
       THEN UNCHANGED <<pair, serial>>
       ELSE /\ serial < MaxSerial
            /\ serial' = serial + 1
            /\ pair' = [serial |-> serial + 1, stage |-> "prepared"]
  /\ UNCHANGED <<heads, service, shown, clock, crashes>>

\* Publication is completed before the certificate is presented.
AdvancePair ==
  /\ conn.pc = "pair" /\ pair.stage # "active"
  /\ pair' = [pair EXCEPT !.stage = IF @ = "prepared" THEN "published" ELSE "active"]
  /\ UNCHANGED <<conn, heads, service, shown, serial, clock, crashes>>

PresentPair ==
  /\ conn.pc = "pair" /\ pair.stage = "active"
  /\ conn' = [conn EXCEPT !.pc = "presented"]
  /\ shown' = shown \union {[kind |-> "pair", revoked |-> {}, sound |-> {<<<<"signer", 0>>, pair.serial>>}]}
  /\ UNCHANGED <<pair, heads, service, serial, clock, crashes>>

-----------------------------------------------------------------------------
(* CRLRepository                                                           *)

Current(crl, now) == crl.number > 0 /\ crl.last <= now /\ now < crl.until

\* Mutant: a publication lists only the revocation it is made for.
ListingAnew(crl, s) == {s} \ {0}
Listing(crl, s) == IF s = 0 THEN crl.listed ELSE crl.listed \union {s}

\* The head is recent enough to be kept when nothing is added to it.
Kept(crl, s, now) ==
  crl.number > 0 /\ Listing(crl, s) = crl.listed /\ 2 * (crl.until - now) > Lifetime

\* publish(authority, revoke = s, or nothing when s is 0)
Publishable(crl, s, now) ==
  /\ crl.number > 0 => crl.last <= now
  /\ Kept(crl, s, now) => Current(crl, now)
  /\ Cardinality(Listing(crl, s)) <= MaxEntries

Published(crl, s, now) ==
  IF Kept(crl, s, now) THEN crl
  ELSE [number |-> crl.number + 1, listed |-> Listing(crl, s), last |-> now, until |-> now + Lifetime]

\* EnforcementHealth keeps the signer's own CRL current.
HealthPublishes ==
  LET a == <<"signer", 0>> IN
  /\ conn.pc \notin {"pair", "mirror", "validated"} /\ service.up
  /\ Publishable(heads[a], 0, clock)
  /\ heads' = [heads EXCEPT ![a] = Published(@, 0, clock)]
  /\ heads' # heads
  /\ UNCHANGED <<conn, pair, service, shown, serial, clock, crashes>>

-----------------------------------------------------------------------------
(* CertificateMirror                                                       *)

\* The deepest certificate whose defect or status has to be carried.
Deepest(o) ==
  LET carried == {0} \union o.defects \union o.stapled \union o.revoked
  IN CHOOSE d \in carried : \A e \in carried : e <= d

\* own[d + 1] is the serial of the mirrored certificate of depth d.  A chain without its
\* issuer is mirrored below an issuer that is minted too and never sent.
StartMirror ==
  /\ conn.pc = "idle"
  /\ \E o \in Origins :
       LET n == Deepest(o) + (IF o.issuer = "absent" THEN 2 ELSE 1) IN
       /\ ~Sound(o) /\ serial + n <= MaxSerial
       /\ serial' = serial + n
       /\ conn' = [pc |-> "mirror", issuer |-> o.issuer, revoked |-> o.revoked,
                   own |-> [k \in 1..n |-> serial + k],
                   at |-> IF o.revoked = {} THEN -1 ELSE Deepest(o), now |-> clock]
  /\ UNCHANGED <<pair, heads, service, shown, clock, crashes>>

\* Who signs the mirrored certificate of depth d: the certificate above it, the minted
\* CA, or the untrusted issuer of this process.
Signer(d) ==
  IF d + 1 < Len(conn.own) THEN <<"bridge", conn.own[d + 2]>>
  ELSE IF conn.issuer = "known" THEN <<"signer", 0>> ELSE <<"process", crashes>>

Mirrored == 0..Len(conn.own) - (IF conn.issuer = "absent" THEN 2 ELSE 1)

\* With a revocation to carry, every signer of the mirror publishes its CRL.
PublishMirror ==
  /\ conn.pc = "mirror" /\ conn.at >= 0
  /\ LET a == Signer(conn.at)
         s == IF conn.at \in conn.revoked THEN conn.own[conn.at + 1] ELSE 0
     IN /\ Publishable(heads[a], s, conn.now)
        /\ heads' = [heads EXCEPT ![a] = Published(@, s, conn.now)]
  /\ conn' = [conn EXCEPT !.at = @ - 1]
  /\ UNCHANGED <<pair, service, shown, serial, clock, crashes>>

\* The candidate is verified against the guest's trust, and has to show the defects that
\* the origin showed; another outcome is `Refuse`.
ValidateMirror ==
  /\ conn.pc = "mirror" /\ conn.at < 0
  /\ conn' = [conn EXCEPT !.pc = "validated"]
  /\ UNCHANGED <<pair, heads, service, shown, serial, clock, crashes>>

PresentMirror ==
  /\ conn.pc = "validated"
  /\ conn' = [conn EXCEPT !.pc = "presented"]
  /\ LET sent(ds) == {<<Signer(d), conn.own[d + 1]>> : d \in ds}
     IN shown' = shown \union {[kind |-> "mirror", revoked |-> sent(conn.revoked),
                               sound |-> sent(Mirrored \ conn.revoked)]}
  /\ UNCHANGED <<pair, heads, service, serial, clock, crashes>>

Finished ==
  /\ conn.pc = "presented"
  /\ conn' = Idle
  /\ UNCHANGED <<pair, heads, service, shown, serial, clock, crashes>>

-----------------------------------------------------------------------------
(* LocalCRLService, the clock and the process.                             *)

CrlAccept ==
  /\ service.up /\ service.open < MaxOpen
  /\ service' = [service EXCEPT !.open = @ + 1]
  /\ UNCHANGED <<conn, pair, heads, shown, serial, clock, crashes>>

\* The guest is given the committed head, when it is current.
CrlServe(a) ==
  /\ service.open > 0 /\ Current(heads[a], clock)
  /\ service' = [service EXCEPT !.open = @ - 1, !.served = [@ EXCEPT ![a] = heads[a].number]]
  /\ UNCHANGED <<conn, pair, heads, shown, serial, clock, crashes>>

\* An unlawful request, an unknown or outdated CRL and the deadline are denied; a
\* store that cannot be read stops the listener.
CrlDeny ==
  /\ service.open > 0
  /\ \E up \in {service.up, FALSE} : service' = [service EXCEPT !.open = @ - 1, !.up = up]
  /\ UNCHANGED <<conn, pair, heads, shown, serial, clock, crashes>>

\* The wall clock may be set back.
ClockMoves ==
  /\ clock' \in {clock - 1, clock + 1} \intersect 1..MaxTime
  /\ UNCHANGED <<conn, pair, heads, service, shown, serial, crashes>>

\* What is committed outlives the process; its untrusted issuer does not.
Crash ==
  /\ crashes < MaxCrashes
  /\ crashes' = crashes + 1 /\ conn' = Idle
  /\ service' = [service EXCEPT !.up = TRUE, !.open = 0]
  /\ UNCHANGED <<pair, heads, shown, serial, clock>>

Next ==
  \/ Refuse \/ Finished
  \/ FindPair \/ AdvancePair \/ PresentPair
  \/ StartMirror \/ PublishMirror \/ ValidateMirror \/ PresentMirror
  \/ HealthPublishes \/ CrlAccept \/ (\E a \in FetchedCrls : CrlServe(a)) \/ CrlDeny
  \/ ClockMoves \/ Crash

Spec == Init /\ [][Next]_vars

-----------------------------------------------------------------------------
(* Properties                                                              *)

\* A revoked certificate that a guest was shown stays listed in the committed CRL of
\* its signer, through later connections, the health publications, the clock and
\* crashes, and no other certificate shown is ever listed.
RevocationsStayListed ==
  \A i \in shown :
    /\ \A x \in i.revoked : x[2] \in heads[x[1]].listed
    /\ \A x \in i.sound : x[2] \notin heads[x[1]].listed

\* A guest never holds a CRL numbered above the one the authority will go on from.
NumbersAreNotReused == \A a \in FetchedCrls : service.served[a] <= heads[a].number

\* A sound origin is always shown with the same certificate.
PairIsStable ==
  \A i, j \in shown : (i.kind = "pair" /\ j.kind = "pair") => i.sound = j.sound

\* What guests were shown of an origin stays what it was.
ShownStands == RevocationsStayListed /\ NumbersAreNotReused /\ PairIsStable
=============================================================================
