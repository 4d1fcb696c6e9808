---------------------------- MODULE DnssecDenial ----------------------------
(***************************************************************************)
(* Authenticated denial of existence in the egress resolver.  A signed     *)
(* zone publishes NSEC records (owner, next owner, types) or NSEC3 records *)
(* (the same over hashed names, where an opt-out zone may leave unsigned   *)
(* delegations out).  An upstream shows some of them; validate_denial      *)
(* decides which of five statements about a name they prove.  The zone is  *)
(* the truth that every verdict is held against.                           *)
(*                                                                         *)
(* A name is the sequence of its labels below the apex <<>>; label 0 is    *)
(* the wildcard.  Records that fail their signature are skipped by the     *)
(* code, so only genuine ones are shown here.                              *)
(***************************************************************************)
EXTENDS Naturals, Sequences

CONSTANTS Names,    \* the names the zones are drawn from
          Contents, \* the sets of types each name may hold
          Probes,   \* the names asked about, a superset of Names
          Hash      \* the order of the hashed names, injective

VARIABLES zone,     \* the types at every name of the zone; {} where nothing is
          style,    \* "nsec", "nsec3" or "optout"
          shown     \* the owners whose records the upstream has shown

vars == <<zone, style, shown>>
----------------------------------------------------------------------------
(* Names and zones. *)
Below(x, y) == Len(y) <= Len(x) /\ SubSeq(x, 1, Len(y)) = y
Parent(x) == SubSeq(x, 1, Len(x) - 1)
Star(x) == Append(x, 0)
Ancestors(x) == {SubSeq(x, 1, n) : n \in 0..Len(x)}

\* The canonical order of names (RFC 4034 6.1): label by label from the apex.
Before(x, y) ==
    \/ Below(y, x) /\ x # y
    \/ \E i \in 1..Len(x) : /\ i <= Len(y)
                            /\ SubSeq(x, 1, i - 1) = SubSeq(y, 1, i - 1)
                            /\ x[i] < y[i]

IsCut(types) == "NS" \in types /\ "SOA" \notin types

\* What an authoritative server may hold: nothing lives below a cut or a
\* DNAME.
Lawful(z) ==
    \A x \in Names : \A y \in Ancestors(x) \ {x} :
       z[x] # {} => ~IsCut(z[y]) /\ "DNAME" \notin z[y]

Zones == {z \in [Names -> UNION {Contents[x] : x \in Names}] :
            Lawful(z) /\ \A x \in Names : z[x] \in Contents[x]}

Types(x) == IF x \in Names THEN zone[x] ELSE {}
Exists(x) == \E y \in Names : zone[y] # {} /\ Below(y, x)
UnsignedCut(types) == IsCut(types) /\ "DS" \notin types
----------------------------------------------------------------------------
(* The records the zone publishes. *)

\* An opt-out zone has no record for a name that exists only through its
\* unsigned delegations.
Kept(x) == \E y \in Names : zone[y] # {} /\ Below(y, x) /\ ~UnsignedCut(zone[y])

Chain == CASE style = "nsec"   -> {x \in Names : zone[x] # {}}
           [] style = "nsec3"  -> {x \in Names : Exists(x)}
           [] style = "optout" -> {x \in Names : Kept(x)}

Precedes(x, y) == IF style = "nsec" THEN Before(x, y) ELSE Hash[x] < Hash[y]
First(S) == CHOOSE x \in S : \A y \in S \ {x} : Precedes(x, y)
Following(x) == LET later == {y \in Chain : Precedes(x, y)}
                IN  First(IF later = {} THEN Chain ELSE later)

\* The NSEC record itself is in its bitmap; an NSEC3 bitmap may be empty.
Bitmap(x) == zone[x] \union (IF style = "nsec" THEN {"NSEC"} ELSE {})
----------------------------------------------------------------------------
(* validate_denial. *)
Authoritative(types) == "DNAME" \notin types /\ ~IsCut(types)

\* A child's SOA cannot deny the DS that its parent holds.
DeniesType(types, type) ==
    IF type = "ANY" THEN types = {}
    ELSE /\ types \intersect {type, "CNAME"} = {}
         /\ IF type = "DS" THEN "SOA" \notin types ELSE ~IsCut(types)

Delegates(types) == "NS" \in types /\ types \intersect {"DS", "SOA", "CNAME", "DNAME"} = {}

Spans(x, name) ==
    LET next == Following(x)
    IN  /\ name \notin {x, next}
        /\ \/ Precedes(x, name) /\ Precedes(name, next)
           \/ Precedes(next, x) /\ (Precedes(x, name) \/ Precedes(name, next))
           \/ x = next
        /\ style = "nsec" /\ Below(name, x) => Authoritative(Bitmap(x))

Covered(name) == \E x \in shown : Spans(x, name)

\* NSEC endpoints show that their ancestors exist; an NSEC3 record only its name.
Endpoints == IF style = "nsec" THEN shown \union {Following(x) : x \in shown} ELSE shown
Witnessed(name) == IF style = "nsec" THEN \E y \in Endpoints : Below(y, name)
                                     ELSE name \in Endpoints
Enclosers(name) == {x \in Ancestors(name) : Witnessed(x)}
Deepest(S) == CHOOSE x \in S : \A y \in S : Len(y) <= Len(x)

Closer(name, encloser) == SubSeq(name, 1, Len(encloser) + 1)

NextCloserTrusted(name, encloser) == Covered(Closer(name, encloser))

NextCloserDenied(name, encloser) ==
    /\ encloser \in shown => Authoritative(Bitmap(encloser))
    /\ Covered(Closer(name, encloser))

\* The verdict of one required proof: is it valid, and only by an opt-out span?
Verdict(valid, optOut) == [valid |-> valid, optOut |-> valid /\ optOut]

MatchProof(name, type, kind) ==
    Verdict(CASE kind = "nodata" -> DeniesType(Bitmap(name), type)
              [] kind = "unsigned_delegation" -> Delegates(Bitmap(name))
              [] OTHER -> FALSE, FALSE)

\* "wildcard" takes its encloser from the verified signature's label count.
WildcardProof(name, wildcard) ==
    Verdict(NextCloserDenied(name, Parent(wildcard)), style = "optout")

EncloserProof(name, type, kind) ==
    LET closest == Deepest(Enclosers(name))
        star    == Star(closest)
    IN  IF Enclosers(name) = {} THEN Verdict(FALSE, FALSE)
        ELSE IF closest = name THEN Verdict(kind = "nodata" /\ Covered(name), FALSE)
        ELSE Verdict(/\ NextCloserDenied(name, closest)
                     /\ \/ kind = "unsigned_delegation" /\ style = "optout"
                        \/ kind = "nodata" /\ type = "DS" /\ style = "optout"
                        \/ kind = "nxdomain" /\ Covered(star)
                        \/ /\ kind = "wildcard_nodata" /\ star \in shown
                           /\ DeniesType(Bitmap(star), type),
                     style = "optout")

Proof(name, type, kind) ==
    IF name \in shown THEN MatchProof(name, type, kind) ELSE EncloserProof(name, type, kind)
----------------------------------------------------------------------------
Init == /\ zone \in Zones
        /\ style \in {"nsec", "nsec3", "optout"}
        /\ shown = {}

\* The upstream shows one more record of the zone, at any owner.
Show == \E x \in Chain \ shown :
          /\ shown' = shown \union {x}
          /\ UNCHANGED <<zone, style>>

Next == Show
Spec == Init /\ [][Next]_vars
----------------------------------------------------------------------------
(* What an authoritative server of the zone answers. *)
Closest(name) == Deepest({x \in Ancestors(name) : Exists(x)})

Lookup(name, type) ==
    LET above == Ancestors(name) \ {name}
        here  == Types(name)
        star  == Types(Star(Closest(name)))
    IN  IF \E x \in above : IsCut(Types(x)) THEN "referral"
        ELSE IF \E x \in above : "DNAME" \in Types(x) THEN "dname"
        ELSE IF Exists(name)
        THEN IF IsCut(here) /\ type # "DS" THEN "referral"
             ELSE IF type \in here \/ (type = "ANY" /\ here # {}) THEN "answer"
             ELSE IF "CNAME" \in here THEN "cname" ELSE "nodata"
        ELSE IF star = {} THEN "nxdomain"
        ELSE IF type \in star \union {"ANY"} \/ "CNAME" \in star THEN "wildcard"
        ELSE "wildcard_nodata"

Kinds == {"nodata", "nxdomain", "wildcard_nodata"}
QTypes == {"A", "DS", "ANY"}

\* Nothing signed lives at the name, and nothing above it hides it.
LeftOut(name) ==
    /\ ~Kept(name)
    /\ \A x \in Ancestors(name) \ {name} :
          "DNAME" \notin Types(x) /\ (IsCut(Types(x)) => UnsignedCut(Types(x)))
----------------------------------------------------------------------------
(* Properties. *)

\* No choice of genuine records proves that a name or a type is absent when
\* the zone says otherwise: not below a cut or a DNAME, not at an empty
\* non-terminal, not where a wildcard would answer.
AbsenceIsTrue ==
    \A name \in Probes \ {<<>>}, type \in QTypes, kind \in Kinds :
       LET proof == Proof(name, type, kind)
       IN  proof.valid => IF proof.optOut THEN LeftOut(name) ELSE Lookup(name, type) = kind

\* A zone is declared unsigned only where its parent really delegates it
\* without a DS, or, by an opt-out span, holds nothing signed.
UnsignedIsTrue ==
    \A name \in Probes \ {<<>>} :
       LET proof == Proof(name, "DS", "unsigned_delegation")
       IN  proof.valid => IF proof.optOut THEN LeftOut(name) ELSE UnsignedCut(Types(name))

\* The names the code overlooks: with NSEC the record that spans an empty
\* non-terminal is taken to deny it when a wildcard expansion is checked.
Overlooked(name) == style = "nsec" /\ Exists(name) /\ Types(name) = {}

\* A signature expanded from a wildcard is accepted for a name only where the
\* zone would expand that wildcard, the overlooked names apart.
ExpansionIsTrue ==
    \A name \in Probes, x \in Names :
       LET wildcard == Star(x)
           proof    == WildcardProof(name, wildcard)
       IN  (/\ Types(wildcard) # {} /\ Below(name, x) /\ name \notin {x, wildcard}
            /\ name \notin shown /\ proof.valid /\ ~Overlooked(Closer(name, x)))
           => IF proof.optOut THEN LeftOut(name) ELSE ~Exists(name) /\ Closest(name) = x

\* A zone that shows all its records is believed: the checks are no stricter
\* than the denial they are for.
AbsenceIsProvable ==
    shown = Chain =>
       \A name \in Probes \ {<<>>}, type \in QTypes :
          LET truth == Lookup(name, type)
          IN  truth \in Kinds /\ (style = "optout" => Kept(Closest(name)))
              => Proof(name, type, truth).valid

DenialIsSound == AbsenceIsTrue /\ UnsignedIsTrue /\ ExpansionIsTrue /\ AbsenceIsProvable
=============================================================================
