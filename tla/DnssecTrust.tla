----------------------------- MODULE DnssecTrust -----------------------------
(***************************************************************************)
(* How the egress resolver comes to believe an answer.  An answer arrives  *)
(* with signatures and claims; the classifier walks from the claimed       *)
(* signer to a configured trust anchor, one exchange at a time, and calls  *)
(* every RRset secure, insecure, bogus or indeterminate; the answer is the *)
(* conjunction.  A synthetic copy is then built, checked to have the same  *)
(* outcome, and rendered for the client.                                   *)
(*                                                                         *)
(* Names lie on one line: name n is the parent of n + 1, Depth is the name *)
(* asked for.  What the zones really publish is the truth; what an         *)
(* upstream shows is drawn when the code first looks at it, and a          *)
(* signature of a zone's own key verifies only over what the zone          *)
(* publishes.  An honest upstream shows the truth.  Verdicts on denial     *)
(* records say what DnssecDenial shows them to say.                        *)
(***************************************************************************)
EXTENDS Naturals, Sequences, FiniteSets

CONSTANTS Depth, MaxAnchors,
          MaxSigners  \* the zones that may sign one RRset of an answer (_bounded)

\* The name asked for lies below the root.
ASSUME TrustAssumption == Depth \in Nat \ {0}

VARIABLES cuts,     \* the delegation at every name below the root
          anchors,  \* the names with a configured upstream anchor
          honest,   \* does the upstream show only the truth?
          stack,    \* the zones being authenticated, the innermost first
          memo,     \* the zones of this authentication
          zones,    \* the zones of this answer
          todo,     \* the owners of the RRsets still to be checked
          check,    \* the RRset being checked
          results,  \* the states of the RRsets already checked
          answer,   \* the kind of answer, and its state once classified
          reply     \* what the client got

truth == <<cuts, anchors, honest>>
vars  == <<truth, stack, memo, zones, todo, check, results, answer, reply>>

Names == 0..Depth
Greatest(S) == CHOOSE n \in S : \A k \in S : k <= n
----------------------------------------------------------------------------
(* The truth. *)
IsApex(n)  == n \in {0} \union {c \in 1..Depth : cuts[c] # "none"}
ZoneOf(n)  == Greatest({k \in 0..n : IsApex(k)})
Anchor(n)  == Greatest({a \in anchors : a <= n})
Signs(z)   == z \in anchors \/ (z > 0 /\ cuts[z] \in {"signed", "unsupported"})
IsSecure(n) == \A c \in (Anchor(n) + 1)..n : cuts[c] \in {"none", "signed"}

\* What zone z publishes about the delegation of a name n below it.
Delegation(z, n) == IF IsApex(n) /\ ZoneOf(n - 1) = z THEN cuts[n]
                    ELSE IF ZoneOf(n) = z THEN "none" ELSE "hidden"

\* Shown by its own record or, for the names below it, by an opt-out span.
ProvablyUnsigned(z, n) == \E c \in (z + 1)..n : Delegation(z, c) = "unsigned"

\* Does zone z publish the RRset asked for at n: the SOA of a denial, or data?
Publishes(z, n, kind) == ZoneOf(n) = z /\ (kind = "denial" => IsApex(n))

\* Where the resolver cannot learn the truth: below an unsigned delegation no
\* further delegation can be proved, nor is one without a DS below any zone
\* that is not secure.
OutOfReach(n) == \E c, d \in 1..n :
    /\ c < d /\ IsApex(d)
    /\ cuts[c] = "unsigned" \/ (cuts[c] = "unsupported" /\ cuts[d] = "unsigned")
----------------------------------------------------------------------------
(* Verdicts. *)
States  == {"secure", "insecure", "bogus", "indeterminate"}
Unknown == [state |-> "unknown", keys |-> "none"]
Zone(state, keys) == [state |-> state, keys |-> keys]
NotSecure(state)  == Zone(state, "none")

Weakest(S) == IF "indeterminate" \in S THEN "indeterminate"
              ELSE IF "bogus" \in S THEN "bogus"
              ELSE IF "insecure" \in S THEN "insecure"
              ELSE "secure"

\* A signature under the trusted keys of a zone verifies over the truth, or
\* over anything when those keys are not the zone's own.
Verifies(zone, isTrue) == zone.keys = "forged" \/ isTrue

Combined(S) == IF "bogus" \in S THEN "bogus"
               ELSE IF S = {} \/ "indeterminate" \in S THEN "indeterminate"
               ELSE IF "insecure" \in S THEN "insecure"
               ELSE "secure"

\* Key sets and the quality of the best signature over them: the zone's own
\* set, that set with foreign keys mixed in, a foreign set, none at all.
KeySets == {<<"true", "good">>} \union ({"true", "mixed", "forged"} \X {"odd", "bad"})
              \union {<<"forged", "good">>}

\* A set is accepted when a key that the parent (or the anchor) names signs it.
SignedSet(set) ==
    CASE set = <<"true", "good">> -> Zone("secure", "true")
      [] set[1] # "forged" /\ set[2] = "odd" -> NotSecure("indeterminate")
      [] OTHER -> NotSecure("bogus")

KeySetsShown(z) == IF honest THEN {<<"true", "good">>} ELSE KeySets
----------------------------------------------------------------------------
Running == reply.kind = "none"

NoCheck == [phase |-> "idle"]
Idle == stack = <<>>
NoZones == [n \in Names |-> Unknown]

Init == /\ cuts \in [1..Depth -> {"none", "signed", "unsigned", "unsupported"}]
        /\ anchors \in {A \in SUBSET Names :
                          0 \in A /\ Cardinality(A) <= MaxAnchors /\ \A a \in A \ {0} : cuts[a] \in {"signed", "unsigned"}}
        /\ honest \in BOOLEAN
        /\ stack = <<>> /\ memo = NoZones /\ zones = NoZones
        /\ todo = <<>> /\ check = NoCheck /\ results = {}
        /\ answer = [kind |-> "none", state |-> "none", soa |-> 0, optOut |-> FALSE]
        /\ reply = [kind |-> "none", ad |-> FALSE]
----------------------------------------------------------------------------
(* PositiveChains._zone: one frame per zone. *)
Frame(z) == [zone |-> z, step |-> "keys", keys |-> "none", left |-> {}, seen |-> {}]
Top == Head(stack)

Push(z) == /\ Running
           /\ stack' = <<Frame(z)>> \o stack
           /\ UNCHANGED <<truth, memo, zones, todo, check, results, answer, reply>>

Become(frame) == /\ Running
                 /\ stack' = <<frame>> \o Tail(stack)
                 /\ UNCHANGED <<truth, memo, zones, todo, check, results, answer, reply>>

\* The memo of an authentication ends with it; the answer keeps its result.
Return(zone) ==
    /\ Running
    /\ stack' = Tail(stack)
    /\ IF Len(stack) = 1
       THEN memo' = NoZones /\ zones' = [zones EXCEPT ![Top.zone] = zone]
       ELSE memo' = [memo EXCEPT ![Top.zone] = zone] /\ UNCHANGED zones
    /\ UNCHANGED <<truth, todo, check, results, answer, reply>>

\* Any ancestor may sign for a zone, but not one above its closest anchor.
AllAncestors(z) == 0..(z - 1)
Signers(z) == {p \in AllAncestors(z) : p >= Anchor(z)}

KeysShown(z) == IF ~honest THEN {"set", "empty", "none"}
                ELSE {IF IsApex(z) /\ Signs(z) THEN "set" ELSE "empty"}

AskKeys ==
    /\ ~Idle /\ Top.step = "keys"
    /\ \/ ~honest /\ Return(NotSecure("indeterminate"))
       \/ \E keys \in KeysShown(Top.zone) :
            IF Top.zone \notin anchors
            THEN Become([Top EXCEPT !.step = "ds", !.keys = keys])
            ELSE IF keys # "set" THEN Return(NotSecure("indeterminate"))
            ELSE \E set \in KeySetsShown(Top.zone) : Return(SignedSet(set))

\* No DS, with the denial records of some parents, or a DS with its signers.
AskDs ==
    /\ ~Idle /\ Top.step = "ds"
    /\ LET z == Top.zone
           parent == ZoneOf(z - 1)
           signer == IF Signs(parent) THEN {parent} \intersect Signers(z) ELSE {}
       IN  \/ /\ honest => cuts[z] # "unsigned" /\ signer = {}
              /\ Return(NotSecure("indeterminate"))
           \/ \E left \in SUBSET Signers(z) :
                /\ honest => cuts[z] = "unsigned" /\ left = signer
                /\ Become([Top EXCEPT !.step = "denial", !.left = left])
           \/ \E left \in (SUBSET Signers(z)) \ {{}} :
                /\ Top.keys # "none"
                /\ honest => cuts[z] # "unsigned" /\ left = signer
                /\ Become([Top EXCEPT !.step = "parents", !.left = left])

AskParent ==
    /\ ~Idle /\ Top.step \in {"denial", "parents"}
    /\ \E p \in Top.left : memo[p] = Unknown /\ Push(p)

\* A parent that is not secure, or shows nothing that verifies, is passed over.
Pass(p, state) == Become([Top EXCEPT !.left = @ \ {p}, !.seen = @ \union {state}])

DeniedByParent ==
    /\ ~Idle /\ Top.step = "denial"
    /\ \E p \in Top.left :
         /\ memo[p] # Unknown
         /\ \/ /\ honest => memo[p].state # "secure" \/ ~ProvablyUnsigned(p, Top.zone)
               /\ Pass(p, memo[p].state)
            \/ /\ memo[p].state = "secure"
               /\ Verifies(memo[p], ProvablyUnsigned(p, Top.zone))
               /\ Return(NotSecure("insecure"))

\* A DS that verifies names the child's keys, only unsupported ones, or others.
ChildOf(ds, keys) ==
    CASE ds = "unsupported" -> {NotSecure("insecure")}
      [] ds = "signed" /\ keys = "empty" -> {NotSecure("bogus")}
      [] OTHER -> {SignedSet(set) : set \in KeySetsShown(Top.zone)}

DelegatedByParent ==
    /\ ~Idle /\ Top.step = "parents"
    /\ \E p \in Top.left :
         /\ memo[p] # Unknown
         /\ \/ memo[p].state # "secure" /\ Pass(p, memo[p].state)
            \/ /\ memo[p].state = "secure" /\ ~honest
               /\ \E state \in {"secure", "indeterminate"} : Pass(p, state)
            \/ /\ memo[p].state = "secure"
               /\ \E ds \in {"signed", "unsupported"} :
                    /\ Verifies(memo[p], Delegation(p, Top.zone) = ds)
                    /\ \E zone \in ChildOf(ds, Top.keys) : Return(zone)

NoParentLeft ==
    /\ ~Idle /\ Top.step \in {"denial", "parents"} /\ Top.left = {}
    /\ Return(NotSecure(
         IF Top.step = "denial" \/ "indeterminate" \in Top.seen THEN "indeterminate"
         ELSE IF "insecure" \in Top.seen THEN "insecure"
         ELSE "bogus"))
----------------------------------------------------------------------------
(* AnswerAuthentication.classify: the RRsets of the answer, one by one. *)
Owners(kind) == CASE kind = "alias" -> <<Depth, Depth - 1>>
                  [] kind = "dname" -> <<Depth - 1>>
                  [] OTHER -> <<Depth>>

Classify ==
    /\ Running /\ answer.kind = "none"
    /\ \E kind \in {"data", "alias", "dname", "denial"}, soa \in Names :
         /\ kind # "denial" => soa = 0
         /\ honest /\ kind = "denial" => soa = ZoneOf(Depth)
         /\ answer' = [kind |-> kind, state |-> "open", soa |-> soa, optOut |-> FALSE]
         /\ todo' = IF kind = "denial" THEN <<soa>> ELSE Owners(kind)
    /\ UNCHANGED <<truth, stack, memo, zones, check, results, reply>>

\* The answer has signatures by some zones, or none and a zone is looked for.
BeginCheck ==
    /\ Running /\ Idle /\ check = NoCheck /\ todo # <<>>
    /\ LET owner == Head(todo)
           signers == IF Signs(ZoneOf(owner)) THEN {ZoneOf(owner)} ELSE {}
       IN  \/ \E left \in SUBSET (0..owner) :
                /\ Cardinality(left) <= MaxSigners
                /\ honest => left = signers /\ left # {}
                /\ check' = [phase |-> "signed", owner |-> owner, left |-> left,
                             seen |-> {}, checked |-> FALSE, valid |-> FALSE, optOut |-> FALSE]
           \/ \E apex \in 0..owner :
                /\ honest => signers = {} /\ apex = ZoneOf(owner)
                /\ apex >= Anchor(owner)
                /\ check' = [phase |-> "looking", owner |-> owner, zone |-> apex, next |-> apex + 1]
    /\ UNCHANGED <<truth, stack, memo, zones, todo, results, answer, reply>>

Checked(state) ==
    /\ Running
    /\ results' = results \union {state}
    /\ todo' = Tail(todo) /\ check' = NoCheck
    /\ answer' = [answer EXCEPT !.optOut = @ \/ (check.phase = "signed" /\ check.optOut)]
    /\ UNCHANGED <<truth, stack, memo, zones, reply>>

Updated(next) == /\ Running
                 /\ check' = next
                 /\ UNCHANGED <<truth, stack, memo, zones, todo, results, answer, reply>>

Saw(s, state, checked) ==
    Updated([check EXCEPT !.left = @ \ {s}, !.seen = @ \union {state}, !.checked = @ \/ checked])

CheckSigner ==
    /\ Idle /\ check.phase = "signed"
    /\ \E s \in check.left :
         IF s < Anchor(check.owner) THEN Saw(s, "indeterminate", FALSE)
         ELSE IF zones[s] = Unknown THEN Push(s)
         ELSE IF zones[s].state # "secure" THEN Saw(s, zones[s].state, FALSE)
         ELSE \/ /\ Verifies(zones[s], Publishes(s, check.owner, answer.kind))
                 /\ Updated([check EXCEPT !.left = @ \ {s}, !.valid = TRUE])
              \/ /\ ~honest /\ Verifies(zones[s], Publishes(s, check.owner, answer.kind))
                 /\ Updated([check EXCEPT !.left = @ \ {s}, !.seen = @ \union {"insecure"},
                                          !.checked = TRUE, !.optOut = TRUE])
              \/ ~honest /\ \E state \in {"indeterminate", "bogus"} : Saw(s, state, TRUE)

SignersDone ==
    /\ Idle /\ check.phase = "signed" /\ check.left = {}
    /\ IF check.valid THEN Checked("secure")
       ELSE LET S == check.seen
            IN  Checked(CASE check.checked /\ "bogus" \in S -> "bogus"
                             [] S = {} -> "indeterminate"
                             [] OTHER -> Weakest(S))

\* No signature: the zone that an SOA hints at is authenticated, then every
\* closer cut must be proved or excluded before the RRset is judged.
Look ==
    /\ Idle /\ check.phase = "looking"
    /\ \/ ~honest /\ Checked("indeterminate")
       \/ IF zones[check.zone] = Unknown THEN Push(check.zone)
          ELSE Updated([check EXCEPT !.phase = "cuts"])

UnsignedIn(zone) ==
    CASE zone.state = "insecure" -> Checked("insecure")
      [] zone.state = "secure" -> Checked("bogus")
      [] OTHER -> Checked("indeterminate")

NearestZone ==
    /\ Idle /\ check.phase = "cuts"
    /\ zones[check.zone].state # "secure" \/ check.next > check.owner
    /\ UnsignedIn(zones[check.zone])

Establish ==
    /\ Idle /\ check.phase = "cuts"
    /\ zones[check.zone].state = "secure" /\ check.next <= check.owner
    /\ LET auth  == zones[check.zone]
           said  == Delegation(check.zone, check.next)
       IN  \/ ~honest /\ Checked("indeterminate")
           \/ /\ Verifies(auth, said \in {"signed", "unsupported"})
              /\ IF zones[check.next] = Unknown THEN Push(check.next)
                 ELSE Updated([check EXCEPT !.zone = check.next, !.next = @ + 1])
           \/ /\ Verifies(auth, ProvablyUnsigned(check.zone, check.next))
              /\ Checked("insecure")
           \/ /\ Verifies(auth, said = "none")
              /\ Updated([check EXCEPT !.next = @ + 1])
----------------------------------------------------------------------------
(* The answer as a whole. *)
\* The evidence of the classification is of no further use.
Classified(state, optOut) ==
    /\ Running
    /\ answer' = [answer EXCEPT !.state = state, !.optOut = @ \/ optOut]
    /\ results' = {} /\ zones' = NoZones
    /\ UNCHANGED <<truth, stack, memo, todo, check, reply>>

Finished == Idle /\ check = NoCheck /\ answer.state = "open" /\ todo = <<>>

Conclude ==
    /\ Finished /\ answer.kind \in {"data", "alias"}
    /\ Classified(Combined(results), FALSE)

\* An unsigned CNAME made from a DNAME inherits its state if it fits.
ConcludeDname ==
    /\ Finished /\ answer.kind = "dname"
    /\ \/ Classified(Combined(results), FALSE)
       \/ ~honest /\ Classified("bogus", FALSE)

\* A denial needs its SOA authenticated, and a proof under the SOA's own zone.
ConcludeDenial ==
    /\ Finished /\ answer.kind = "denial"
    /\ LET zone == zones[answer.soa]
       IN  IF results # {"secure"} THEN Classified(Combined(results), FALSE)
           ELSE IF zone.state # "secure" THEN ~honest /\ Classified("indeterminate", FALSE)
           ELSE \/ /\ Verifies(zone, ZoneOf(Depth) = answer.soa)
                   /\ Classified("secure", FALSE)
                \/ ~honest /\ Classified("insecure", TRUE)
                \/ ~honest /\ Classified("bogus", FALSE)
----------------------------------------------------------------------------
(* SyntheticDNS.answer: substitution, the second check, the client's flags. *)
Replied(kind, ad) ==
    /\ Running
    /\ reply' = [kind |-> kind, ad |-> ad]
    /\ UNCHANGED <<truth, stack, memo, zones, todo, check, results, answer>>

Done == answer.state \in States

\* No faithful copy of an indeterminate answer, or of one whose copy would not
\* have the same outcome: SERVFAIL, even for a client that disabled checking.
Fallback == Done /\ (answer.state = "indeterminate" \/ ~honest) /\ Replied("servfail", FALSE)

Render ==
    /\ Done /\ answer.state # "indeterminate"
    /\ \E cd \in BOOLEAN :
         IF answer.state = "bogus" /\ ~cd THEN Replied("servfail", FALSE)
         ELSE Replied(IF cd THEN "unchecked" ELSE "answer", answer.state = "secure")

\* A client that does not ask for DNSSEC is served what the upstream said.
Plain == answer.kind = "none" /\ Replied("plain", FALSE)

\* A budget, the deadline or a prohibited record ends the resolution.
Denied ==
    /\ Running /\ answer.kind # "none"
    /\ reply' = [kind |-> "none at all", ad |-> FALSE]
    /\ stack' = <<>> /\ memo' = NoZones /\ zones' = NoZones
    /\ todo' = <<>> /\ check' = NoCheck /\ results' = {}
    /\ UNCHANGED <<truth, answer>>
----------------------------------------------------------------------------
Next == \/ AskKeys \/ AskDs \/ AskParent \/ DeniedByParent \/ DelegatedByParent \/ NoParentLeft
        \/ Classify \/ BeginCheck \/ CheckSigner \/ SignersDone \/ Look \/ NearestZone \/ Establish
        \/ Conclude \/ ConcludeDname \/ ConcludeDenial
        \/ Plain \/ Denied \/ Fallback \/ Render

Spec == Init /\ [][Next]_vars
----------------------------------------------------------------------------
(* Properties. *)

\* A zone is secure only with its own keys and an unbroken line of signed
\* delegations from its anchor, and insecure only below a delegation that
\* really is unsigned or unsupported.
ChainsAreReal ==
    \A n \in Names, m \in {memo, zones} :
       /\ m[n].state = "secure" => m[n].keys = "true" /\ IsApex(n) /\ IsSecure(n)
       /\ m[n].state = "insecure" => ~IsSecure(n)

TrulySecure == \A i \in 1..Len(Owners(answer.kind)) : IsSecure(Owners(answer.kind)[i])

\* The SOA of a negative answer is held against its own closest anchor, which
\* may lie above the one of the name that is denied.
SoaAboveAnchor == answer.kind = "denial" /\ answer.soa < Anchor(Depth)

\* An answer is marked authentic only if it is what a securely delegated zone
\* says, a denial by the very zone the name is in; and a client that did not
\* disable checking gets other answers only from zones that sign nothing or
\* for names that an opt-out span covers.
AnswersAreReal ==
    /\ reply.ad => TrulySecure /\ (answer.kind = "denial" => answer.soa = ZoneOf(Depth))
    /\ reply.kind = "answer" /\ ~reply.ad => ~TrulySecure \/ answer.optOut \/ SoaAboveAnchor

\* A closer anchor is never bypassed by what an ancestor zone says.
AnchorsHold == reply.kind = "answer" /\ ~reply.ad => ~TrulySecure \/ answer.optOut

\* The records of an honest upstream are never called bogus or left open,
\* wherever the truth is within reach.
HonestIsUnderstood ==
    honest /\ Done /\ ~OutOfReach(Depth) =>
       answer.state = IF TrulySecure THEN "secure" ELSE "insecure"

TrustIsEarned == ChainsAreReal /\ AnswersAreReal /\ HonestIsUnderstood
=============================================================================
