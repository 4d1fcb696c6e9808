--------------------------- MODULE BrowserSession ---------------------------
(***************************************************************************)
(* The browser's session with ads (auth.py, session_binder.py).  The cookie *)
(* carries the access token, the database the refresh token of the         *)
(* identity provider's session.  Every request binds a security context    *)
(* from the cookie it came with; a request whose token is about to expire  *)
(* first trades the stored refresh token for a new pair, while other       *)
(* requests of the same browser do the same.  Every response carries the   *)
(* access token of its own request back, and the last one to arrive wins.  *)
(*                                                                         *)
(* One provider session and one login.  An access token is its expiry      *)
(* time, a refresh token its number.  A provider has one of two policies:  *)
(* a refresh token is spent by its first use, or stays good with the       *)
(* session.                                                                *)
(***************************************************************************)
EXTENDS Integers, FiniteSets

CONSTANTS
  Requests,
  Life,         \* of an access token
  Skew,         \* ACCESS_TOKEN_REFRESH_SKEW_SECONDS
  MaxFaults, MaxTime, MaxGen   \* bounds of the model

VARIABLES
  clock,
  provider,     \* its session, the newest refresh token of it, and its policy
  row,          \* the stored refresh token, 0 without one
  cookie,       \* the access token in the browser's cookie, 0 without one
  req,          \* request -> where its binding stands
  missed,       \* refreshes that failed although the provider honoured the token
  spoilt,       \* answers of the provider that could not be used
  loggedOut,
  met           \* history: requests whose rotation overlapped another one's

faults == <<missed, spoilt>>
vars == <<clock, provider, row, cookie, req, faults, loggedOut, met>>

Idle == [pc |-> "idle", token |-> 0, since |-> 0, stored |-> 0, tries |-> 0, got |-> 0,
         junk |-> FALSE]

Init ==
  /\ clock = 1 /\ provider \in [alive : {FALSE}, gen : {0}, oneTime : BOOLEAN]
  /\ row = 0 /\ cookie = 0 /\ missed = 0 /\ spoilt = 0 /\ loggedOut = FALSE
  /\ req = [r \in Requests |-> Idle] /\ met = {}

-----------------------------------------------------------------------------
(* auth.py                                                                 *)

\* The callback exchanges the code, checks the tokens and establishes the session.
Login ==
  /\ provider.gen = 0
  /\ provider' = [provider EXCEPT !.alive = TRUE, !.gen = 1]
  /\ row' = 1 /\ cookie' = clock + Life
  /\ UNCHANGED <<clock, req, faults, loggedOut, met>>

\* The refresh token is forgotten, whether or not the access token has expired, and
\* the cookie cleared.
Logout ==
  /\ cookie # 0
  /\ row' = 0 /\ cookie' = 0 /\ loggedOut' = TRUE
  /\ UNCHANGED <<clock, provider, req, faults, met>>

-----------------------------------------------------------------------------
(* SessionBinder.bind                                                      *)

To(r, rec) == req' = [req EXCEPT ![r] = rec]

\* A token that is good for longer than the skew is bound as it is.
Receive(r) ==
  /\ req[r].pc = "idle" /\ cookie # 0
  /\ To(r, [Idle EXCEPT !.token = cookie, !.since = clock,
              !.pc = IF cookie - clock > Skew THEN "bound" ELSE "rotate"])
  /\ met' = IF \E q \in Requests : req[q].pc = "answered" THEN met \cup {r} ELSE met
  /\ UNCHANGED <<clock, provider, row, cookie, faults, loggedOut>>

\* Without a new token the old one is bound, if it was good when the request came.
Left(r) == IF req[r].token > req[r].since THEN "bound" ELSE "unbound"
Ended(r, pc) == [Idle EXCEPT !.pc = pc, !.token = req[r].token, !.since = req[r].since]

\* The stored refresh token is read and sent to the provider.
Ask(r) ==
  /\ req[r].pc = "rotate"
  /\ To(r, IF row = 0 THEN Ended(r, Left(r))
                      ELSE [req[r] EXCEPT !.pc = "asked", !.stored = row, !.tries = @ + 1])
  /\ UNCHANGED <<clock, provider, row, cookie, faults, loggedOut, met>>

Honoured(t) == provider.alive /\ (provider.oneTime => t = provider.gen)
\* The provider has issued the refresh token g: its newest, or one more.
Issued(g) ==
  /\ g \in {provider.gen, provider.gen + 1} /\ g <= MaxGen
  /\ provider' = [provider EXCEPT !.gen = g]
Rotating == {q \in Requests : req[q].pc \in {"rotate", "asked", "failed"}}

\* The provider gives a new access token, with a new refresh token or without.
Refreshed(r) ==
  /\ req[r].pc = "asked" /\ Honoured(req[r].stored)
  /\ \E g \in {provider.gen, provider.gen + 1} :
       /\ Issued(g)
       /\ To(r, [req[r] EXCEPT !.pc = "answered", !.token = clock + Life, !.stored = 0,
                   !.got = IF g = provider.gen THEN 0 ELSE g])
  /\ met' = met \cup (Rotating \ {r})
  /\ UNCHANGED <<clock, row, cookie, faults, loggedOut>>

\* It refuses the token; or it cannot be reached, its answer is lost or not an object.
Refused(r) ==
  /\ req[r].pc = "asked" /\ ~Honoured(req[r].stored)
  /\ To(r, [req[r] EXCEPT !.pc = "failed", !.stored = 0])
  /\ UNCHANGED <<clock, provider, row, cookie, faults, loggedOut, met>>
Missed(r) ==
  /\ req[r].pc = "asked" /\ Honoured(req[r].stored)
  /\ missed + spoilt < MaxFaults /\ missed' = missed + 1
  /\ \E g \in {provider.gen, provider.gen + 1} : Issued(g)
  /\ To(r, [req[r] EXCEPT !.pc = "failed", !.stored = 0])
  /\ UNCHANGED <<clock, row, cookie, spoilt, loggedOut, met>>

\* An answer without an access token that verifies is not tried again.  Nothing is
\* stored of it, and nothing forgotten.
Unusable(r) ==
  /\ req[r].pc = "asked" /\ Honoured(req[r].stored)
  /\ missed + spoilt < MaxFaults /\ spoilt' = spoilt + 1
  /\ \E g \in {provider.gen, provider.gen + 1} : Issued(g)
  /\ To(r, [Ended(r, Left(r)) EXCEPT !.junk = TRUE])
  /\ UNCHANGED <<clock, row, cookie, missed, loggedOut, met>>

\* Mutant: the new refresh token is not stored.
StoreNothing(r) ==
  /\ req[r].pc = "answered"
  /\ To(r, Ended(r, "bound"))
  /\ UNCHANGED <<clock, provider, row, cookie, faults, loggedOut, met>>

\* A new refresh token is stored, the new access token bound.
Store(r) ==
  /\ req[r].pc = "answered"
  /\ row' = IF req[r].got = 0 THEN row ELSE req[r].got
  /\ To(r, Ended(r, "bound"))
  /\ UNCHANGED <<clock, provider, cookie, faults, loggedOut, met>>

\* The first failure is tried again with what is stored by now; after the second, the
\* refresh token of an expired access token is forgotten, whoever stored it.
Fail(r) ==
  /\ req[r].pc = "failed"
  /\ \/ /\ req[r].tries = 1
        /\ To(r, [req[r] EXCEPT !.pc = "rotate"])
        /\ UNCHANGED row
     \/ /\ req[r].tries = 2
        /\ row' = IF req[r].token <= clock THEN 0 ELSE row
        /\ To(r, Ended(r, Left(r)))
  /\ UNCHANGED <<clock, provider, cookie, faults, loggedOut, met>>

\* The response carries the session of its request back.
Respond(r) ==
  /\ req[r].pc \in {"bound", "unbound"}
  /\ cookie' = req[r].token
  /\ To(r, Idle) /\ met' = met \ {r}
  /\ UNCHANGED <<clock, provider, row, faults, loggedOut>>

-----------------------------------------------------------------------------
(* The world.                                                              *)

Tick ==
  /\ clock < MaxTime /\ clock' = clock + 1
  /\ UNCHANGED <<provider, row, cookie, req, faults, loggedOut, met>>

ProviderEnds ==
  /\ provider.alive
  /\ provider' = [provider EXCEPT !.alive = FALSE]
  /\ UNCHANGED <<clock, row, cookie, req, faults, loggedOut, met>>

Next ==
  \/ Login \/ Logout \/ Tick \/ ProviderEnds
  \/ \E r \in Requests :
       \/ Receive(r) \/ Ask(r) \/ Refreshed(r) \/ Refused(r) \/ Missed(r) \/ Unusable(r)
       \/ Store(r) \/ Fail(r) \/ Respond(r)

Spec == Init /\ [][Next]_vars

-----------------------------------------------------------------------------
(* Properties                                                              *)

\* While refresh tokens stay good with the session, one failed refresh costs nothing,
\* however many requests rotate at once: the refresh token stays stored, and a request
\* is left unbound only by an answer of its own that could not be used.
OneFaultIsSurvived ==
  (~provider.oneTime /\ provider.alive /\ ~loggedOut /\ missed <= 1) =>
    /\ row # 0
    /\ \A r \in Requests : req[r].pc = "unbound" => req[r].junk

\* Where they are spent by their use, requests that rotate at once refuse each other, and
\* may forget what another one has stored.  But nothing else does while no answer is
\* lost: whoever has been refused met another rotation, and what is stored is the newest
\* refresh token, unless a request is about to store that.
OnlyRotationsClash ==
  (provider.oneTime /\ provider.alive /\ ~loggedOut /\ missed = 0 /\ spoilt = 0) =>
    /\ \A r \in Requests : req[r].pc = "failed" => r \in met
    /\ \/ row \in {0, provider.gen}
       \/ \E r \in Requests : req[r].pc = "answered" /\ req[r].got = provider.gen

\* No request is bound with a token that had expired when the request came in.
BoundWasGood == \A r \in Requests : req[r].pc = "bound" => req[r].token > req[r].since

RotationIsSafe == OneFaultIsSurvived /\ OnlyRotationsClash /\ BoundWasGood
=============================================================================
