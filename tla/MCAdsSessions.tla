---------------------------- MODULE MCAdsSessions ----------------------------
(***************************************************************************)
(* Small instances of what ads keeps of a user, checked in one run: the    *)
(* run of a message (AdsRun, with every delta order), two turns of a       *)
(* session with the engine over the topics (ChatTurn), and the session of  *)
(* the browser.                                                            *)
(***************************************************************************)
EXTENDS AdsRun, TLC

CONSTANTS ChatOrder, ChatTombs, MaxCrashes, Repeated, AdsRestarts, Requests, Life, Skew,
    MaxFaults, MaxTime, MaxGen

ASSUME ChatAssumption ==
    /\ ChatOrder \in Nat /\ ChatTombs \subseteq 0..ChatOrder
    /\ None \notin Msgs

\* A token lives for a time, and is renewed before it ends.
ASSUME TokenAssumption == Life \in Nat \ {0} /\ Skew \in Nat

VARIABLES
    part,  \* the component that moves
    chatRun, chatChain, chatCommitted, chatOverdue, chatSending, chatAcking, chatWatch,
    chatToEngine, active, owner, task, refused, event, order, attempts, out, crashes,
    announced,
    clock, provider, row, cookie, req, missed, spoilt, loggedOut, met

Chat == INSTANCE ChatTurn WITH
    MaxOrder <- ChatOrder, Tombs <- ChatTombs, run <- chatRun, chain <- chatChain,
    committed <- chatCommitted, overdue <- chatOverdue, sending <- chatSending,
    acking <- chatAcking, watch <- chatWatch, toEngine <- chatToEngine
Browser == INSTANCE BrowserSession

chatVars == <<chatRun, chatChain, chatCommitted, chatOverdue, chatSending, chatAcking,
    chatWatch, chatToEngine, active, owner, task, refused, event, order, attempts, out,
    crashes, announced>>
browserVars == <<clock, provider, row, cookie, req, missed, spoilt, loggedOut, met>>
vars == <<part, adsVars, chatVars, browserVars>>

\* In a behaviour one component moves; the variables of the others are idle.
AnyInit ==
    /\ part \in {"ads", "chat", "browser"}
    /\ Init
    /\ \/ part = "chat" /\ Chat!Init
       \/ part # "chat" /\ chatRun = 0 /\ chatChain = 0 /\ chatCommitted = 0 /\
          chatOverdue = 0 /\ chatSending = 0 /\ chatAcking = 0 /\ chatWatch = 0 /\
          chatToEngine = 0 /\ active = 0 /\ owner = 0 /\ task = 0 /\ refused = 0 /\
          event = 0 /\ order = 0 /\ attempts = 0 /\ out = 0 /\ crashes = 0 /\
          announced = 0
    /\ \/ part = "browser" /\ Browser!Init
       \/ part # "browser" /\ clock = 0 /\ provider = 0 /\ row = 0 /\ cookie = 0 /\
          req = 0 /\ missed = 0 /\ spoilt = 0 /\ loggedOut = 0 /\ met = 0
AdsMoves ==
    part = "ads" /\ Next /\ UNCHANGED <<part, chatVars, browserVars>>
ChatMoves ==
    part = "chat" /\ Chat!Next /\ UNCHANGED <<part, adsVars, browserVars>>
BrowserMoves ==
    part = "browser" /\ Browser!Next /\ UNCHANGED <<part, adsVars, chatVars>>
AnyNext == AdsMoves \/ ChatMoves \/ BrowserMoves
AnySpec == AnyInit /\ [][AnyNext]_vars

Symmetry == Permutations(Msgs)

-----------------------------------------------------------------------------
\* The transcript is a sequence of whole turns in order, whatever came out of order,
\* and the tombstone it is cut at stands in it.
TranscriptSound == TranscriptInOrder /\ TurnsDoNotMix /\ CommittedTombstoneStands

\* What either side concludes about a turn agrees with what the other did.
TurnsAgree ==
    part = "chat" =>
        Chat!FinishedIsWhatEngineSent /\ Chat!ModelRunsForAcceptedRun /\ Chat!AbortHitsOwnRun

\* One fault does not cost a session its refresh token or a request its binding; where
\* refresh tokens are spent by their use, only rotations that overlap refuse each other.
RotationIsSafe == part = "browser" => Browser!RotationIsSafe
=============================================================================
