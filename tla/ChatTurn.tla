------------------------------ MODULE ChatTurn ------------------------------
(***************************************************************************)
(* A chat session end to end: ads (AdsRun) and ads-engine (EngineRun)      *)
(* joined by ads.engine.request and ads.engine.output.                     *)
(*                                                                         *)
(* A record is handled at most once per append, in any order, or lost:     *)
(* both consumers seek to the end when they start, and ads drops a record  *)
(* whose handler raised.  Producers are not idempotent, so a record of a   *)
(* kind in Repeated may be appended twice.                                 *)
(***************************************************************************)
EXTENDS Integers, FiniteSets, Sequences

CONSTANTS
    Msgs, MaxOrder, Tombs, MaxCrashes, None,
    Repeated,       \* kinds of records that may be appended twice
    AdsRestarts     \* whether ads may be replaced

VARIABLES
    run, chain, committed, overdue, sending, acking, watch, toEngine,
    active, owner, task, refused, event, order, attempts, out, crashes,
    announced       \* history: the last orders the engine announced for each message

Ads == INSTANCE AdsRun
Eng == INSTANCE EngineRun

adsOwn == <<run, chain, committed, overdue, sending, acking, watch>>
adsVars == <<adsOwn, toEngine>>
engOwn == <<active, owner, task, refused, event, order, attempts, crashes>>
engVars == <<engOwn, out>>
vars == <<adsVars, engVars, announced>>

Init == Ads!Init /\ Eng!Init /\ announced = [m \in Msgs |-> {}]

\* What is left of a topic when x has been consumed.
Left(topic, x) == IF x.type \in Repeated THEN {topic, topic \ {x}} ELSE {topic \ {x}}

-----------------------------------------------------------------------------
AdsLocal(m) == Ads!LocalStep(m) /\ UNCHANGED <<engVars, announced>>

Restarted == AdsRestarts /\ Ads!AdsRestart /\ UNCHANGED <<engVars, announced>>

\* The engine announces the end of a run in ModelEnds.
EngineTask(m) ==
    /\ Eng!TaskStep(m)
    /\ announced' = [announced EXCEPT ![m] = announced[m] \cup
                        {x.order : x \in {y \in out' \ out : y.type = "finish" /\ y.msg = m}}]
    /\ UNCHANGED adsVars

EngineRefuses(m) == Eng!EmitRefusal(m) /\ UNCHANGED <<adsVars, announced>>

EngineCrash == Eng!Crash /\ UNCHANGED <<adsVars, announced>>

\* A ping of the run under way reaches the run in flight, whichever that is.
PingArrives(m) ==
    /\ \E n \in Msgs : task[n] = "model"
    /\ Ads!Ping(m)
    /\ UNCHANGED <<engVars, announced>>

\* EngineListener.on_message.
EngineConsumes(x) ==
    /\ x \in toEngine
    /\ toEngine' \in Left(toEngine, x)
    /\ \/ /\ x.type = "request"
          /\ Eng!Handle(x.msg) \/ Eng!Refuse(x.msg)
       \/ x.type = "ack-response" /\ Eng!AckResponse(x.msg)
       \/ x.type = "abort" /\ Eng!Abort(x.msg)
       \/ UNCHANGED engVars
    /\ UNCHANGED <<adsOwn, announced>>

\* EngineOutputController.on_record.
AdsConsumes(x) ==
    /\ x \in out
    /\ out' \in Left(out, x)
    /\ \/ x.type = "acknowledge" /\ Ads!Acknowledge(x.msg)
       \/ x.type = "partial" /\ Ads!Partial(x.msg, x.order)
       \/ x.type = "finish" /\ Ads!Finish(x.msg, x.order)
       \/ x.type = "error" /\ Ads!Error(x.msg)
       \/ UNCHANGED adsVars
    /\ UNCHANGED <<engOwn, announced>>

Next ==
    \/ \E m \in Msgs : AdsLocal(m) \/ EngineTask(m) \/ EngineRefuses(m) \/ PingArrives(m)
    \/ Restarted \/ EngineCrash
    \/ \E x \in toEngine : EngineConsumes(x)
    \/ \E x \in out : AdsConsumes(x)

Spec == Init /\ [][Next]_vars

\* The watchdog ticks and time passes, and ads is not replaced in the middle of
\* every tick; the engine's tasks run to their end.
\* Nothing is assumed of the topics: every record may be lost.
Fairness ==
    \A m \in Msgs :
        /\ WF_vars(AdsLocal(m) /\ Ads!TimePasses(m))
        /\ WF_vars(AdsLocal(m) /\ Ads!WatchDue(m))
        /\ SF_vars(AdsLocal(m) /\ Ads!WatchAbort(m))
        /\ SF_vars(AdsLocal(m) /\ Ads!WatchUnwind(m))
        /\ WF_vars(EngineTask(m))

FairSpec == Spec /\ Fairness

-----------------------------------------------------------------------------
\* A finished turn shows the whole answer and nothing else: its deltas are exactly
\* 0..l for an l the engine announced for this message.
FinishedIsWhatEngineSent ==
    \A m \in Msgs : run[m].status = "finished" =>
        \E l \in announced[m] : run[m].watermark = l

\* The model, which may execute tools, runs only for a message whose run ads took
\* from pending to running.
ModelRunsForAcceptedRun ==
    \A m \in Msgs : task[m] = "model" => run[m].status \notin {"new", "pending"}

\* The engine never publishes an order number twice for one run, and frees the
\* session of every run it claimed, whatever ads sends it and when.
NoOrderTwice == Eng!NoOrderTwice
SessionFreed == Eng!SessionFreed

\* An abort cannot hit a later run of the session: _runs names the claimed run only.
AbortHitsOwnRun == Eng!AbortHitsOwnRun

\* A turn never stays in flight: whatever is lost, it finishes or is unwound.
TurnEnds == \A m \in Msgs : Ads!InFlight(m) ~> ~Ads!InFlight(m)
=============================================================================
