------------------------------ MODULE EngineRun ------------------------------
(***************************************************************************)
(* ads-engine for one chat session: EngineListener, EngineService and its  *)
(* active-session row.                                                     *)
(*                                                                         *)
(* Every consumed record is a task of its own.  claim and release are one  *)
(* statement under a lock that is never held across an await, so each is   *)
(* one step; so are the synchronous stretches between two publications.    *)
(* A run is named by its message id.                                       *)
(***************************************************************************)
EXTENDS Integers, FiniteSets

CONSTANTS
    Msgs,       \* message ids
    MaxOrder,   \* bound on the deltas of a run
    MaxCrashes, \* bound on restarts of the engine
    None        \* no run

OPENAI_ATTEMPTS == 3

VARIABLES
    active,     \* the active_sessions row: the message it was claimed for
    owner,      \* _runs[session]: the message whose task handle_abort may cancel
    task,       \* where the task of each claimed message is
    refused,    \* requests refused, whose error is still to be published
    event,      \* messages whose ack waiter is set
    order,      \* the next order number of each run
    attempts,   \* calls of the model each run has begun
    out,        \* records of ads.engine.output not yet consumed
    crashes

engineVars == <<active, owner, task, refused, event, order, attempts, out, crashes>>

Output(t, m, o) == [type |-> t, msg |-> m, order |-> o]
Outputs == [type : {"acknowledge", "partial", "finish", "error"}, msg : Msgs, order : 0..MaxOrder]

Init ==
    /\ active = None /\ owner = None
    /\ task = [m \in Msgs |-> "none"]
    /\ refused = {} /\ event = {}
    /\ order = [m \in Msgs |-> 0]
    /\ attempts = [m \in Msgs |-> 0]
    /\ out = {} /\ crashes = 0

Publish(x) == out' = out \cup {x}

Goto(m, place) == task' = [task EXCEPT ![m] = place]

-----------------------------------------------------------------------------
\* claim: the row's primary key is the session.
Claimable == active = None

\* A request that is invalid or unauthorised, or whose session is active (by its
\* own duplicate too), is refused in a task of its own.
Refuse(m) ==
    /\ refused' = refused \cup {m}
    /\ UNCHANGED <<active, owner, task, event, order, attempts, out, crashes>>

\* Otherwise the session is claimed and acknowledge published; minting its token
\* or the publication may fail.
Handle(m) ==
    /\ task[m] \in {"none", "ended"} /\ Claimable
    /\ active' = m /\ owner' = m
    /\ order' = [order EXCEPT ![m] = 0] /\ attempts' = [attempts EXCEPT ![m] = 0]
    /\ event' = event \ {m}
    /\ \/ Goto(m, "waiting") /\ Publish(Output("acknowledge", m, 0))
       \/ Goto(m, "failed") /\ UNCHANGED out
    /\ UNCHANGED <<refused, crashes>>

\* _ack_waiters holds this message.
AwaitsAck(m) == task[m] = "waiting"

AckResponse(m) ==
    /\ AwaitsAck(m)
    /\ event' = event \cup {m}
    /\ UNCHANGED <<active, owner, task, order, attempts, out, refused, crashes>>

\* Mutant: the model starts whether or not the acknowledgement was answered.
AckWaitAnyway(m) ==
    /\ task[m] = "waiting"
    /\ Goto(m, "model") /\ attempts' = [attempts EXCEPT ![m] = 1]
    /\ UNCHANGED <<active, owner, event, order, out, refused, crashes>>

\* The wait ends: the model starts, or the acknowledgement timed out.
AckWait(m) ==
    /\ task[m] = "waiting"
    /\ \/ m \in event /\ Goto(m, "model") /\ attempts' = [attempts EXCEPT ![m] = 1]
       \/ m \notin event /\ Goto(m, "failed") /\ UNCHANGED attempts
    /\ UNCHANGED <<active, owner, event, order, out, refused, crashes>>

\* A delta is published under the next order number; the publication may raise,
\* which ends the run.
Emit(m) ==
    /\ task[m] = "model" /\ order[m] <= MaxOrder
    /\ \/ /\ Publish(Output("partial", m, order[m]))
          /\ order' = [order EXCEPT ![m] = order[m] + 1]
          /\ UNCHANGED task
       \/ Goto(m, "failed") /\ UNCHANGED <<order, out>>
    /\ UNCHANGED <<active, owner, event, attempts, refused, crashes>>

\* Mutant: a run is restarted after it has published deltas.
RetryableAnyway(m) == attempts[m] < OPENAI_ATTEMPTS

\* Nothing of this run has reached the output boundary.
Retryable(m) == order[m] = 0 /\ attempts[m] < OPENAI_ATTEMPTS

\* The model call raises: again from the start, or the run fails.
ModelRaises(m) ==
    /\ task[m] = "model"
    /\ \/ /\ Retryable(m)
          /\ attempts' = [attempts EXCEPT ![m] = attempts[m] + 1]
          /\ order' = [order EXCEPT ![m] = 0]
          /\ UNCHANGED task
       \/ Goto(m, "failed") /\ UNCHANGED <<attempts, order>>
    /\ UNCHANGED <<active, owner, event, out, refused, crashes>>

\* The stream ends: pings stop and finish is published; an empty stream fails.
ModelEnds(m) ==
    /\ task[m] = "model" /\ order[m] > 0
    /\ \/ Goto(m, "done") /\ Publish(Output("finish", m, order[m] - 1))
       \/ Goto(m, "failed") /\ UNCHANGED out
    /\ UNCHANGED <<active, owner, event, order, attempts, refused, crashes>>

\* handle_abort cancels the task its message id names; it ends without an error.
Abort(m) ==
    /\ owner = m /\ task[m] \in {"waiting", "model"}
    /\ Goto(m, "done")
    /\ UNCHANGED <<active, owner, event, order, attempts, out, refused, crashes>>

\* Mutant: the run stays in _runs until its row is released.
ForgetLater(m) ==
    /\ task[m] \in {"done", "failed"}
    /\ Goto(m, IF task[m] = "done" THEN "release" ELSE "release-failed")
    /\ UNCHANGED <<active, owner, event, order, attempts, out, refused, crashes>>

\* The finally block forgets the run and its waiter, stops the pings,
Forget(m) ==
    /\ task[m] \in {"done", "failed"}
    /\ owner' = None
    /\ Goto(m, IF task[m] = "done" THEN "release" ELSE "release-failed")
    /\ event' = event \ {m}
    /\ UNCHANGED <<active, order, attempts, out, refused, crashes>>

\* Mutant: release is left out when the run failed.
ReleasedOnSuccess(m) == IF task[m] = "release" THEN None ELSE active

\* release deletes the row by its session.
Released(m) == None

\* and releases the row, before the listener sees the exception.
Release(m) ==
    /\ task[m] \in {"release", "release-failed"}
    /\ active' = Released(m)
    /\ Goto(m, IF task[m] = "release" THEN "ended" ELSE "error")
    /\ UNCHANGED <<owner, event, order, attempts, out, refused, crashes>>

\* emit_error for a failed run; its publication may raise, which ends only this task.
EmitError(m) ==
    /\ task[m] = "error"
    /\ Goto(m, "ended")
    /\ Publish(Output("error", m, 0)) \/ UNCHANGED out
    /\ UNCHANGED <<active, owner, refused, event, order, attempts, crashes>>

\* The same for a refused request.
EmitRefusal(m) ==
    /\ m \in refused
    /\ refused' = refused \ {m}
    /\ Publish(Output("error", m, 0)) \/ UNCHANGED out
    /\ UNCHANGED <<active, owner, task, event, order, attempts, crashes>>

\* The engine is replaced; store.reset deletes what rows were left.
Crash ==
    /\ crashes < MaxCrashes
    /\ crashes' = crashes + 1
    /\ active' = None /\ owner' = None
    /\ task' = [m \in Msgs |-> IF task[m] = "none" THEN "none" ELSE "ended"]
    /\ refused' = {} /\ event' = {}
    /\ UNCHANGED <<order, attempts, out>>

-----------------------------------------------------------------------------
TaskStep(m) ==
    \/ AckWait(m) \/ Emit(m) \/ ModelRaises(m) \/ ModelEnds(m)
    \/ Forget(m) \/ Release(m) \/ EmitError(m)

RecordStep(m) == Refuse(m) \/ EmitRefusal(m) \/ Handle(m) \/ AckResponse(m) \/ Abort(m)

\* Standing alone, requests and controls arrive at any time and any number of times.
Next == (\E m \in Msgs : TaskStep(m) \/ RecordStep(m)) \/ Crash

Spec == Init /\ [][Next]_engineVars

\* Tasks run; the model, its stream and publications are bounded by timeouts.
Fairness == \A m \in Msgs : WF_engineVars(TaskStep(m))

FairSpec == Spec /\ Fairness

-----------------------------------------------------------------------------
TypeOK ==
    /\ active \in Msgs \cup {None} /\ owner \in Msgs \cup {None}
    /\ task \in [Msgs -> {"none", "waiting", "model", "done", "failed", "release",
                          "release-failed", "error", "ended"}]
    /\ event \subseteq Msgs /\ refused \subseteq Msgs
    /\ order \in [Msgs -> 0..(MaxOrder + 1)]
    /\ attempts \in [Msgs -> 0..OPENAI_ATTEMPTS]
    /\ out \subseteq Outputs
    /\ crashes \in Nat

Claimed(m) == task[m] \in {"waiting", "model", "done", "failed", "release", "release-failed"}

\* The row names exactly the run that is under way, from claim to release, through
\* failures, aborts and restarts: no session stays claimed by nobody and no two
\* runs share one.
RowMatchesRun == \A m \in Msgs : Claimed(m) <=> active = m

\* _runs never names a task that is past its end, so an abort cannot hit a later
\* run of the session or cancel a release.
AbortHitsOwnRun == owner # None => active = owner /\ Claimed(owner)

\* "Never restart a run once a delta reaches the output boundary": an order number
\* is never published twice by the same task.
NoOrderTwice ==
    [][\A m \in Msgs : task[m] = "model" /\ task'[m] = "model" => order'[m] >= order[m]]_engineVars

\* A claimed session is released again.
SessionFreed == \A m \in Msgs : active = m ~> active # m
=============================================================================
