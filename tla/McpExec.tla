------------------------------- MODULE McpExec -------------------------------
(***************************************************************************)
(* The exec door of ads-sandbox-mcp: one blocking HTTP call per execution, *)
(* one durable in-flight row per call, and the acknowledgement handshake   *)
(* that decides, under that row's lock, whether a sandbox may start.       *)
(*                                                                         *)
(* Several pods share the database.  A call lives in the memory of the pod *)
(* that received it (ExecService._waiters); acknowledgements are broadcast *)
(* to every pod, because every process is a Kafka consumer group of its    *)
(* own.  A transaction of _acknowledge holds the row lock across its       *)
(* publication, so it is modelled in three steps: open, send, finish.      *)
(***************************************************************************)
EXTENDS Integers, FiniteSets

CONSTANTS
    Execs,      \* execution ids, minted fresh by execute
    Pods,       \* replicas of the service
    T,          \* settings.timeout_seconds, in ticks
    MaxTime     \* bound on the model's clock

ASSUME TimeAssumption == T \in Nat \ {0} /\ MaxTime \in Nat
ASSUME PodAssumption == Pods # {}

VARIABLES
    now,        \* the clock all pods and the database read
    row,        \* sandbox_execution, the durable table
    tx,         \* the open transaction of _acknowledge that holds the row lock
    call,       \* the execute() coroutine of each execution
    owner,      \* the pod whose memory holds the call's waiter
    future,     \* Waiter.result
    wlock,      \* the holder of Waiter.lock
    abortDue,   \* _expire_locked committed a tombstone and still has to publish Abort
    observed,   \* Watchdog.wait: last_observed
    topic,      \* messages of ads.sandbox.exec.request not yet consumed
    log,        \* every message ever published there
    replied,    \* history: executions whose ack-reply transaction committed
    expired     \* history: those of them that _expire_locked tombstoned

mcpVars == <<now, row, tx, call, owner, future, wlock, abortDue, observed,
             topic, log, replied, expired>>

Kinds == {"request", "ack-reply", "ack-reset", "abort"}
Messages == [kind : Kinds, exec : Execs]
Msg(k, e) == [kind |-> k, exec |-> e]

\* The columns of InFlight; "tombstone" is timed_out = True.
Rows == [state : {"absent", "live", "tombstone"}, created : Nat,
         deadline : Nat, acked : BOOLEAN]
NoRow == [state |-> "absent", created |-> 0, deadline |-> 0, acked |-> FALSE]

Transactions == [phase : {"none", "open", "sent"}, verdict : {"reply", "reset"},
                 pod : Pods, deadline : Nat]
NoTx == [phase |-> "none", verdict |-> "reset",
         pod |-> CHOOSE p \in Pods : TRUE, deadline |-> 0]

CallStates == {"idle", "publishing", "waiting", "cleanup",   \* the call is open
               "returned", "raised", "lost"}                 \* it is over
OpenCall(e) == call[e] \in {"publishing", "waiting", "cleanup"}

Futures == {"pending", "result", "timeout", "unavailable", "setup"}
Holders == {"free", "result", "watchdog", "cancel"}

\* Mutant: locked() selects without FOR UPDATE.
RowFreeAlways(e) == TRUE

\* SELECT ... FOR UPDATE returns: no open transaction holds the row.
RowFree(e) == tx[e].phase = "none"

Publish(m) ==
    /\ topic' = topic \cup {m}
    /\ log' = log \cup {m}

Init ==
    /\ now = 0
    /\ row = [e \in Execs |-> NoRow]
    /\ tx = [e \in Execs |-> NoTx]
    /\ call = [e \in Execs |-> "idle"]
    /\ owner = [e \in Execs |-> CHOOSE p \in Pods : TRUE]
    /\ future = [e \in Execs |-> "pending"]
    /\ wlock = [e \in Execs |-> "free"]
    /\ abortDue = [e \in Execs |-> FALSE]
    /\ observed = [e \in Execs |-> 0]
    /\ topic = {}
    /\ log = {}
    /\ replied = {}
    /\ expired = {}

Tick ==
    /\ now < MaxTime
    /\ now' = now + 1
    /\ UNCHANGED <<row, tx, call, owner, future, wlock, abortDue, observed,
                   topic, log, replied, expired>>

-----------------------------------------------------------------------------
(***************************************************************************)
(* execute(): mint the token, insert the row, register the waiter, start   *)
(* the watchdog, publish the request, wait.                                *)
(***************************************************************************)

\* The bound of the model: a call starts early enough to see both deadlines
\* (its own and the one an acknowledgement sets) and the collector pass.
StartsInTime == now + 2 * T < MaxTime

\* Mutant: the timeout is subtracted.
InsertedExpired == [state |-> "live", created |-> now, deadline |-> now - T, acked |-> FALSE]

Inserted == [state |-> "live", created |-> now, deadline |-> now + T, acked |-> FALSE]

\* Token minted, row committed, waiter and watchdog registered.
Execute(p, e) ==
    /\ call[e] = "idle" /\ StartsInTime
    /\ row' = [row EXCEPT ![e] = Inserted]
    /\ call' = [call EXCEPT ![e] = "publishing"]
    /\ owner' = [owner EXCEPT ![e] = p]
    /\ observed' = [observed EXCEPT ![e] = now]
    /\ UNCHANGED <<now, tx, future, wlock, abortDue, topic, log, replied, expired>>

\* Minting or the insert failed and the caller is told at once.  A commit whose
\* answer was lost leaves a row that no waiter of any pod belongs to.
SetupFails(e) ==
    /\ call[e] = "idle" /\ StartsInTime
    /\ \/ row' = row
       \/ row' = [row EXCEPT ![e] = Inserted]
    /\ call' = [call EXCEPT ![e] = "returned"]
    /\ future' = [future EXCEPT ![e] = "setup"]
    /\ UNCHANGED <<now, tx, owner, wlock, abortDue, observed, topic, log, replied, expired>>

\* Publication of the request succeeds, or fails and is only logged: the
\* watchdog resolves it.
PublishRequest(e) ==
    /\ call[e] = "publishing"
    /\ \/ Publish(Msg("request", e))
       \/ UNCHANGED <<topic, log>>
    /\ call' = [call EXCEPT ![e] = "waiting"]
    /\ UNCHANGED <<now, row, tx, owner, future, wlock, abortDue, observed, replied, expired>>

\* Mutant: the store failure of the watchdog does not complete the waiter.
ResolvedByVerdict(e) == future[e] \in {"result", "timeout"}

Resolved(e) == future[e] # "pending"

\* await shield(waiter.result) resolves; the waiter is popped and the watchdog cancelled.
Return(e) ==
    /\ call[e] = "waiting" /\ Resolved(e)
    /\ call' = [call EXCEPT ![e] = "returned"]
    /\ UNCHANGED <<now, row, tx, owner, future, wlock, abortDue, observed,
                   topic, log, replied, expired>>

\* http.disconnect cancels the call; the shielded cleanup begins.
Disconnect(e) ==
    /\ call[e] \in {"publishing", "waiting"}
    /\ call' = [call EXCEPT ![e] = "cleanup"]
    /\ UNCHANGED <<now, row, tx, owner, future, wlock, abortDue, observed,
                   topic, log, replied, expired>>

\* _expire(force=True) raised (the database is away): logged, the call is over.
CleanupFails(e) ==
    /\ call[e] = "cleanup" /\ wlock[e] = "free"
    /\ call' = [call EXCEPT ![e] = "raised"]
    /\ UNCHANGED <<now, row, tx, owner, future, wlock, abortDue, observed,
                   topic, log, replied, expired>>

-----------------------------------------------------------------------------
(***************************************************************************)
(* _expire and _expire_locked, run by the watchdog (force=False) or by the *)
(* cleanup of a cancelled call (force=True), under Waiter.lock.            *)
(***************************************************************************)

\* The row is live, unexpired and nobody forces it: check() answers False.
WatchdogObserves(e) ==
    /\ OpenCall(e) /\ future[e] = "pending" /\ wlock[e] = "free" /\ RowFree(e)
    /\ row[e].state = "live" /\ now < row[e].deadline
    /\ observed' = [observed EXCEPT ![e] = now]
    /\ UNCHANGED <<now, row, tx, call, owner, future, wlock, abortDue, topic, log, replied, expired>>

\* Who may run _expire for an open call.
MayExpire(e, who) ==
    \/ who = "watchdog" /\ OpenCall(e)
    \/ who = "cancel" /\ call[e] = "cleanup"

\* acknowledged = row.ack_replied and not row.timed_out
Acknowledged(e) == row[e].state = "live" /\ row[e].acked

\* The transaction of _expire_locked: the tombstone is committed before any
\* control is published.  A row that is gone, or already a tombstone, needs none.
Expire(e, who) ==
    /\ MayExpire(e, who)
    /\ future[e] = "pending" /\ wlock[e] = "free" /\ RowFree(e)
    /\ who = "cancel" \/ row[e].state # "live" \/ now >= row[e].deadline
    /\ wlock' = [wlock EXCEPT ![e] = who]
    /\ abortDue' = [abortDue EXCEPT ![e] = Acknowledged(e)]
    /\ expired' = IF Acknowledged(e) THEN expired \cup {e} ELSE expired
    /\ row' = IF row[e].state = "absent" THEN row
              ELSE [row EXCEPT ![e].state = "tombstone"]
    /\ UNCHANGED <<now, tx, call, owner, future, observed, topic, log, replied>>

\* Best-effort abort, then _expire returns True: the watchdog completes the
\* future, the cleanup lets the cancelled call raise.
ExpireReturns(e) ==
    /\ wlock[e] \in {"watchdog", "cancel"}
    /\ \/ abortDue[e] /\ Publish(Msg("abort", e))
       \/ UNCHANGED <<topic, log>>
    /\ abortDue' = [abortDue EXCEPT ![e] = FALSE]
    /\ wlock' = [wlock EXCEPT ![e] = "free"]
    /\ IF wlock[e] = "watchdog"
       THEN /\ future' = [future EXCEPT ![e] = IF @ = "pending" THEN "timeout" ELSE @]
            /\ UNCHANGED call
       ELSE /\ call' = [call EXCEPT ![e] = "raised"]
            /\ UNCHANGED future
    /\ UNCHANGED <<now, row, tx, owner, observed, replied, expired>>

\* The cleanup finds the future done: _expire returns True at once.
CleanupFindsResult(e) ==
    /\ call[e] = "cleanup" /\ wlock[e] = "free" /\ future[e] # "pending"
    /\ call' = [call EXCEPT ![e] = "raised"]
    /\ UNCHANGED <<now, row, tx, owner, future, wlock, abortDue, observed,
                   topic, log, replied, expired>>

\* check() failed or timed out and nothing was observed for a whole timeout: the
\* waiter fails closed.  A check cut short while it was publishing Abort gives
\* up the publication with the lock.
WatchdogGivesUp(e) ==
    /\ OpenCall(e) /\ future[e] = "pending"
    /\ now - observed[e] >= T
    /\ future' = [future EXCEPT ![e] = "unavailable"]
    /\ IF wlock[e] = "watchdog"
       THEN /\ wlock' = [wlock EXCEPT ![e] = "free"]
            /\ abortDue' = [abortDue EXCEPT ![e] = FALSE]
       ELSE UNCHANGED <<wlock, abortDue>>
    /\ UNCHANGED <<now, row, tx, call, owner, observed, topic, log, replied, expired>>

-----------------------------------------------------------------------------
(***************************************************************************)
(* accept_reply: a verified message of ads.sandbox.exec.reply.             *)
(***************************************************************************)

\* Mutant: a duplicate acknowledgement is answered again.
NeverDuplicate(e) == FALSE

\* A duplicate of an acknowledgement that was already answered.
Duplicate(e) == row[e].acked /\ row[e].state = "live"

\* Mutant: a tombstone does not make an acknowledgement late.
LateByDeadline(e) == now >= row[e].deadline

Late(e) == row[e].state = "tombstone" \/ now >= row[e].deadline

\* _acknowledge on pod p: the row is locked and the verdict is taken.  An absent
\* row and a duplicate of an acknowledgement already answered are ignored.
AckOpen(p, e) ==
    /\ RowFree(e)
    /\ row[e].state # "absent"
    /\ ~Duplicate(e)
    /\ tx' = [tx EXCEPT ![e] = [phase |-> "open", pod |-> p,
                                verdict |-> IF Late(e) THEN "reset" ELSE "reply",
                                deadline |-> now + T]]
    /\ UNCHANGED <<now, row, call, owner, future, wlock, abortDue, observed,
                   topic, log, replied, expired>>

\* The bounded publication inside the transaction reaches the broker.
AckSend(e) ==
    /\ tx[e].phase = "open"
    /\ tx' = [tx EXCEPT ![e].phase = "sent"]
    /\ Publish(Msg(IF tx[e].verdict = "reply" THEN "ack-reply" ELSE "ack-reset", e))
    /\ UNCHANGED <<now, row, call, owner, future, wlock, abortDue, observed, replied, expired>>

\* The transaction commits: a reply extends the deadline and records itself, a
\* reset removes the row.
AckCommit(e) ==
    /\ tx[e].phase = "sent"
    /\ row' = [row EXCEPT ![e] =
                 IF tx[e].verdict = "reset" THEN NoRow
                 ELSE [@ EXCEPT !.deadline = tx[e].deadline, !.acked = TRUE]]
    /\ replied' = IF tx[e].verdict = "reply" THEN replied \cup {e} ELSE replied
    /\ tx' = [tx EXCEPT ![e] = NoTx]
    /\ UNCHANGED <<now, call, owner, future, wlock, abortDue, observed,
                   topic, log, expired>>

\* Minting, publishing or committing failed: everything is rolled back, even
\* though the broker may have the message.
AckRollback(e) ==
    /\ tx[e].phase # "none"
    /\ tx' = [tx EXCEPT ![e] = NoTx]
    /\ UNCHANGED <<now, row, call, owner, future, wlock, abortDue, observed,
                   topic, log, replied, expired>>

\* Mutant: the result's deadline check is dropped.
AcceptsAnyLive(e) == row[e].state = "live"

AcceptsResult(e) == row[e].state = "live" /\ now < row[e].deadline

\* A result with a local waiter and a live row: the row is deleted first.
ResultCommit(e) ==
    /\ OpenCall(e) /\ future[e] = "pending" /\ wlock[e] = "free" /\ RowFree(e)
    /\ AcceptsResult(e)
    /\ row' = [row EXCEPT ![e] = NoRow]
    /\ wlock' = [wlock EXCEPT ![e] = "result"]
    /\ UNCHANGED <<now, tx, call, owner, future, abortDue, observed, topic, log, replied, expired>>

\* The waiter is completed, unless the watchdog gave up meanwhile; or the answer
\* of the commit is lost and accept_reply raises.
ResultComplete(e) ==
    /\ wlock[e] = "result"
    /\ wlock' = [wlock EXCEPT ![e] = "free"]
    /\ \/ future' = [future EXCEPT ![e] = IF @ = "pending" THEN "result" ELSE @]
       \/ UNCHANGED future
    /\ UNCHANGED <<now, row, tx, call, owner, abortDue, observed, topic, log, replied, expired>>

-----------------------------------------------------------------------------
\* Mutant: the collector's horizon is one timeout.
CollectableEarly(e) == row[e].state # "absent" /\ row[e].created < now - T

\* Scheduler.tick on the leader: rows created more than two timeouts ago.
Collectable(e) == row[e].state # "absent" /\ row[e].created < now - 2 * T

Collect ==
    /\ \E e \in Execs : Collectable(e)
    /\ \A e \in Execs : Collectable(e) => RowFree(e)
    /\ row' = [e \in Execs |-> IF Collectable(e) THEN NoRow ELSE row[e]]
    /\ UNCHANGED <<now, tx, call, owner, future, wlock, abortDue, observed,
                   topic, log, replied, expired>>

\* A pod dies: its waiters and watchdogs are gone, its transactions roll back,
\* the rows stay.  Its replacement answers acknowledgements.
PodRestart(p) ==
    LET mine == {e \in Execs : owner[e] = p}
    IN  /\ call' = [e \in Execs |-> IF e \in mine /\ OpenCall(e) THEN "lost" ELSE call[e]]
        /\ wlock' = [e \in Execs |-> IF e \in mine THEN "free" ELSE wlock[e]]
        /\ abortDue' = [e \in Execs |-> IF e \in mine THEN FALSE ELSE abortDue[e]]
        /\ tx' = [e \in Execs |-> IF tx[e].pod = p THEN NoTx ELSE tx[e]]
        /\ UNCHANGED <<now, row, owner, future, observed, topic, log, replied, expired>>

-----------------------------------------------------------------------------
\* Standing alone, the module receives replies at any time, in any order and any
\* number of times, but only about an execution whose request was published.
Answerable(e) == Msg("request", e) \in log

CallStep(e) ==
    \/ \E p \in Pods : Execute(p, e)
    \/ SetupFails(e) \/ PublishRequest(e) \/ Return(e)
    \/ Disconnect(e) \/ CleanupFails(e) \/ CleanupFindsResult(e)

WatchdogStep(e) ==
    \/ WatchdogObserves(e) \/ WatchdogGivesUp(e)
    \/ \E who \in {"watchdog", "cancel"} : Expire(e, who)
    \/ ExpireReturns(e)

AckStep(e) ==
    \/ Answerable(e) /\ \E p \in Pods : AckOpen(p, e)
    \/ AckSend(e) \/ AckCommit(e) \/ AckRollback(e)

ResultStep(e) ==
    \/ Answerable(e) /\ ResultCommit(e)
    \/ ResultComplete(e)

Next ==
    \/ \E e \in Execs : CallStep(e) \/ WatchdogStep(e) \/ AckStep(e) \/ ResultStep(e)
    \/ \E p \in Pods : PodRestart(p)
    \/ Collect
    \/ Tick

Spec == Init /\ [][Next]_mcpVars

\* What the event loop and the bounded awaits guarantee: a runnable coroutine
\* runs, a bounded publication or transaction ends, the watchdog polls for as
\* long as the call is open, and the clock moves.  Nothing is assumed of
\* replies, disconnects, failures, restarts or the collector.
Fairness ==
    /\ WF_mcpVars(Tick)
    /\ \A e \in Execs :
        /\ WF_mcpVars(PublishRequest(e))
        /\ WF_mcpVars(Return(e))
        /\ WF_mcpVars(CleanupFails(e) \/ CleanupFindsResult(e) \/ Expire(e, "cancel"))
        /\ WF_mcpVars(Expire(e, "watchdog") \/ WatchdogGivesUp(e))
        /\ WF_mcpVars(ExpireReturns(e))
        /\ WF_mcpVars(ResultComplete(e))
        /\ WF_mcpVars(AckCommit(e) \/ AckRollback(e))

FairSpec == Spec /\ Fairness

-----------------------------------------------------------------------------
TypeOK ==
    /\ now \in Nat
    /\ row \in [Execs -> Rows]
    /\ tx \in [Execs -> Transactions]
    /\ call \in [Execs -> CallStates]
    /\ owner \in [Execs -> Pods]
    /\ future \in [Execs -> Futures]
    /\ wlock \in [Execs -> Holders]
    /\ abortDue \in [Execs -> BOOLEAN]
    /\ observed \in [Execs -> Nat]
    /\ topic \subseteq Messages
    /\ log \subseteq Messages
    /\ replied \subseteq Execs
    /\ expired \subseteq Execs

\* A caller that was handed the sandbox's result (accept_reply) never has an
\* abort or an ack-reset published for it, before or after: the timeout and the
\* result exclude each other across the waiter lock and the row lock.
ResultExcludesControls ==
    \A e \in Execs : future[e] = "result" =>
        Msg("abort", e) \notin log /\ Msg("ack-reset", e) \notin log

\* "timeout cannot cross a successful ack-reply" (_acknowledge): while a pod has
\* taken the verdict to answer ack-reply and not finished, no other pod turns
\* the row into a tombstone, removes it, or tells the caller it timed out.
TimeoutCannotCrossReply ==
    \A e \in Execs : tx[e].phase # "none" /\ tx[e].verdict = "reply" =>
        row[e].state = "live" /\ ~row[e].acked /\ future[e] \notin {"result", "timeout"}

\* A duplicate acknowledgement never preempts the post-ack abort: once an
\* ack-reply has committed, ack-reset is published only for an execution that
\* _expire_locked tombstoned as acknowledged, the one path that publishes Abort.
ResetNeverPreemptsAbort ==
    \A e \in replied : Msg("ack-reset", e) \in log => e \in expired

\* An abort goes only to an execution whose ack-reply committed; before that
\* there is nobody to abort (_expire_locked).
AbortOnlyAfterReply == \A e \in Execs : Msg("abort", e) \in log => e \in replied

\* The collector's horizon of two timeouts covers the one extension an
\* acknowledgement may give: no row still inside its deadline is ever collected.
CollectorSparesOpenDeadlines ==
    \A e \in Execs : row[e].state # "absent" /\ now < row[e].deadline => ~Collectable(e)

\* A tombstone is never revived, whichever pod's transaction rolls back or
\* commits around it, and an acknowledged row's deadline never moves again.
RowNeverRevives ==
    [][\A e \in Execs :
        /\ row[e].state = "tombstone" => row'[e].state # "live"
        /\ row[e].acked /\ row'[e].state # "absent" => row'[e].deadline = row[e].deadline
      ]_mcpVars

\* Every open call ends: returned, raised or lost with its pod, whatever the
\* replies, the database and the other pods do (Watchdog.wait).
EveryCallEnds == \A e \in Execs : OpenCall(e) ~> ~OpenCall(e)
=============================================================================
