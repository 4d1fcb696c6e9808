------------------------------ MODULE IpcService ------------------------------
(***************************************************************************)
(* ads-sandbox-ipc, the per-sandbox executor: one current unit, one        *)
(* terminal slot, startup, pings and shutdown.                             *)
(*                                                                         *)
(* One consumer task handles requests, controls and shutdowns one at a     *)
(* time; pings, the acknowledgement timer, startup and the execution are   *)
(* tasks of their own.  Handlers that touch the unit or the slot hold      *)
(* IpcService._lock from their first check to their publication, so each   *)
(* is one action; shutdown, which awaits before it takes the lock, is      *)
(* three.  A publication succeeds or, when Failures, raises.               *)
(***************************************************************************)
EXTENDS Integers, FiniteSets, Sequences

CONSTANTS
    Execs,        \* execution ids
    Idents,       \* (session, message, authenticated subject) triples
    Oversize,     \* executions whose payload exceeds settings.input_bytes
    Shutdowns,    \* shutdown messages of the manager, one per delivery
    None,         \* no execution
    Failures,     \* whether a publication may raise
    MaxRestarts   \* bound on process restarts

ASSUME IpcAssumption ==
    /\ None \notin Execs
    /\ Idents # {}
    /\ Oversize \subseteq Execs
    /\ Failures \in BOOLEAN
    /\ MaxRestarts \in Nat

VARIABLES
    startup,      \* IpcService._startup
    kafkaReady, stopping, failed,
    current,      \* IpcService.current
    last,         \* last_id, last_session_id/message_id/subject, last_result
    delivered,    \* _result_delivered
    running,      \* the execution whose _execute task is alive
    guest,        \* GuestExecutor.clean: "clean", or False while "busy" or left "dirty"
    pinging,      \* a ping handler is between its gate and its publication
    shut,         \* how far the handler of each shutdown message got
    queue,        \* _shutdowns
    acked,        \* shutdowns acknowledged by this process
    stop,         \* how far stop() got
    replies,      \* messages of sandbox.reply not yet consumed by the manager
    sent,         \* every reply this process published
    ran,          \* executions this process started in the guest
    restarts,
    faulted       \* history: a publication raised, a consumer died or the process was replaced

ipcVars == <<startup, kafkaReady, stopping, failed, current, last, delivered, running,
             guest, pinging, shut, queue, acked, stop, replies, sent, ran, restarts, faulted>>

\* The groups of variables that actions leave alone together.
lifecycleVars == <<startup, kafkaReady, stopping, failed, pinging, shut, stop, restarts>>
guestVars == <<running, guest, ran>>
slotVars == <<current, last, delivered>>
outVars == <<replies, sent>>
shutdownVars == <<queue, acked, faulted>>

Reply(k, e) == [kind |-> k, exec |-> e]
Replies == [kind : {"acknowledge", "result"}, exec : Execs]

SomeIdent == CHOOSE i \in Idents : TRUE
Units == [exec : Execs \cup {None}, ident : Idents, executing : BOOLEAN, abort : BOOLEAN]
NoUnit == [exec |-> None, ident |-> SomeIdent, executing |-> FALSE, abort |-> FALSE]
Slots == [exec : Execs \cup {None}, ident : Idents, result : BOOLEAN]
NoSlot == [exec |-> None, ident |-> SomeIdent, result |-> FALSE]

Init ==
    /\ startup = "running"
    /\ kafkaReady = FALSE /\ stopping = FALSE /\ failed = FALSE
    /\ current = NoUnit /\ last = NoSlot /\ delivered = TRUE
    /\ running = None /\ guest = "clean" /\ ran = {}
    /\ pinging = FALSE
    /\ shut = [s \in Shutdowns |-> "none"] /\ queue = <<>> /\ acked = {}
    /\ replies = {} /\ sent = {}
    /\ stop = "no"
    /\ restarts = 0 /\ faulted = FALSE

Send(m) ==
    /\ replies' = replies \cup {m}
    /\ sent' = sent \cup {m}

-----------------------------------------------------------------------------
(***************************************************************************)
(* _startup: prepare the guest until it answers, announce ready, open.     *)
(***************************************************************************)

\* prepare() succeeded (its ping needs a clean executor) and ready is being published.
StartupPrepared ==
    /\ startup = "running" /\ guest = "clean"
    /\ startup' = "publishing"
    /\ UNCHANGED <<kafkaReady, stopping, failed, pinging, shut, stop, restarts, guestVars,
                   slotVars, outVars, shutdownVars>>

\* ready was published; a shutdown that arrived during the publication wins.
StartupReady ==
    /\ startup = "publishing"
    /\ startup' = "done"
    /\ kafkaReady' = IF stopping THEN kafkaReady ELSE TRUE
    /\ UNCHANGED <<stopping, failed, pinging, shut, stop, restarts, guestVars, slotVars,
                   outVars, shutdownVars>>

\* The startup deadline passed, or ready could not be published.
StartupFails ==
    /\ startup \in {"running", "publishing"}
    /\ startup' = "done"
    /\ failed' = IF stopping THEN failed ELSE TRUE
    /\ UNCHANGED <<kafkaReady, stopping, pinging, shut, stop, restarts, guestVars, slotVars,
                   outVars, shutdownVars>>

-----------------------------------------------------------------------------
(***************************************************************************)
(* accept: a verified request or control from sandbox.req.<sandbox_id>.    *)
(***************************************************************************)
Gate == kafkaReady /\ ~stopping /\ ~failed

\* _remember: the single terminal slot is overwritten.
Remember(e, i, result) == last' = [exec |-> e, ident |-> i, result |-> result]

\* Mutant: a dropped unit is remembered as if it had a result.
DropUnitWithResult ==
    /\ Remember(current.exec, current.ident, TRUE)
    /\ delivered' = TRUE
    /\ current' = NoUnit

\* _drop_waiter: the unit leaves without a result.
DropUnit ==
    /\ Remember(current.exec, current.ident, FALSE)
    /\ delivered' = TRUE
    /\ current' = NoUnit

\* A request or ack-reply that repeats the last execution redelivers its result.
Redeliver(e, i) ==
    /\ Gate /\ e = last.exec
    /\ last.result /\ i = last.ident
    /\ Send(Reply("result", e))
    /\ delivered' = TRUE
    /\ UNCHANGED <<lifecycleVars, guestVars, current, last, shutdownVars>>

\* Mutant: an execution that was dropped may come again.
FreshUnlessAnswered(e) == e # last.exec \/ ~last.result

\* message.execution_id is not the terminal one.
Fresh(e) == e # last.exec

\* Mutant: the request is executed at once, without waiting for ack-reply.
AcceptRequestAndRun(e, i) ==
    /\ Gate /\ Fresh(e) /\ current.exec = None /\ e \notin Oversize
    /\ Send(Reply("acknowledge", e))
    /\ current' = [exec |-> e, ident |-> i, executing |-> TRUE, abort |-> FALSE]
    /\ running' = e /\ guest' = "busy" /\ ran' = ran \cup {e}
    /\ UNCHANGED <<lifecycleVars, last, delivered, shutdownVars>>

\* A new request takes the unit and is acknowledged; if that cannot be
\* published the unit is remembered as dropped.
AcceptRequest(e, i) ==
    /\ Gate /\ Fresh(e) /\ current.exec = None /\ e \notin Oversize
    /\ \/ /\ Send(Reply("acknowledge", e))
          /\ current' = [exec |-> e, ident |-> i, executing |-> FALSE, abort |-> FALSE]
          /\ UNCHANGED <<last, delivered>>
       \/ /\ Failures
          /\ Remember(e, i, FALSE)
          /\ delivered' = TRUE
          /\ UNCHANGED <<current, outVars>>
    /\ UNCHANGED <<lifecycleVars, guestVars, shutdownVars>>

\* An oversize request is answered with an error result and never executed.
RejectOversize(e, i) ==
    /\ Gate /\ Fresh(e) /\ current.exec = None /\ e \in Oversize
    /\ Remember(e, i, TRUE)
    /\ \/ Send(Reply("result", e)) /\ delivered' = TRUE
       \/ Failures /\ delivered' = FALSE /\ UNCHANGED outVars
    /\ UNCHANGED <<lifecycleVars, guestVars, current, shutdownVars>>

Holds(e, i) == Gate /\ Fresh(e) /\ current.exec = e /\ current.ident = i

\* The same request again, before execution: acknowledged again.
Reacknowledge(e, i) ==
    /\ Holds(e, i) /\ ~current.executing
    /\ Send(Reply("acknowledge", e))
    /\ UNCHANGED <<lifecycleVars, guestVars, slotVars, shutdownVars>>

\* Mutant: a repeated ack-reply starts the execution again.
AcceptAckReplyAgain(e, i) ==
    /\ Holds(e, i)
    /\ current' = [current EXCEPT !.executing = TRUE]
    /\ running' = e
    /\ guest' = "busy" /\ ran' = ran \cup {e}
    /\ UNCHANGED <<lifecycleVars, last, delivered, outVars, shutdownVars>>

\* ack-reply within the unit's deadline: execution starts.  An executor that is
\* not clean answers "guest unavailable" without touching the guest.
AcceptAckReply(e, i) ==
    /\ Holds(e, i) /\ ~current.executing
    /\ current' = [current EXCEPT !.executing = TRUE]
    /\ running' = e
    /\ IF guest = "clean"
       THEN guest' = "busy" /\ ran' = ran \cup {e}
       ELSE UNCHANGED <<guest, ran>>
    /\ UNCHANGED <<lifecycleVars, last, delivered, outVars, shutdownVars>>

\* ack-reset, or abort before execution, drops the waiting unit; so does its
\* deadline, whether the timer or a late ack-reply finds it passed.
DropWaiting(e, i) ==
    /\ Holds(e, i) /\ ~current.executing
    /\ DropUnit
    /\ UNCHANGED <<lifecycleVars, guestVars, outVars, shutdownVars>>

\* Abort of an executing unit sets its event; the execution ends by itself.
AbortExecuting(e, i) ==
    /\ Holds(e, i) /\ current.executing
    /\ current' = [current EXCEPT !.abort = TRUE]
    /\ UNCHANGED <<lifecycleVars, guestVars, last, delivered, outVars, shutdownVars>>

\* Mutant: the timer wakes and leaves the unit in place.
AckTimeoutIgnored ==
    /\ current.exec # None /\ ~current.executing /\ stop = "no"
    /\ UNCHANGED ipcVars

\* _ack_timeout wakes and finds its unit still waiting.
AckTimeout ==
    /\ current.exec # None /\ ~current.executing /\ stop = "no"
    /\ DropUnit
    /\ UNCHANGED <<lifecycleVars, guestVars, outVars, shutdownVars>>

-----------------------------------------------------------------------------
(***************************************************************************)
(* _execute ends, and shutdown.                                            *)
(***************************************************************************)

\* Mutant: only one waiting shutdown is acknowledged.
FinishOneShutdown(n) ==
    /\ n = IF queue = <<>> THEN 0 ELSE 1
    /\ UNCHANGED faulted
    /\ acked' = acked \cup {queue[k] : k \in 1..n}
    /\ queue' = SubSeq(queue, n + 1, Len(queue))

\* _finish_shutdown acknowledges the first n queued shutdowns and stops there:
\* all of them, or, when a publication raises, fewer.
FinishShutdown(n) ==
    /\ n \in 0..Len(queue)
    /\ n = Len(queue) \/ Failures
    /\ faulted' = (faulted \/ n < Len(queue))
    /\ acked' = acked \cup {queue[k] : k \in 1..n}
    /\ queue' = SubSeq(queue, n + 1, Len(queue))

\* The guest is done and cleaned up, or its cleanup failed and the executor stays
\* unclean.  The slot remembers the result, the unit is free, the result is
\* published and waiting shutdowns are acknowledged.
ExecuteEnds ==
    /\ running # None
    /\ running' = None
    /\ \/ guest = "busy" /\ guest' = "clean"
       \/ guest = "busy" /\ Failures /\ guest' = "dirty"
       \/ guest = "dirty" /\ UNCHANGED guest
    /\ Remember(running, current.ident, TRUE)
    /\ current' = NoUnit
    /\ \/ /\ Send(Reply("result", running))
          /\ delivered' = TRUE
          /\ \E n \in 0..Len(queue) : FinishShutdown(n)
       \/ /\ Failures
          /\ delivered' = FALSE /\ faulted' = TRUE
          /\ UNCHANGED <<outVars, queue, acked>>
    /\ UNCHANGED <<lifecycleVars, ran>>

\* A ping passes the gate; egress health is asked next.
PingBegin ==
    /\ kafkaReady /\ ~stopping /\ ~pinging
    /\ pinging' = TRUE
    /\ UNCHANGED <<startup, kafkaReady, stopping, failed, shut, stop, restarts, guestVars,
                   slotVars, outVars, shutdownVars>>

\* The ping is answered, or egress is unhealthy and it is not.
PingEnd ==
    /\ pinging
    /\ pinging' = FALSE
    /\ UNCHANGED <<startup, kafkaReady, stopping, failed, shut, stop, restarts, guestVars,
                   slotVars, outVars, shutdownVars>>

\* shutdown latches before any await, then closes egress.
ShutdownLatch(s) ==
    /\ shut[s] = "none"
    /\ \A t \in Shutdowns : shut[t] \in {"none", "done"}
    /\ stopping' = TRUE /\ kafkaReady' = FALSE
    /\ shut' = [shut EXCEPT ![s] = "latched"]
    /\ UNCHANGED <<startup, failed, pinging, stop, restarts, guestVars, slotVars, outVars,
                   shutdownVars>>

\* Mutant: pings in progress are left alone.
PingsLeftAlone == pinging

PingsCancelled == FALSE

\* It queues its acknowledgement, cancels pings and startup, and waits for the lock.
ShutdownQueue(s) ==
    /\ shut[s] = "latched"
    /\ shut' = [shut EXCEPT ![s] = "queued"]
    /\ queue' = Append(queue, s)
    /\ pinging' = PingsCancelled
    /\ startup' = "done"
    /\ UNCHANGED <<kafkaReady, stopping, failed, stop, restarts, guestVars, slotVars, outVars, acked,
                   faulted>>

\* Mutant: an undelivered result is not retried.
NothingOwed == TRUE

\* The slot holds no result whose publication failed.
NothingToRetry == ~last.result \/ delivered

\* Under the lock: a waiting unit is dropped (which overwrites the slot); with no
\* unit left, a result still owed is published before the acknowledgements.
ShutdownLocked(s) ==
    /\ shut[s] = "queued"
    /\ shut' = [shut EXCEPT ![s] = "done"]
    /\ \/ /\ current.executing
          /\ UNCHANGED <<slotVars, outVars, shutdownVars>>
       \/ /\ current.exec # None /\ ~current.executing
          /\ DropUnit
          /\ \E n \in 0..Len(queue) : FinishShutdown(n)
          /\ UNCHANGED outVars
       \/ /\ current.exec = None
          /\ \/ /\ NothingToRetry
                /\ UNCHANGED <<delivered, outVars>>
                /\ \E n \in 0..Len(queue) : FinishShutdown(n)
             \/ /\ ~NothingToRetry
                /\ Send(Reply("result", last.exec))
                /\ delivered' = TRUE
                /\ \E n \in 0..Len(queue) : FinishShutdown(n)
             \/ /\ ~NothingToRetry /\ Failures
                /\ faulted' = TRUE
                /\ UNCHANGED <<delivered, outVars, queue, acked>>
          /\ UNCHANGED <<current, last>>
    /\ UNCHANGED <<startup, kafkaReady, stopping, failed, pinging, stop, restarts, guestVars>>

\* A consumer loop died: stop() latches, aborts the execution and cancels the
\* startup and the timer,
StopBegin ==
    /\ Failures /\ stop = "no"
    /\ stop' = "draining"
    /\ stopping' = TRUE /\ kafkaReady' = FALSE /\ failed' = TRUE
    /\ startup' = "done"
    /\ current' = [current EXCEPT !.abort = current.executing]
    /\ faulted' = TRUE
    /\ UNCHANGED <<pinging, shut, restarts, guestVars, last, delivered, outVars, queue, acked>>

\* and, once the execution has ended, forgets the unit and the waiting shutdowns.
StopEnd ==
    /\ stop = "draining" /\ running = None
    /\ stop' = "done"
    /\ current' = NoUnit
    /\ queue' = <<>>
    /\ UNCHANGED <<startup, kafkaReady, stopping, failed, pinging, shut, restarts, guestVars,
                   last, delivered, outVars, acked, faulted>>

\* The process is replaced: its memory is gone.  (What it left in the guest is GuestExecutor's.)
Restart ==
    /\ restarts < MaxRestarts
    /\ restarts' = restarts + 1
    /\ startup' = "running"
    /\ kafkaReady' = FALSE /\ stopping' = FALSE /\ failed' = FALSE
    /\ current' = NoUnit /\ last' = NoSlot /\ delivered' = TRUE
    /\ running' = None /\ guest' = "clean" /\ ran' = {}
    /\ pinging' = FALSE
    /\ shut' = [s \in Shutdowns |-> IF shut[s] = "done" THEN "done" ELSE "none"]
    /\ queue' = <<>> /\ acked' = {} /\ stop' = "no"
    /\ sent' = {} /\ faulted' = TRUE
    /\ UNCHANGED replies

-----------------------------------------------------------------------------
\* Standing alone, requests and controls of any identity arrive at any time, in
\* any order and any number of times.
MessageStep(e, i) ==
    \/ Redeliver(e, i) \/ AcceptRequest(e, i) \/ RejectOversize(e, i) \/ Reacknowledge(e, i)
    \/ AcceptAckReply(e, i) \/ DropWaiting(e, i) \/ AbortExecuting(e, i)

ShutdownStep(s) == ShutdownLatch(s) \/ ShutdownQueue(s) \/ ShutdownLocked(s)

TaskStep ==
    \/ StartupPrepared \/ StartupReady \/ StartupFails
    \/ AckTimeout \/ ExecuteEnds
    \/ PingBegin \/ PingEnd
    \/ StopBegin \/ StopEnd

Next ==
    \/ \E e \in Execs, i \in Idents : MessageStep(e, i)
    \/ \E s \in Shutdowns : ShutdownStep(s)
    \/ TaskStep
    \/ Restart

Spec == Init /\ [][Next]_ipcVars

\* Tasks run, the guest call and every publication are bounded, timers fire.
\* Nothing is assumed of the messages.
Fairness ==
    /\ WF_ipcVars(AckTimeout) /\ WF_ipcVars(ExecuteEnds) /\ WF_ipcVars(StopEnd)
    /\ \A s \in Shutdowns : WF_ipcVars(ShutdownQueue(s)) /\ WF_ipcVars(ShutdownLocked(s))

FairSpec == Spec /\ Fairness

-----------------------------------------------------------------------------
TypeOK ==
    /\ startup \in {"running", "publishing", "done"}
    /\ kafkaReady \in BOOLEAN /\ stopping \in BOOLEAN /\ failed \in BOOLEAN
    /\ current \in Units /\ last \in Slots /\ delivered \in BOOLEAN
    /\ running \in Execs \cup {None}
    /\ guest \in {"clean", "busy", "dirty"}
    /\ ran \subseteq Execs
    /\ pinging \in BOOLEAN
    /\ shut \in [Shutdowns -> {"none", "latched", "queued", "done"}]
    /\ queue \in Seq(Shutdowns) /\ acked \subseteq Shutdowns
    /\ stop \in {"no", "draining", "done"}
    /\ replies \subseteq Replies /\ sent \subseteq Replies
    /\ restarts \in Nat /\ faulted \in BOOLEAN

\* Once a shutdown is acknowledged the process is silent: no execution, no unit,
\* no ping that may still answer, no startup that may still announce ready.
QuietAfterShutdownAck ==
    acked # {} =>
        /\ current.exec = None /\ running = None
        /\ ~pinging /\ ~kafkaReady
        /\ startup = "done"

\* "emits result before shutdown-ack": a shutdown is acknowledged only when the
\* result the terminal slot holds has been published.
ResultBeforeShutdownAck ==
    acked # {} /\ last.result => Reply("result", last.exec) \in sent

\* "A failed result publication cannot be bypassed by shutdown-ack": when a
\* shutdown is acknowledged, every execution this process ran has its result out.
NoResultBypassed ==
    acked # {} => \A e \in ran : Reply("result", e) \in sent

\* "Duplicate requests never start the current/last execution again": what starts is
\* neither the execution the slot answers for nor a second one beside a running one.
SlotNeverRuns ==
    [][running' # running /\ running' # None => running' # last.exec /\ running = None]_ipcVars

\* A shutdown is acknowledged at last, also when it finds an execution running,
\* unless a publication raises or the process is lost (the manager then sends another).
ShutdownAcknowledged ==
    \A s \in Shutdowns : shut[s] = "latched" ~> s \in acked \/ faulted

\* A unit never occupies the sandbox for ever: it executes to its end, is
\* dropped by a control or by its own deadline.
UnitEnds == \A e \in Execs : current.exec = e ~> current.exec # e
=============================================================================
