----------------------------- MODULE SandboxExec -----------------------------
(***************************************************************************)
(* The exec path end to end: the MCP door (McpExec), the manager's transit *)
(* (Transit) and the sandbox's executor (IpcService), joined by their      *)
(* Kafka topics.  A published message is delivered at most once, in any    *)
(* order, or lost: consumers keep positions before they dispatch, seek to  *)
(* the end when they start and swallow the errors of their handlers.       *)
(* Duplicates come from the services themselves (a publication whose       *)
(* transaction rolled back is published again) and from producer retries   *)
(* of the kinds in Repeated.                                               *)
(***************************************************************************)
EXTENDS Integers, FiniteSets

CONSTANTS
    Execs, Pods, T, MaxTime,                                \* McpExec
    MaxGen,                                                 \* Transit
    Idents, Oversize, Shutdowns, None, Failures, MaxRestarts, \* IpcService
    Repeated    \* kinds of messages whose producer may append them twice

VARIABLES
    now, row, tx, call, owner, future, wlock, abortDue, observed, topic, log, replied, expired,
    status, worker, pending, gens, tasks, toSandbox, toMcp, dropped,
    startup, kafkaReady, stopping, failed, current, last, delivered, running, guest,
    pinging, shut, queue, acked, stop, replies, sent, ran, restarts, faulted,
    starts,     \* history: how often the guest started each execution
    verdict     \* history: what the waiter of each execution was completed with

Mcp == INSTANCE McpExec
Mgr == INSTANCE Transit
Ipc == INSTANCE IpcService

history == <<starts, verdict>>
vars == <<now, row, tx, call, owner, future, wlock, abortDue, observed, topic, log, replied,
          expired, status, worker, pending, gens, tasks, toSandbox, toMcp, dropped,
          startup, kafkaReady, stopping, failed, current, last, delivered, running, guest,
          pinging, shut, queue, acked, stop, replies, sent, ran, restarts, faulted,
          starts, verdict>>

Init ==
    /\ Mcp!Init /\ Mgr!Init /\ Ipc!Init
    /\ starts = [e \in Execs |-> 0]
    /\ verdict = [e \in Execs |-> "none"]

\* The variables of each component, with and without the topics its neighbours consume.
mcpRest == <<now, row, tx, call, owner, future, wlock, abortDue, observed, log, replied, expired>>
mcpVars == <<mcpRest, topic>>
mgrCore == <<status, worker, pending, gens, tasks, dropped>>
mgrVars == <<mgrCore, toSandbox, toMcp>>
ipcRest == <<startup, kafkaReady, stopping, failed, current, last, delivered, running, guest,
             pinging, shut, queue, acked, stop, sent, ran, restarts, faulted>>
ipcVars == <<ipcRest, replies>>

\* Consuming m; a repeated one stays behind for a second delivery.
Consume(set, m) == IF m.kind \in Repeated THEN {set, set \ {m}} ELSE {set \ {m}}

-----------------------------------------------------------------------------
McpAlone ==
    /\ \/ \E e \in Execs :
            \/ Mcp!CallStep(e) \/ Mcp!WatchdogStep(e)
            \/ Mcp!AckSend(e) \/ Mcp!AckCommit(e) \/ Mcp!AckRollback(e)
            \/ Mcp!ResultComplete(e)
       \/ Mcp!Collect
       \/ Mcp!Tick
    /\ UNCHANGED <<mgrVars, ipcVars, history>>

\* A pod reads an acknowledgement.
McpAcknowledged ==
    \E m \in toMcp, p \in Pods :
        /\ m.kind = "acknowledge"
        /\ Mcp!AckOpen(p, m.exec)
        /\ toMcp' \in Consume(toMcp, m)
        /\ UNCHANGED <<mgrCore, toSandbox, ipcVars, history>>

\* The pod that owns the waiter reads a result, of the sandbox or of the manager.
McpResult ==
    \E m \in toMcp :
        /\ m.kind \in {"result", "failure"}
        /\ Mcp!ResultCommit(m.exec)
        /\ verdict' = [verdict EXCEPT ![m.exec] = m.kind]
        /\ toMcp' \in Consume(toMcp, m)
        /\ UNCHANGED <<mgrCore, toSandbox, ipcVars, starts>>

MgrAlone ==
    /\ \/ \E t \in tasks : Mgr!TaskStep(t)
       \/ Mgr!WorkerClaims \/ Mgr!WorkerEnds \/ Mgr!ManagerRestart
       \/ Mgr!StatusChanges /\ status' = "ready"
    /\ UNCHANGED <<mcpVars, ipcVars, history>>

MgrRequest ==
    \E m \in topic :
        /\ IF m.kind = "request" THEN Mgr!AcceptRequest(m.exec)
           ELSE Mgr!AcceptControl(m.kind, m.exec)
        /\ topic' \in Consume(topic, m)
        /\ UNCHANGED <<mcpRest, ipcVars, history>>

MgrReply ==
    \E m \in replies :
        /\ Mgr!PassReply(m.kind, m.exec)
        /\ replies' \in Consume(replies, m)
        /\ UNCHANGED <<mcpVars, ipcRest, history>>

IpcAlone ==
    /\ Ipc!StartupPrepared \/ Ipc!StartupReady \/ Ipc!AckTimeout \/ Ipc!ExecuteEnds \/ Ipc!Restart
    /\ UNCHANGED <<mcpVars, mgrVars, history>>

\* What accept does with a message of the sandbox's topic.
IpcHandles(m, i) ==
    \/ m.kind = "request" /\ (\/ Ipc!Redeliver(m.exec, i) \/ Ipc!AcceptRequest(m.exec, i)
                              \/ Ipc!RejectOversize(m.exec, i) \/ Ipc!Reacknowledge(m.exec, i))
    \/ m.kind = "ack-reply" /\ (Ipc!Redeliver(m.exec, i) \/ Ipc!AcceptAckReply(m.exec, i))
    \/ m.kind \in {"ack-reset", "abort"} /\ Ipc!DropWaiting(m.exec, i)
    \/ m.kind = "abort" /\ Ipc!AbortExecuting(m.exec, i)

\* Handling m started the execution in the guest.
Started(m) == running' = m.exec /\ (running # m.exec \/ m.kind = "ack-reply")

IpcMessage ==
    \E m \in toSandbox, i \in Idents :
        /\ IpcHandles(m, i)
        /\ starts' = IF Started(m)
                     THEN [starts EXCEPT ![m.exec] = @ + 1] ELSE starts
        /\ toSandbox' \in Consume(toSandbox, m)
        /\ UNCHANGED <<mcpVars, mgrCore, toMcp, verdict>>

\* A message is lost, or read by a consumer that ignores it.
Lose ==
    /\ \/ \E m \in topic : topic' = topic \ {m} /\ UNCHANGED <<toSandbox, toMcp, replies>>
       \/ \E m \in toSandbox : toSandbox' = toSandbox \ {m} /\ UNCHANGED <<topic, toMcp, replies>>
       \/ \E m \in toMcp : toMcp' = toMcp \ {m} /\ UNCHANGED <<topic, toSandbox, replies>>
       \/ \E m \in replies : replies' = replies \ {m} /\ UNCHANGED <<topic, toSandbox, toMcp>>
    /\ UNCHANGED <<mcpRest, ipcRest, mgrCore, history>>

Next ==
    \/ McpAlone \/ McpAcknowledged \/ McpResult
    \/ MgrAlone \/ MgrRequest \/ MgrReply
    \/ IpcAlone \/ IpcMessage
    \/ Lose

Spec == Init /\ [][Next]_vars

-----------------------------------------------------------------------------
\* The guest starts an execution at most once, whatever is lost, retried after a
\* rollback or redelivered among the repeated kinds, and across IPC restarts.
AtMostOneStart == \A e \in Execs : starts[e] <= 1

\* The guest runs only what the MCP door released: an execution starts only
\* after an ack-reply, which no pod sends for a call that timed out, was
\* cancelled or got its result before.
StartsOnlyReleased == \A e \in Execs : starts[e] > 0 => Mcp!Msg("ack-reply", e) \in log

\* A call given up before any ack-reply was published is never executed, although
\* its request may still be held, forwarded and acknowledged later.
GivenUpStays ==
    \A e \in Execs :
        row[e].state = "tombstone" /\ Mcp!Msg("ack-reply", e) \notin log =>
            /\ Mcp!Msg("ack-reply", e) \notin log'
            /\ starts'[e] = starts[e]
GivenUpNeverStarts == [][GivenUpStays]_vars

\* A request that a control dropped from the manager's buffer is never forwarded
\* afterwards, although its task may already be minting the token for it.
DroppedStaysDropped == Mgr!DroppedStaysDropped

\* A caller is handed a sandbox result only if the guest ran the execution, or
\* the executor refused its size.
ResultMeansStarted ==
    \A e \in Execs : future[e] = "result" /\ verdict[e] = "result" =>
        starts[e] > 0 \/ e \in Oversize
=============================================================================
