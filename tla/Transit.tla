------------------------------- MODULE Transit -------------------------------
(***************************************************************************)
(* TransitService of ads-sandbox-manager: it holds a request until its     *)
(* sandbox is ready, forwards it, passes controls to the sandbox and       *)
(* answers back to the MCP pods.  Nothing here is durable.                 *)
(*                                                                         *)
(* The consumer never waits for a request: every accepted delivery runs in *)
(* a task of its own.  _pending holds the delivery object, and tasks       *)
(* compare identity, so a delivery is an execution and a generation.       *)
(***************************************************************************)
EXTENDS Integers, FiniteSets

CONSTANTS
    Execs,
    MaxGen      \* bound on how often one execution's request is delivered

VARIABLES
    status,     \* SandboxSession.status of the session, as a request sees it
    worker,     \* _workers holds a provisioning task
    pending,    \* _pending: the generation held for each execution, 0 for none
    gens,       \* how many deliveries of each execution were accepted
    tasks,      \* the _request tasks
    toSandbox,  \* messages of sandbox.req.<sandbox_id>
    toMcp,      \* messages of ads.sandbox.exec.reply
    dropped     \* history: deliveries a control dropped from _pending

transitVars == <<status, worker, pending, gens, tasks, toSandbox, toMcp, dropped>>

\* "absent" is no row; "busy" every status a request only waits on.
Statuses == {"absent", "busy", "service", "ready", "stopped"}
Stages == {"waiting", "minting", "failing"}
Tasks == [exec : Execs, gen : 1..MaxGen, stage : Stages]
SandboxMessages == [kind : {"request", "ack-reply", "ack-reset", "abort"}, exec : Execs]
McpMessages == [kind : {"acknowledge", "result", "failure"}, exec : Execs]

Held(t) == pending[t.exec] = t.gen

Init ==
    /\ status = "absent" /\ worker = FALSE
    /\ pending = [e \in Execs |-> 0] /\ gens = [e \in Execs |-> 0]
    /\ tasks = {} /\ toSandbox = {} /\ toMcp = {} /\ dropped = {}

\* accept(request): held and given a task, unless the execution is already held.
AcceptRequest(e) ==
    /\ pending[e] = 0 /\ gens[e] < MaxGen
    /\ gens' = [gens EXCEPT ![e] = @ + 1]
    /\ pending' = [pending EXCEPT ![e] = gens[e] + 1]
    /\ tasks' = tasks \cup {[exec |-> e, gen |-> gens[e] + 1, stage |-> "waiting"]}
    /\ UNCHANGED <<status, worker, toSandbox, toMcp, dropped>>

\* accept(control): abort and ack-reset drop the held request (never the
\* provisioner); every control goes on to the sandbox when there is one, unless
\* reading the row, minting or publishing fails.
AcceptControl(k, e) ==
    /\ IF k \in {"abort", "ack-reset"} /\ pending[e] # 0
       THEN /\ pending' = [pending EXCEPT ![e] = 0]
            /\ dropped' = dropped \cup {<<e, pending[e]>>}
       ELSE UNCHANGED <<pending, dropped>>
    /\ \/ /\ status # "absent"
          /\ toSandbox' = toSandbox \cup {[kind |-> k, exec |-> e]}
       \/ UNCHANGED toSandbox
    /\ UNCHANGED <<status, worker, gens, tasks, toMcp>>

\* A task ends; it releases the buffer only if the buffer is still its own.
End(t) ==
    /\ tasks' = tasks \ {t}
    /\ pending' = IF Held(t) THEN [pending EXCEPT ![t.exec] = 0] ELSE pending

Advance(t, stage) == tasks' = (tasks \ {t}) \cup {[t EXCEPT !.stage = stage]}

\* No sandbox, or a stopped one: the session's one provisioning task is started
\* (or joined) and awaited.
TaskProvision(t) ==
    /\ t.stage = "waiting" /\ Held(t) /\ ~worker
    /\ status \in {"absent", "stopped"}
    /\ worker' = TRUE
    /\ UNCHANGED <<status, pending, gens, tasks, toSandbox, toMcp, dropped>>

\* The provisioner claims the session; it returns, or fails, some time later.
WorkerClaims ==
    /\ worker /\ status \in {"absent", "stopped"}
    /\ status' = "busy"
    /\ UNCHANGED <<worker, pending, gens, tasks, toSandbox, toMcp, dropped>>

WorkerEnds ==
    /\ worker
    /\ worker' = FALSE
    /\ UNCHANGED <<status, pending, gens, tasks, toSandbox, toMcp, dropped>>

\* Lifecycle and recovery move the session between statuses.
StatusChanges ==
    /\ status' \in Statuses \ {status, "absent"}
    /\ status \in {"busy", "ready", "service"}
    /\ UNCHANGED <<worker, pending, gens, tasks, toSandbox, toMcp, dropped>>

\* The ready sandbox admits the request; its token is being minted.
TaskAdmit(t) ==
    /\ t.stage = "waiting" /\ Held(t) /\ status = "ready"
    /\ Advance(t, "minting")
    /\ UNCHANGED <<status, worker, pending, gens, toSandbox, toMcp, dropped>>

\* Mutant: _send publishes without looking at the buffer again.
HeldAlways(t) == TRUE

\* _send after the mint: the buffer must still hold this very delivery.
StillHeld(t) == Held(t)

TaskForward(t) ==
    /\ t.stage = "minting"
    /\ toSandbox' = IF StillHeld(t)
                    THEN toSandbox \cup {[kind |-> "request", exec |-> t.exec]}
                    ELSE toSandbox
    /\ End(t)
    /\ UNCHANGED <<status, worker, gens, toMcp, dropped>>

\* The wait timed out, or the row read, the provisioner, the mint or the
\* publication (which may have reached the broker) raised.
TaskRaises(t) ==
    /\ t.stage \in {"waiting", "minting"}
    /\ \/ toSandbox' = toSandbox
       \/ /\ t.stage = "minting" /\ StillHeld(t)
          /\ toSandbox' = toSandbox \cup {[kind |-> "request", exec |-> t.exec]}
    /\ IF Held(t)
       THEN Advance(t, "failing") /\ UNCHANGED pending
       ELSE End(t)
    /\ UNCHANGED <<status, worker, gens, toMcp, dropped>>

\* The failure verdict goes back if the delivery is still held; or cannot be sent.
TaskReportsFailure(t) ==
    /\ t.stage = "failing"
    /\ \/ StillHeld(t) /\ toMcp' = toMcp \cup {[kind |-> "failure", exec |-> t.exec]}
       \/ UNCHANGED toMcp
    /\ End(t)
    /\ UNCHANGED <<status, worker, gens, toSandbox, dropped>>

\* The loop finds that its delivery is no longer held.
TaskLeaves(t) ==
    /\ t.stage = "waiting" /\ ~Held(t)
    /\ End(t)
    /\ UNCHANGED <<status, worker, gens, toSandbox, toMcp, dropped>>

\* reply(): acknowledge and result of the sandbox's IPC are passed on as they
\* are, without a status gate, while the session has a row.
PassReply(k, e) ==
    /\ status # "absent"
    /\ toMcp' = toMcp \cup {[kind |-> k, exec |-> e]}
    /\ UNCHANGED <<status, worker, pending, gens, tasks, toSandbox, dropped>>

\* The manager process is replaced: buffers and tasks are gone.
ManagerRestart ==
    /\ tasks # {} \/ worker
    /\ tasks' = {} /\ worker' = FALSE
    /\ pending' = [e \in Execs |-> 0]
    /\ UNCHANGED <<status, gens, toSandbox, toMcp, dropped>>

TaskStep(t) ==
    \/ TaskProvision(t) \/ TaskAdmit(t) \/ TaskForward(t)
    \/ TaskRaises(t) \/ TaskReportsFailure(t) \/ TaskLeaves(t)

Next ==
    \/ \E e \in Execs :
        \/ AcceptRequest(e)
        \/ \E k \in {"ack-reply", "ack-reset", "abort"} : AcceptControl(k, e)
        \/ \E k \in {"acknowledge", "result"} : PassReply(k, e)
    \/ \E t \in tasks : TaskStep(t)
    \/ WorkerClaims \/ WorkerEnds \/ StatusChanges
    \/ ManagerRestart

Spec == Init /\ [][Next]_transitVars

-----------------------------------------------------------------------------
TypeOK ==
    /\ status \in Statuses /\ worker \in BOOLEAN
    /\ pending \in [Execs -> 0..MaxGen] /\ gens \in [Execs -> 0..MaxGen]
    /\ tasks \subseteq Tasks
    /\ toSandbox \subseteq SandboxMessages /\ toMcp \subseteq McpMessages
    /\ dropped \subseteq Execs \X (1..MaxGen)

\* A delivery that an abort or ack-reset dropped from the buffer is never
\* published afterwards, neither as a request to the sandbox nor as a failure to
\* the caller, even when its task was already minting.
DroppedStaysDropped ==
    [][\A t \in tasks : <<t.exec, t.gen>> \in dropped /\ t \notin tasks' =>
          UNCHANGED <<toSandbox, toMcp>>]_transitVars
=============================================================================
