# TLA+ models of ADS

ADS is an autonomous development system: a browser talks to `ads`, which sends each turn to
`ads-engine` over Kafka; the engine runs a model and calls tools through `ads-sandbox-mcp`; a tool call
becomes a command that `ads-sandbox-manager` routes to the Kubernetes sandbox of the chat session, where
`ads-sandbox-ipc` runs it in a guest pod whose traffic passes through `ads-sandbox-egress`. This directory
holds TLA+ modules of the parts whose correctness depends on order, failure and concurrency, the TLC
configurations that check small instances of them, and proofs checked by TLAPS.

1. [Inventory](#1-inventory): the parts, their state, operations, interactions and obligations
2. [Modules](#2-modules): which module models which part, and how
3. [Runs](#3-runs): what each configuration asks, its bounds and its answer
4. [Fairness](#4-fairness)
5. [Proofs](#5-proofs)
6. [What the code was found to do](#6-what-the-code-was-found-to-do)
7. [Not modelled](#7-not-modelled)
8. [Plan](#8-plan)

To check a configuration: `tlc -config MCMcpExec.cfg MCMcpExec`; to check a proof module: `tlapm McpExecProofs.tla`.

## 1. Inventory

    browser -> ads  --ads.engine.request-->  ads-engine --HTTP--> ads-sandbox-mcp
                ^  <--ads.engine.output---       |                   |      ^
                |                            (model)   exec.request  v      |  exec.reply
                |                                                ads-sandbox-manager ---- Kubernetes
                |                                    sandbox.req.<id> |      ^  sandbox reply
                +----- egress config-update ----------------->  ads-sandbox-ipc ---- guest pod
                                                                      | HTTPS
                                                                ads-sandbox-egress

No component trusts a topic to keep a record. Almost every consumer commits or seeks past what it has
not handled, starts at the end of a partition that it has not read before, and swallows the errors of its
handlers. Each protocol must therefore be safe under loss, duplication (a publication inside a
transaction that rolls back, a non-idempotent producer, a retry) and reordering between topics, and must
come to an end by timeouts. The exception is the lifecycle topic of the manager, whose consumer commits
only after an admission transaction.

### ads: chat sessions (`services/ads/src/ads`)

*State*: `session_run` (status, `last_order`, continuous watermark, candidate tombstone),
`session_run_buffer` (deltas by order), the linked list of entries of a session and its `latest`,
`chat.committed_tombstone_id`; in memory, publications under way and the list of due runs in the watchdog.
*Operations*: `SendService.send`; the outputs `acknowledge`, `partial_response`, `ping`, `finish`,
`error` in `EngineOutputService`; the watchdog's `abort_and_break` and `break_run`.
*Hard*: deltas arrive out of order, twice, late, or after the finish; the watchdog lists due runs in one
transaction and breaks them in others; a publication may fail after its row was committed.
*Correct when* the transcript is a sequence of whole turns in order, a finished run is complete and
is never unwound, the history starts at a tombstone that exists, and every turn ends.

### ads-engine (`services/ads-engine/src/ads_engine`)

*State*: `active_sessions` (a table, reset at start), `_runs` (session to task), the ack event and the order
number of each run. *Operations*: `handle` (claim, acknowledge, wait, run the model, finish or error,
release), `handle_ack_response`, `handle_abort`, and `on_message`, which starts a task per record.
*Hard*: a redelivered request meets the running one; an abort meets the next run of the session; a model
stream breaks after deltas went out; a restart forgets the runs.
*Correct when* the model runs only for a run that ads accepted, an abort hits only the run it names, no
order number is used twice, and a session is always released.

### ads-sandbox-mcp: the exec door (`services/ads-sandbox-mcp/src/ads_sandbox_mcp`)

*State*: `sandbox_execution`, a durable row per call, shared by all pods; in each pod the waiters with
their lock and result future. *Operations*: `execute`, `_acknowledge` (a transaction that holds the row
lock across its publication), `_result`, the watchdog and the cancel path (`_expire_locked`), the collector.
*Hard*: the timeout races the acknowledgement and the result, on several pods; the caller disconnects; a
transaction fails after its message was sent.
*Correct when* a call that got its result has no abort or reset behind it, a timeout never decides while
an acknowledgement holds the row, no command runs after the caller was told it never will, and every call
returns.

### ads-sandbox-manager (`services/ads-sandbox-manager/src/ads_sandbox_manager`)

* **Transit** (`service.py`, `controller.py`): buffers a request until the sandbox is ready, mints a
  token, forwards it; passes controls down and replies up. Nothing is durable. Correct when what a control
  dropped is never forwarded.
* **Session lifecycle** (`store.py`, `sessions.py`, `lifecycle*.py`, `recovery.py`): the row of a session,
  its PVC records, its cleanup works and the objects in the cluster. A claim builds; idle, reap, service and
  recovery works delete; a late create may land after all of them. Correct when a stopped session has
  nothing running, a ready one has all it needs, a workspace is deleted only by a reap, and no session stays
  between states.
* **Paired resources** (`pair_*.py`, `egress_*.py`, `relay_*.py`): the ledger of a generation with the
  state of every write, the publishers, the capture, the seal, the teardown, what an idle session keeps for
  its next generation, and the registry that rebuilds lost work. A write that timed out may still be
  performed at any later time. Correct when a retired generation is quiet, an idle session keeps its
  disk, its key and its egress state and nothing that collides, the disk has one tenant at a time, and
  recoveries and shutdowns end.
* **Durable admission** (`lifecycle_kafka.py`), **barrier** (`barrier.py`), **golden images and the CA**:
  not modelled, see section 7.

### ads-sandbox-ipc (`services/ads-sandbox-ipc/src/ads_sandbox_ipc`)

* **Unit service** (`service.py`): one current unit, one terminal slot, startup, pings, shutdown. Correct
  when nothing starts twice or beside another, and a shutdown is acknowledged only when nothing is left to
  answer.
* **Guest executor** (`guest.py`, `pid_store.py`, and the guest's `ads-session-exec`): one process tree at a
  time, found again after a crash by a PID file in the guest and a PID store on the IPC volume. Correct when
  only trees of sessions are killed and none survives unrecorded.
* **Egress delivery** (`egress.py`, `egress_transport.py`): gives the settings that ads publishes to the
  paired egress process. Correct when its evidence is true, revisions never regress and a new process gets
  its policy.

### ads-sandbox-egress (`services/ads-sandbox-egress/src/ads_sandbox_egress`)

One event loop in a Pod of its own through which all traffic of the guest passes.

* **Durable identities** (`identity_store.py`, `ech_lifecycle.py`, `dnssec_lifecycle.py`,
  `runtime_identity.py`): wrapped keys and the publications that depend on them, in a store of single
  transactions. Correct when an answer a guest holds keeps its private keys, and a crash leaves a store
  that opens.
* **Flows** (`runtime.py`, `interception.py`, `connections.py`, `origin_tls.py`, `tls_transport.py`,
  `http1_proxy.py`): a task per redirected socket, under a limit. Correct when whatever a flow holds is
  released by an owner still on its stack, wherever it is cut off, and slots are never exceeded.
* **HTTP/2** (`http2_proxy.py`): exchanges between two connections with stream numbers of their own. Correct
  when every DATA frame is credited once, a response reaches its own stream, and a drain lets no new request
  through.
* **DNS** (`dns_transport.py`, `resolution.py`, `membership.py`, `dnssec_*.py`): queries under limits, the
  walk from name to name, the evidence a connection needs for each request, the chain of trust and the
  proofs of denial. Correct when every query is released once, evidence lapses with its records, an answer
  is called secure only along an unbroken chain, and no genuine records prove what the zone denies.
* **Certificates** (`status_acquisition.py`, `crl_status.py`, `certificates.py`, `certificate_mirror.py`,
  `crl.py`): the status of an origin, and the certificate and CRLs the guest is shown in its place. Correct
  when no revocation is masked by an older list and what a guest was shown stays what it was.

### ads: browser sessions (`auth.py`, `session_binder.py`)

*State*: the access token in the cookie, the refresh token in the database. *Hard*: several requests rotate
at once, and every response writes the cookie. *Correct when* one failed refresh loses nothing, only rotations
that overlap get into each other's way, and no request is bound with a token that had lapsed when it came.

### The rest

`ads-preferences`, projects and pages, the engine's executor and credentials, `ads-sandbox-ca`, the context
compactor and meter, the shared libraries, images and charts are listed with their reasons in `PROJECT.json`
and section 7.

## 2. Modules

Each component module stands alone (its environment sends any message at any time) and is composed by
`INSTANCE`, with the same variables, in an end-to-end module whose environment is the other component.

| module | models | composed in |
|---|---|---|
| `McpExec` | the exec door, several pods | `SandboxExec` |
| `Transit` | the manager's `TransitService` | `SandboxExec` |
| `IpcService` | the unit service | `SandboxExec` |
| `SandboxExec` | a command from call to guest and back | |
| `GuestExecutor` | guest executor, PID store, guest | |
| `EgressDelivery` | ads' publisher, delivery in IPC, `PolicyStore` | |
| `AdsRun` | a chat session in ads | `ChatTurn` |
| `EngineRun` | a chat session in ads-engine | `ChatTurn` |
| `ChatTurn` | a turn from send to finish | |
| `SessionLifecycle` | a session's sandbox: rows, works, cluster | |
| `PairLifetime` | the paired resources of a session, generation after generation | implements `DiskTenancy` |
| `DiskTenancy` | abstract: one tenant at a time of a session's storage | |
| `EgressIdentity` | keys and publications of an egress Pod | |
| `EgressFlows`, `Http2Proxy` | flows with HTTP/1 owners; an HTTP/2 owner | |
| `Resolution`, `Membership` | evidence for a name; its use by a connection's requests | |
| `DnssecTrust`, `DnssecDenial` | the chain of trust; the proofs of denial it rests on | |
| `DnsService` | the DNS server's queries and connections | |
| `StatusAcquisition`, `CertificateMirror` | an origin's status; what the guest is shown | |
| `BrowserSession` | rotation of tokens by concurrent requests | |
| `McpExecProofs`, `IpcServiceProofs`, `Http2ProxyProofs`, `PairLifetimeProofs`, `SessionLifecycleProofs` | theorems of one module | |
| `SandboxPodsProofs`, `EgressAnswersProofs`, `AdsSessionsProofs` | theorems of the components that a run checks together | |
| `MC*` | instances for TLC | |

`PROJECT.json` maps each definition to the lines it models. What counts as one step:

* A database transaction is one step when its body has no other `await`. `_acknowledge` publishes inside its
  transaction, so it is three steps in `McpExec`: open, send, finish (commit or roll back).
* A stretch of a coroutine between two awaits is one step. What a coroutine read before an await and uses
  after it is a variable of the model (`pod`, `todo` in `GuestExecutor`, `expected`, `observed` in
  `EgressDelivery`, `watch` in `AdsRun`, the executor's work in `SessionLifecycle`).
* A handler that holds a lock from its first check to its publication is one step where nothing it does
  under the lock can be seen from outside (`IpcService`). Where others run without the lock, the lock is a
  variable (`holder` in `EgressDelivery`, `wlock` in `McpExec`).
* A publication either appends, or raises, or appends and raises, as the caller can tell them apart.

**McpExec.** `row` is the table, `tx` the open `_acknowledge` transaction, `call` the `execute` coroutine,
`future` and `wlock` the waiter. `topic` is what is not yet consumed, `log` everything ever sent. Time is
`now` in ticks; `T` is `timeout_seconds`; an acknowledgement may extend a deadline to `created + 2 T`; the
collector deletes older rows.

**Transit.** A delivery is an execution and a generation, because the code compares the *identity* of the
buffered request. `tasks` are the `_request` coroutines with the stage they are in.

**IpcService.** `current` is the unit, `last` and `delivered` the terminal slot. The shutdown handler waits
for the latch before it takes the lock, so it is three steps. The queue holds the shutdowns that wait for
the unit to end.

**SandboxExec.** Joins the three; a message is consumed once, in any order, or lost (`Lose`), and kinds in
`Repeated` may stay for another delivery. `starts` counts how often the guest ran a command.

**GuestExecutor.** `tree` and `pidOf` are what runs in the guest, `file` the PID file, `store` the PID
store. A replaced pod has a new PID namespace that may reuse a number, and a daemon of its own that must not
be killed.

**EgressDelivery.** `floor`, `snapshot`, `instance`, `installed` are the fields of `EgressDelivery`; `checks`
are health checks in progress, ordered by sequence number; a snapshot is identified by its revision.

**AdsRun.** The chain of entries is a sequence of pairs `<<message, order>>`, the user's entry having
order -1; unwinding cuts it before the user's entry. A buffered delta that extends the continuous prefix
promotes all that follow.

**EngineRun.** `task` is where `handle` is; `refused` are requests whose error is still to be published.
Three attempts of the model are the code's `OPENAI_ATTEMPTS`.

**ChatTurn.** Records are consumed once, lost, or, when their kind is in `Repeated`, left for another
delivery. `announced` is history: the last orders the engine announced.

**SessionLifecycle.** One session, without the paired resources. `row` is `sandbox_session`, `pvcs` the
`session_pvc` records, `works` the `cleanup_work` rows, `objs` and `disks` the cluster, `landing` the create
calls that the API server has yet to perform although their caller may have given up, `builders`, `execs`
and `rescue` the workers. A sandbox id is a generation and a disk a PVC lifetime, both numbered in the
order they are drawn. A recovery verdict and an orphan sighting are kept between their observation and their
admission; the other signals are re-read when they are admitted.

**PairLifetime.** `intents` is the ledger, with the disposition and the uid of each write; `writes` are the
publishers' tasks, `wire` the calls whose task is gone; `works`, `disposals` and `row` the rows of the
cleanup, `objs` the cluster. Members that the code publishes together are one member. Abstracted: the
evidence that a volume was released is taken as captured while it was bound; a Pod is placed, and its
volumes attached, when it is created; one builder at a time; the service kind of work and the deletion of
the session's row are left out. `OneTenant` is `DiskTenancy!Spec` under the mapping that makes the tenant
the one generation that is not retired, or the reaper while a disposal is open.

**EgressIdentity.** Between two awaits only the death of the process comes in between, and each transaction
of the store is durable by itself: `task` is the operation in progress and its remaining transactions.

**EgressFlows.** One task per flow: `pc` is the await it is at, `open` the sockets, TLS sessions and lookups
that exist because of it. A socket that was connected (`fresh`) is the connector's until it is handed on, then
the inspector's, and the flow's (`origin`) from the return of `inspect_origin` on. At every await a task may
fail, run out of time or be cancelled (`Fails`); the exception then passes the owners on the stack (`Handler`,
`Outer`), and each releases only what its own `finally` or `except` names (`Releases`): the connector its
socket, `inspect_origin` socket and session, `TLSStream.accept` the guest's side, the HTTP/1 owner its two legs,
`_run` front and upstream, and then the membership waits for its lookups. A task cancelled before its first step
passes none of them (`CancelUnstarted`). The slot is given back by the task's callback. Flows are admitted from
the start, under no policy yet, as `PolicyStore.accepting` is. A peer may reset its socket at any time. What the
parsers accept and what the policy says of a request are verdicts drawn when they are needed.

**Http2Proxy.** A cancelled task learns of it at its next turn; a DATA frame is one unit of the receive window.

**DnssecTrust.** Names lie on one line. The zones are the truth; what an upstream shows is drawn when the
code first looks at it, and a signature of a zone's own key verifies only over what the zone publishes.
Budgets of queries and cryptography and the deadline are a denial at any time.

**DnssecDenial.** Every small zone, every subset of its NSEC or NSEC3 records and every question. The
validator is an operator, held against what the zone's content says. A name is the sequence of its labels
below the apex, in the canonical order; hashed names are in the order that `Hash` gives them.

**Resolution.** The upstreams say what they like. An address is represented by the time at which the records
that lead to it lapse, and of a record observed twice the earlier time counts; limits, prohibited records and
the deadline are `Refuse`. A reply carries records of
the owner asked for, or of a DNAME above it.

**Membership.** A lookup draws its evidence; no time passes between its end and the callbacks that see it.

**DnsService.** Tasks are collected in any order and may time out at any time.

**StatusAcquisition.** Issuers publish numbered CRLs while they are fetched, and a replica may serve an
older one that is fresh. Who signed a list and which list a certificate points at are taken as checked.

**CertificateMirror.** Composition has no await, so one connection composes at a time. One origin
certificate; serials are drawn in sequence. A quota, an unrepresentable defect and a failed validation are
`Refuse`.

**BrowserSession.** One login and one session of the provider. An access token is its expiry, a refresh token
its number. The provider has one of two policies, drawn at the start: a refresh token is spent by its use, or
stays good with the session. An attempt that fails, because the provider refuses, cannot be reached or its
answer is lost, is made once more with what is stored by then; an answer without a token that verifies ends the
rotation at once (`Unusable`), as in the code.

## 3. Runs

All passing runs are exhaustive over their instance. "States" are distinct states.

| run | question | states |
|---|---|---|
| `mcp` | Is a call decided once, with matching controls, and does it return? | 0.21 M |
| `ipc` | Is the sandbox quiet after a shutdown-ack, is a result sent before it, are shutdowns answered? | 0.40 M |
| `ipc_bypass` | "A failed result publication cannot be bypassed by shutdown-ack" | refuted |
| `guest_abort` | "Abort/timeout reaps that tree" | refuted |
| `sandbox_pods` | The parts of a sandbox: the execution path, the guest, policy delivery, identities, HTTP/2, flows | 3.1 M |
| `egress_answers` | What the egress Pod answers from: trust, denial, resolution, membership, DNS service, status, mirror | 3.3 M |
| `ads_sessions` | A session in ads, the turns it shares with the engine, the login of the browser | 3.7 M |
| `chat_ends` | Does a turn end and its session become free, across crashes and restarts? | 0.16 M |
| `lifecycle` | Is a workspace kept, a ready session whole, a disk accounted for, and does a session settle? | 0.50 M |
| `pairs` | Is a retired generation quiet, does a teardown leave what it must, does the disk have one tenant? | 0.50 M |
| `pairs_settled` | "The same positive evidence pair_writers_settled accepts" | refuted |
| `dns_anchors` | A closer trust anchor is never bypassed | refuted |

`sandbox_pods`, `egress_answers` and `ads_sessions` each check several components in one run. The variable
`part` names the one that moves in a behaviour; the variables of the others keep a constant from the start. So the
states are the sum of those of the parts, not their product, and a property speaks of its own part. The
proofs use the same modules: a theorem about `AnySpec` is one about each part.

| run | part | instance | states |
|---|---|---|---|
| `sandbox_pods` | `exec` | 1 execution, 1 pod, T=1, clock to 3, 1 restart of the sandbox, duplicated ack-replies | 0.41 M |
| | `guest` | 2 executions, 3 PIDs, 2 pods, 1 crash | 0.45 M |
| | `delivery`, `overlap` | 2 processes; 2 revisions with faults, or 1 with two health checks at once | 0.13 M |
| | `identity` | 1 query in flight, 2 upstream keys, 2 generations, clock to 3 | 0.38 M |
| | `http2`, `flows` | 2 streams, window 1; 2 flows for 1 slot, 2 requests each | 1.8 M |
| `egress_answers` | `trust` | 2 zone cuts below the root, 2 anchors, RRsets signed by 2 of the 3 zones, an honest upstream or not | 1.3 M |
| | `denial` | every zone of 6 names with the types of interest, 10 questions, NSEC and NSEC3 | 4 k |
| | `resolution` | 2 names, TTLs 1 and 2, 2 upstreams, 3 exchanges, 2 endpoints, 1 alias, 2 half seconds | 0.12 M |
| | `membership` | 2 keys, 3 requests, clock to 3 | 0.39 M |
| | `service` | 1 datagram, 2 connections of 2 queries, 2 frames | 0.72 M |
| | `status` | a leaf with OCSP, partitioned CRLs and deltas below an intermediate; 3 numbers, 6 fetches | 0.16 M |
| | `mirror`, `restart` | 3 serials without a crash; 2 with one | 0.58 M |
| `ads_sessions` | `ads` | 2 messages, orders 0..2, tombstones at 1 and 2 | 2.3 M |
| | `chat` | 2 messages, one delta each, lost and reordered records | 0.67 M |
| | `browser` | 2 requests, either policy, tokens of 2 ticks, 2 faults, clock to 3 | 0.80 M |

### Why the bounds are enough

* `mcp`: a row concerns one execution, and rows do not interact: one is enough. Two pods are, because the
  owner of the waiter and *another* pod are all that the code tells apart. T=3 leaves room for an
  acknowledgement before, at and after the deadline; 8 ticks pass `2 T`, beyond which the collector deletes.
* `ipc`: three executions (one too large), two shutdowns, failing publications, one restart. There is one slot
  and one current unit, so the cases are the current one, the one in the slot, and a third that overwrites it.
* `exec`: one execution shows every order of request, ack, reset, abort, result and loss. Failing
  publications of the sandbox are left to `ipc` (`Failures` is `FALSE` here); the proof allows them.
* `guest`: a tree that survives and the next one, with three numbers, so that a number is used again.
* `delivery`: the process that answered and its successor.
* `flows`: `MaxFlows` = 1 puts the second flow at the limit; a flow's second request meets what the first left
  of its upstream. That one flow's end lets the other in is where a slot could be lost or given back twice.
* `browser`: two requests that overlap in every way, and two faults, so that the second failure of one request and
  the failures of two are both there; the clock takes a token from good through the skew to expired.
* `trust`: two cuts give a zone, its child and its grandchild, hence a closer anchor between two;
  two signers of an RRset are one that counts and one that is passed over.
* `resolution`: three exchanges are a name, what it leads to and an address; `MaxAliases` = 1 puts the limit
  within reach. Deeper walks are the business of the proof.
* `ads`, `chat`: two messages are needed for a turn after another. In `ads` orders 0..2 give a gap of one, of
  two and a delta after a gap; `chat` asks how the two sides interleave and needs one delta. `chat` has
  neither crash nor restart, `chat_ends` has both with one message.
* `lifecycle`: one fault of the builder, one of recovery, one resume, two troubles of the cluster. Each fault
  draws a new sandbox id, so there is one whose predecessor may still be landing creates.
* `pairs`: three generations, two failures, one idle shutdown: a claim, the one that recovers from it or
  resumes, and the one after that, which meets what the first left.

Bounds that cap counters are guards of the actions that count: `MaxTime`, `MemberTime`, `IdentityTime` (clocks),
`MaxGen`, `MaxRestarts`, `MaxCrashes`, `MaxPods`, `MaxRev`, `MaxInst`, `MaxOrder`, `MaxFaults`,
`MaxRescueFaults`, `MaxResumes`, `MaxTrouble`, `MaxTurns`, `ChatOrder`, `MaxSeq`, `MaxAsked`, `MaxNumber`,
`MaxSerial`, `MaxFrames`, `MaxData`, `MaxRequests`. Limits of the program itself are `MaxSubqueries`, `MaxEndpoints`,
`MaxAliases`, `Deadline`, `Cap`, `Maximum`, `MaxAccepted`, `MaxExecuting`, `MaxConnections`, `MaxOutstanding`,
`MaxEntries`, `MaxFlows`, `Window`, `MaxFetches`, `MaxSigners`: small values of the code's
settings. A run that may reach a bound, or simply has no work left, stops, so deadlock is checked only in `mcp`,
where the system has no end. `SYMMETRY` is used in `ads_sessions` only, which has no temporal property.

### The properties

| property | what would go wrong |
|---|---|
| `ResultExcludesControls` | the engine gets a result while an abort or a reset for the same command is on the topic |
| `TimeoutCannotCrossReply` | the timeout returns while another pod's transaction is releasing the command |
| `CollectorSparesOpenDeadlines` | the collector's horizon undercuts an extended deadline |
| `RowNeverRevives` | a late acknowledgement restores a row that the timeout had decided |
| `EveryCallEnds` | a lost publication, connection or waiter leaves the HTTP call hanging |
| `QuietAfterShutdownAck`, `ResultBeforeShutdownAck`, `ShutdownAcknowledged`, `SlotNeverRuns` | the manager deletes a sandbox that still answers, loses a result, waits for ever, or a duplicate runs again |
| `StartsOnce` | a repeated message starts a command twice; a command starts unreleased; a result is reported for a command the guest never had |
| `GivenUpNeverStarts` | the engine is told a command never ran, and it then runs |
| `TreesAccounted` | a stale PID kills a daemon; two commands share a guest; a tree is forgotten |
| `EvidenceIsTrue`, `RevisionsNeverRegress` | a sandbox opens on a policy that its egress process does not have, or a replaced process stays without one; an older policy comes back |
| `IdentitiesDurable` | a guest holds a configuration or a signature whose key was deleted; a crash leaves a store that does not open |
| `ExchangesHold`, `DrainHolds` | a DATA frame is credited twice or never, a response reaches another stream; a request passes after the drain |
| `FlowsContained` | a flow cut off at some await leaves a socket, a session or a lookup that no owner on its stack releases; a slot is lost or exceeded; a stop ends before its flows |
| `TrustEarned`, `DenialIsSound` | an answer is called secure over a broken chain; genuine records "prove" that an existing name does not exist |
| `ResolutionIsSound` | evidence outlives a record that led to it; a client keeps a record longer than allowed; a loop of names never ends |
| `MembershipIsCurrent` | a request passes on evidence of another key or of the past; lookups shared, cancelled and overtaken leak |
| `ServiceIsSound` | a counter of the DNS service drifts, a query is lost on a sound connection, a closed service holds something |
| `StatusIsTrue` | an older list or a delta masks a revocation; a certificate is called revoked that nobody revoked |
| `ShownStands` | a revoked certificate that the guest saw is dropped from the CRL; a CRL number is used again |
| `TranscriptSound`, `FinishedIsComplete` | the transcript loses, repeats or mixes deltas; a finished turn has a gap |
| `TurnsAgree` | ads finishes what the engine did not send; the model runs for a run ads refused; an abort hits the next run |
| `RotationIsSafe` | one failed refresh loses the login; rotations that did not overlap refuse each other, or an older refresh token replaces the newest; a request is bound with a token that had lapsed |
| `SessionFreed`, `TurnEnds` | a session is blocked for good |
| `DiskAccounted`, `ReadyIsWhole`, `WorkspaceKept`, `SessionSettles` | a leftover runs beside a resumed sandbox or a disk leaks; a stale executor breaks a ready one; user data is deleted; a session hangs |
| `RetiredIsQuiet`, `TeardownLeavesRight`, `OneTenant` | an object appears that no work names any more; an idle session loses its egress state or collides with its next generation; two generations mount one disk |
| `RecoveryEnds`, `IdleEnds` | a recovery with complete evidence, or a shutdown whose writes are settled, never ends |

Each has a mutant in the modules, a definition named for the bug it would be (`ClaimableAnyway`,
`ForgetLater`, `TakenByLate`, ...), under which TLC finds the property violated.

`OneTenant` is a refinement: `DiskTenancy!Spec` under a mapping of the state of `PairLifetime`.

## 4. Fairness

Liveness assumes only what the code's scheduling gives, and never that a message arrives.

* `McpExec`: time passes; a coroutine that can proceed does; the watchdog of `execute` polls; the
  cancel path is a `finally`. Nothing is assumed of acknowledgements, results or other pods.
* `IpcService`: timers fire, the guest command ends (it has a timeout) and the shutdown handler proceeds.
* `ChatTurn`: the watchdog ticks, which needs strong fairness because a restart of ads empties its list in
  between; engine tasks run. Every record may be lost.
* `SessionLifecycle`: builders, executors and recovery poll; the cluster performs what it was asked to; the
  lifecycle consumer resumes from committed offsets, hence admits what is published. Works are taken by
  deadline and an orphan's is put off at each pass, so some orphan's pass is always made,
  `WF_vars(\E g \in Gens : OrphanPass(g))`; and the scan that keeps meeting leftovers admits one in the end,
  `SF_vars(\E g \in Gens : g # row.gen /\ Sight(g))`: strong, because the sighting is possible only between
  two other passes. No request, idle period, reap or fault is forced.
* `PairLifetime`: the builder goes on, also to its failure when it is stuck; the API server performs or
  refuses every call at last, also one whose caller gave up; volumes attach and detach; workers poll their
  works, and the registry rebuilds lost ones (`Reconcile`). Loss of works, crashes and timeouts are never
  forced. `RecoveryEnds` has the premise `Provable`: the evidence that the code demands before it recovers can
  still be produced. Section 6 says when it cannot.

`SessionLifecycle` has one assumption about time, `LongQuiet`: a session becomes idle or is reaped after so
long that no inventory read before is still waiting for admission. The code's settings justify it
(`CONTROL_SECONDS` bounds the admission, `IDLE_SECONDS` and `DETACHED_SECONDS` the quiet) and its locks do
not; section 6 says what happens without it.

## 5. Proofs

For every value of the constants, the bounds among them: any clock bound, any number of pods, messages,
generations, serials or restarts. `Spec` in each theorem is the specification *without* fairness.

**McpExecProofs.** `TypeCorrect`, `ResultExcludesControlsHolds`, `TimeoutCannotCrossReplyHolds`,
`HandshakeOrder`, `CollectorSafe`, `RowNeverRevivesHolds`. Assumes `T > 0` and at least one pod. The
invariant ties every lock to the state of the row it protects: what an open transaction knows of its row
(`TxInv`), what the row says of the handshake (`RowInv`), what a holder of the waiter's lock and a completed
future imply (`WaiterInv`), what is on the topic (`LogInv`), and that an execution that has not begun left no
trace (`IdleInv`). None of the properties is inductive without it: that a result excludes an abort rests on
the row being absent from the moment the result takes the waiter's lock, and that on the row never reviving.

**IpcServiceProofs.** `TypeCorrect`, `QuietAfterAck`, `ResultFirst`, `NoRestartOfSlot`. Assumes
`IpcAssumption`. The latch of a shutdown closes the door to requests and pings before it queues
(`LatchInv`, `SilencedInv`), the execution that runs is that of the unit (`UnitInv`), and what is delivered
was published and nothing is acknowledged beside a unit or an undelivered result (`OwedInv`).

**AdsSessionsProofs.** `FinishedIsCompleteHolds`, `FinishedRowStays`, `OneRunInFlight`,
`TranscriptStaysSound`, `OneRunPerRow`, `AbortHitsOwnRunHolds`, `NoOrderTwiceHolds`, `TurnsAgreeHolds`,
`RotationStaysSafe`; one inductive invariant for each part.

* A run alone needs only the shape of the table and `FinishedIsComplete` itself. That at most one run is in
  flight follows because only a send brings a run into flight (`NoOutputStarts`), and its claim looks at all of
  the session's runs.
* `ChainInv` is for the transcript. The text on the chain is cut into blocks, one for each run that began, in
  the order in which they began; a block is its request, its deltas by order and its mark at the end. The
  invariant says at each position of the chain whose it is (`TranscriptInOrder`, `TurnsDoNotMix`), that what was
  committed is on it, and that one run is in flight. What an output appends is what the buffer holds from the
  next order up to the end of the continuous prefix; where that ends is the least order that is missing
  (`PrefixEnds`), so no induction over the buffer is needed.
* `RowInv` is for the engine alone, whatever records reach it: the `active_sessions` row names exactly the run
  under way (`RowMatchesRun`), and the task in `_runs` is one that has not begun to release.
* `ChatInv` is for turns. It follows a message through the states of both sides (`BeforeModel`, `DuringModel`,
  `AfterModel`): the model runs once for a message because it is started by the one ack-response (`AckOnce`), so
  the orders it publishes are those ads has seen and those still on the topic (`PrefixHeld`), and the order the
  finish announces is the last (`LastAnnounced`).
* `BrowserInv` is for the rotation. A request that has not begun knows nothing (`BeforeLogin`), a token that is
  bound, or about to be, was good when its request came (`WasGood`), and each attempt that failed at a live
  provider whose tokens stay good has used a fault (`Tried`): a request gives up after two, so one fault alone
  costs nothing. `ClashInv` is for the provider whose tokens are spent: whoever holds a stored token that is no
  longer the newest met the rotation that spent it (`HolderIsAhead` says who has the newest in its hand until it
  is stored).

`ChatAssumption` and `TokenAssumption` say that the constants are numbers of the kind the code has.
`AckResponseAppearsOnce` restricts the environment of `TurnsAgreeHolds` as `RequestsAppearOnce` does below;
section 6 says what happens otherwise. `RotationStaysSafe` assumes nothing of the provider's policy.

**PairLifetimeProofs.** `PairsTyped`, `RetiredStaysQuiet`, `TeardownsLeaveRight`, and the refinement
`StorageHasOneTenant`. Assumes that the bound on claims is a number. The invariant `IInv` is a conjunction of

* `ClaimsInOrder`, `SandboxesInOrder`: generations are claimed in sequence, and those of one disk are
  consecutive;
* `LedgerSound`, `CallsSound`: a create call that may still be performed is one that the ledger holds open,
  hence of a generation that is not retired;
* `WorksSound`: what a work has captured and sealed it still finds: this is where the order capture, seal,
  delete, retire of the code is used;
* `ObjectsSound`, `StorageStands`, `OneDisk`: which objects a retired, a resting and a live generation have,
  and that one lifetime of the disk exists at a time.

The properties are not inductive alone: that nothing lands after a retirement rests on the seal having seen
every write settled, which rests on the ledger being ahead of the calls. The refinement goes step by step:
a claim enters, a Pod's creation and deletion run and stop, a retirement leaves and a reap's disposal
condemns; the initial state maps to the initial state, and all other steps leave the abstract state alone,
because a generation is live or retired and only those steps change that.

**SessionLifecycleProofs.** `WorkspaceStaysKept`, `ReadySessionIsWhole`, `DisksAreAccounted`,
`RowAndRecordAgree`, `LifecycleTypes`. For any number of failures, resumes and troubles of the cluster. `IInv` says

* `RowAgrees`: the row of the session and that of its disk, two state machines in two tables, go together;
* `WithinBounds`: each sandbox id was paid for by a failure or a resume, so the ids of the model never run out;
* `BuildersSound`, `LandingSound`, `WorksSound`, `ExecsSound`, `RescueSound`, `SightingSound`: which sandbox
  id and which disk a builder, a create that may still land, a work, the executor that took it, a
  recovery and an inventory read before may still name, and that what each was told of them is still true;
* `DeploymentsSound`, `DisksSound`: where a Deployment may be, that no two tenants share a disk, that
  nothing runs of a session at rest, and what a builder has made so far is what it recorded.

None of the three properties stands without these: that a disk is not deleted rests on what *stale* executors
carry, since the one whose work was superseded still acts on what it read. It rests on `LongQuiet`,
the guard of an idle shutdown and of a reap that section 4 explains.

**Http2ProxyProofs.** The lemmas that `ExchangesStaySound` and `DrainsTakeNothing` of the next module rest on, for
any finite number of streams and messages of any length. `Http2Inv` says what a drain has closed.
`ExchangesInv` says

* `IdsAreOwn`, `RoutesAreOwn`: an origin stream has one exchange for good, and the routing table names that
  one exactly while it is open;
* `ResponseKept`: what the guest has read, the DATA in the pump's hand and what is queued are together, in
  this order, all that the origin sent on that stream (`Whole`); after a cancellation what was read is a beginning
  of it (`Begins`);
* `HeadsFirst`, `SocketsWait`: a head comes first, and a WebSocket uploads only after its own;
* `Balanced`: each leg's uncredited frames are those queued and those in a hand, counted by cardinalities,
  which the lemmas about `Frames` move one frame or one discarded queue at a time;
* `EndedIsEmpty`, `EndsWhole`: an exchange that ended or is being cancelled has nothing queued, and nothing is open
  after a graceful end or a close.

That a response which the guest reads to its end is whole, and its own, needs all of it: the pump reads the end of
the *queue*, and only `ResponseKept` says that this is the end of what was sent to that stream and to no other.

**SandboxPodsProofs.** `ExecutionsStartOnce`, `GivenUpStaysGivenUp`, `GuestTreesAccounted`,
`EvidenceStands`, `RevisionsOnlyGrow`, `ExchangesStaySound`, `DrainsTakeNothing`, `FlowsReleaseAll`,
`IdentitiesStayDurable`. `AnyInv` holds one inductive
invariant for each part:

* `ExecInv` spans three components and the topics. Its core is that a request is one: the door publishes it
  once, so it is on the topic, in a task of the transit, with the sandbox, or gone (`RequestIsOne`); a unit and
  the slot keep it from starting again (`UnitHolds`); and what runs was released by a committed row, whose
  acknowledgement is on the log (`ReleasesAreLogged`).
* `GuestInv`: the coroutine, the PID file and the store between them name every tree that is alive, and a number
  in the store is a session's in this pod's namespace (`CoroutineHolds`, `FileNamesTheTree`,
  `NumbersAreSessions`).
* `DeliveryInv`: the record of what was sent is in order, an answer in hand is of the process it was asked of,
  and whoever holds the lock is going to serve the process observed (`RecordInOrder`, `AnswerIsTrue`,
  `HolderServes`).
* `IdentityInv`: a journal has one newest record (`OneOfEach`), what it names is held (`HeadsHold`), and every
  key a live answer depends on is held and, an ECH key, in the newest configuration (`AnswersBacked`). A
  transaction that drops a key (`TaskSound`) has found no live answer that needs it, and a candidate answer that
  still does will be denied (`JobsSound`). A crash is harmless because all of this is said of what is stored;
  what the process holds in memory only follows it (`ContextIsHead`, `DownIsIdle`).
* `Http2Inv`, `ExchangesInv`: as above.
* `FlowsInv`: whatever a flow has open, the owner that releases it is still to be passed (`Owned`); that the
  owners' releases together leave nothing is not inductive without it, since no single release is complete. A
  task that stands anywhere has a slot (`FlowsOwned`), slots are never more than there are (`SlotsHold`), and
  when tasks are cancelled no guest's socket is open (`GuestsAreGone`), so one cancelled before its first step
  has nothing to release.

`StreamsAssumption`, `DeliveryAssumption`, `GuestAssumption`, `ExecAssumption`, `FlowsAssumption` and
`IdentityAssumption` say of the constants that they are numbers and sets of the kind the code has (PID 0 is no
process, there is a pod, an identity, an ECH key, time for a lifetime; streams are finite, and 1 is the one an
upgrade uses). `RequestsAppearOnce` restricts the environment: a producer may append any record twice except a
request. The code does not enforce it, and without it `StartsOnce` is false; see section 6.

**EgressAnswersProofs.** `ResolutionHolds`, `EvidenceLetsThrough`, `ServiceCounts`, `StatusStaysTrue`,
`ShownStaysTrue`, `TrustStaysEarned`, `DenialStaysSound`. One inductive invariant for each part:

* `TrustInv`: every zone of the two tables was judged rightly (`VerdictSound`), which for an honest upstream
  includes that it was left open only where the truth is out of reach. What has to be carried along is what
  a zone on the stack has established so far (`FrameSound`): its parents lie at or below its closest anchor, one
  that was passed over as insecure is so, and an honest one that has run out of parents is out of reach.
  The same holds of the signers of an RRset (`SignedSound`) and of the zone looked for when it has none
  (`LookingSound`). `Judged` says of every owner whether it remains or was judged, and `OutcomeSound` what the
  conjunction then says.
* `ResolutionInv`: every call on the stack lapses no later than what bounds it and everything it has found
  (`CallSound`), also while a service's addresses are looked up (`ServiceCallSound`), and a record still to be
  followed lapses no earlier than the call (`LeftSound`). Every call has a depth of its own except an
  address lookup, which starts at that of its service (`PlaceSound`): this bounds the stack by
  `MaxAliases + 3`, which no single step shows.
* `MemberInv`: a lookup in flight is for its own key and began when its followers say; what is kept is
  fresh until its time (`LookupSound`, `KeptSound`, `RequestSound`).
* `ServiceInv`: each counter is the cardinality of the set it counts (`CapacitySound`), so the proof needs
  lemmas about how a cardinality moves with one element (`OneMoves`); and the answers owed to a connection
  are its pending queries (`ConnSound`, `AnswerSound`).
* `StatusInv`: a depth that was concluded without a revocation was clean in the newest list of each reason.
  The code compares bases with deltas; that this finds the newest rests on `StandingOf` and `LatestExists`.
* `DenialInv` only says that what is shown are records of a lawful zone; the argument is about names. A finite set of
  names has a first and a last one in either order (`FirstExists`, `LastExists`), so nothing of the zone lies
  between a record's owner and the next (`FollowingIs`), a name that a record spans has none of its own
  (`SpanIsGap`), and every other name is spanned by some record (`GapIsSpanned`). What the code takes for
  the closest encloser exists and hides nothing below it (`EncloserIs`, `EncloserOpen`), so when the next closer
  name is denied it is the true one (`ClosestIs`), or what it leaves out is unsigned (`SpanLeavesOut`). The converse,
  that a zone which shows all its records is believed, rests on `GapIsSpanned`.
* `MirrorInv(m, k)`: for any number `m` of serials and `k` of crashes. What the authority's head lists, and
  its number, are at least what any guest was shown (`ShownSound`, `ServedSound`).

The assumptions are that limits are numbers and sets finite (`ResolutionAssumption`, `MembershipAssumption`,
`ServiceAssumption`), that the two marks of a CRL entry are no reasons (`StatusAssumption`), that the name asked
for lies below the root (`TrustAssumption`) and `MirrorAssumption`: of the mirror's own CRLs health refreshes
only the signer's, as the code does. `DenialAssumption` says that names are sequences of labels closed under
their parents, that nothing lives below a wildcard, which holds no NS, that an SOA is at the apex and nowhere
else, that no delegation holds a DNAME, and that names have hashes of which no two are equal. A greatest or
least element of a set of numbers, which the models take with `CHOOSE`, exists by well-founded induction on the
naturals (`LeastExists`, `GreatestExists`).

### What is only model-checked

* The liveness properties (`EveryCallEnds`, `ShutdownAcknowledged`, `SessionFreed`, `TurnEnds`,
  `SessionSettles`, `RecoveryEnds`, `IdleEnds`): fairness and `ENABLED` are out of reach of the provers used.

## 6. What the code was found to do

Four sentences of the repository do not hold of the code, and a run shows each.

* `ipc_bypass`. `services/ads-sandbox-ipc/README.md:42`: "A failed result publication cannot be bypassed by
  shutdown-ack." The one terminal slot is overwritten when another request is dropped, too large or
  unacknowledged (`service.py:129`): the undelivered result is forgotten, and a later shutdown is acknowledged.
  What does hold is `ResultBeforeShutdownAck`: the result *in the slot* is published first.
* `guest_abort`. The same file, line 37: "Abort/timeout reaps that tree only". An abort that finds no PID file
  yet (`guest.py:159`) kills nothing, and the executor reports the unit as ended while the script is still
  starting. The history variable `escaped` keeps the exception, and `TreesAccounted` is stated for trees that
  did not escape.
* `pairs_settled`. `lifecycle_store.py:223-225`: "A late original writer settling between capture and seal is
  the same positive evidence pair_writers_settled accepts (inflight -> settled with its captured UID intact);
  nothing else may differ." When the builder's deadline passed after a write settled and before `bind`, the
  retained ledger holds no uid while the capture recorded the one it saw. The UID is captured and intact, and
  `pair_writers_settled` accepts the pair, but the merge takes the ledger's uid instead of the captured one, and
  `seal_pair_cleanup` raises `PairClaimLost` at every attempt. This is what `Provable`, the premise of
  `RecoveryEnds`, leaves out.
* `dns_anchors`. `docs/slice-20-runtime-acceptance.md:460`: "Most-specific configured upstream anchors cannot be
  bypassed by an ancestor signature or an insecure-parent hint." A negative answer is judged by the zone of its
  SOA record, of which the code asks only that the name lies under it (`dnssec_answer.py:481`). An unsigned zone
  above the closest anchor of the name passes as insecure. `TrustEarned` is stated without such answers
  (`SoaAboveAnchor`), and without zones below an unsigned delegation, whose own delegations the code cannot
  prove (`OutOfReach`), as the same document says.

What follows was met while modelling. Much of it needs timing that intervals make unlikely, or a policy of
the other side; each is a hazard, an assumption of a theorem, or outside what a property says.

*Execution path.* The sandbox remembers one finished execution. A *request* record appended twice (the
producers are not idempotent, so a retry may do it), a restart of the IPC process, and a repeated ack-reply
together start a command twice.

*Chat turns.* When a request and the ack-response to it are both appended twice, the engine takes the request
again after its run has ended, and runs the model again on the second ack-response: the orders of
the message are used twice, and ads may finish a turn that neither run sent. `TurnsAgree` holds with either alone.

*Paired resources.* A resume whose claim commits but whose builder dies before `begin` leaves a recover work
without a snapshot, on which `_finish_paired` fails for ever. An idle work that the registry rebuilds
(`pair_registry.py:381`) targets the egress key, state and volume that the original would have kept. Evidence
that the ready scan writes into the workspace entry of a resumed generation makes every later transfer
fail to verify. `reconcile` passes over retired generations that retain something. `pair_lookup` reads the
relay Pod by name without comparing its uid.

*Session lifecycle.* Without `LongQuiet`, an inventory read before a reap and admitted after it makes a
service work whose disk is gone without release evidence (`lifecycle.py:102`); it never completes, nor does a
recovery that takes over its targets. A work for an orphan whose disk is gone and whose release is not
evidenced stays open, and `_orphan` in `lifecycle_store.py` accepts no second work for the same sandbox id.
A ping of the engine names a session and no message (`engine_output_service.py:169`), so pings of a run that
ads has given up keep the session's next run from being overdue.

*Egress identities.* Each query with DO stores a publication that is kept, until the quota denies all DNSSEC
answers. A crash between ECH `collect` and `retire` leaves a retiring key that nothing retires. A wall clock
that steps back denies DO answers. Of two answers of one zone at once the second is denied after its
publication was committed. A crash during the first initialisation leaves a state that never opens.

*Certificates.* Each mirrored revoked leaf adds a serial to the CRL for good; at 10 000 entries
(`crl.py:152`) revoked origins can no longer be mirrored. Two delta endpoints that serve the same number are
"conflicting" (`crl_status.py:231`). Only the signer's CRL is refreshed by health, only the first OCSP
responder is asked.

*DNS.* On the DO path a TTL that is served may outlive that of the upstream (`resolution_answer.py:57`). A
sibling in AliasMode that fails sets the expiry to now (`resolution.py:317`). A TCP client that closes its
half cancels its outstanding queries (`dns_transport.py:302`). A wildcard denial accepts an NSEC that spans an
empty non-terminal, against the comment in `dnssec_denial.py:222`; `DenialIsSound` excludes it (`Overlooked`).

*HTTP.* `Connections._run.adopt` (`connections.py:178`) keeps returning a finished upstream, so the next
keep-alive request fails. In HTTP/2 an origin that closes after a complete response while the upload is
unfinished loses the response (`http2_proxy.py:391`); the one window of a connection lets a stalled stream block
the others. The `nft` table outlives the process, and a restart in the same kernel refuses to start.
`Interception.close` waits for the listener to be closed (`interception.py:292`) before it cancels the flows'
tasks; since Python 3.12.1 `wait_closed` returns when the last accepted socket is closed, so a guest that keeps
an exchange or a relay going keeps the process from stopping until it is killed. The DNS and CRL servers abort
their connections first. `EgressFlows` models the wait, and has no property that a stop completes.

*Browser sessions.* With a provider that revokes spent refresh tokens, the slower of two requests that overlap
may be refused twice before the faster one has stored the new token; if its access token has expired meanwhile,
it deletes the row whatever it holds by then (`session_binder.py:152`) and the browser has to log in again. No
document says otherwise. `OnlyRotationsClash` delimits this: nothing but an overlap leads to it. A request in
flight during a logout writes the row and the cookie again; a late response puts an older token into the cookie.

## 7. Not modelled

Within the components that are:

* `EgressDelivery.ApplyPing` is one step where the IPC service sends a ping and waits for the answer
  (`egress.py:130-133`). Until then the delivery knows no process, and a replaced one is met by the apply that
  follows.
* `EgressIdentity.Initialize` is one step for the transactions of the first start; a crash among them is in
  section 6.
* An executor of `SessionLifecycle` may lose its advisory lock (`LockLost`); the one recovery at work may not
  (`lifecycle.py:725-740`), so two recoveries of one session at once do not occur.

And these components as a whole:

* **ads-preferences**, **projects and pages**: mostly requests on one row at a time. The creation of a project
  with its compensation (`project_service.py`) is the exception: after an ambiguous commit the compensation
  could delete the settings of a visible project.
* **The engine's executor, MCP client and credentials**: the model and its tools are the environment of
  `EngineRun`: they emit deltas, end, or raise.
* **Durable admission** (`lifecycle_kafka.py`) with its rebalances, and the **barrier** of the manager:
  `SessionLifecycle` uses what they promise (an admitted signal is not lost; a snapshot is agreed).
* **Parsers and wire formats of the egress Pod**: DNS messages, TLS records, HTTP heads, certificates. Their
  verdicts are drawn when they are needed.
* **Context compactor and meter**: a stateless split of a history.
* **ads-egress-controlplane** keeps no state; **ads-sandbox-ca** runs once; golden images, images, charts and
  the shared libraries hold configuration, build steps or message types.

`PROJECT.json` gives the sources and the reason of each.

## 8. Plan

Every safety invariant and action property that a passing run checks is a theorem; the liveness properties
stay with TLC for the reasons in section 5.
