------------------------------ MODULE EgressFlows ------------------------------
(***************************************************************************)
(* The flows of a guest through its egress Pod: the start and the stop of  *)
(* the enforcement process, the admission of a redirected socket to one of *)
(* the slots, the TLS handshake that waits for the inspected origin, the   *)
(* HTTP/1 owner with its pipelined requests, and the way out.              *)
(*                                                                         *)
(* A flow is one task.  At every await it may be cancelled, fail, or run   *)
(* out of time; the exception then passes the owners that are on the task's *)
(* stack, and each releases what it took charge of itself: the connector,  *)
(* inspect_origin, TLSStream.accept, the protocol's owner, Connections._run *)
(* and at last the membership, whose lookups are waited for.  The slot is  *)
(* given back by a callback, after the task has ended.  HTTP/2 exchanges   *)
(* are module Http2Proxy; here their owner connects and ends.              *)
(***************************************************************************)
EXTENDS Integers, FiniteSets

CONSTANTS Flows, Maximum,  \* flows, and how many are admitted at once
          MaxRequests      \* bound on the requests of a flow

VARIABLES
    stage,      \* of the process
    fence,      \* the nftables table of the guest's kernel; it outlives the process
    accepting,  \* PolicyStore.accepting
    policy,     \* what the installed policy says: "none", "permit", "deny"
    slots,      \* Connections._tasks
    flow        \* where the task of each flow stands and what it holds open

vars == <<stage, fence, accepting, policy, slots, flow>>
process == <<stage, fence, accepting, policy>>

\* open: the guest's socket and TLS session, a socket that is connected and not yet
\* the flow's, the origin's socket and session, and a lookup of the membership.
\* tls: _run's front is a TLSStream; up: its upstream is set; leg: so is the proxy's.
\* within: who called the connector.
NoFlow == [pc |-> "none", open |-> {}, tls |-> FALSE, up |-> FALSE, leg |-> FALSE,
           within |-> "accept", alpn |-> "h1", upload |-> FALSE, next |-> 0]
Init ==
    /\ stage = "down" /\ fence = FALSE /\ accepting = TRUE /\ policy = "none"
    /\ slots = {} /\ flow = [c \in Flows |-> NoFlow]

-----------------------------------------------------------------------------
(***************************************************************************)
(* serve: the fence first, then the listener, then the health check; the   *)
(* stop in reverse.                                                        *)
(***************************************************************************)

\* KernelBoundary.establish: a table that is already there is refused, not repaired.
Establish ==
    /\ stage = "down" /\ ~fence
    /\ fence' = TRUE /\ stage' = "fence"
    /\ UNCHANGED <<accepting, policy, slots, flow>>
\* The boundary is checked again; from now on flows are admitted, under no policy yet.
Listen ==
    /\ stage = "fence" /\ fence
    /\ stage' = "listening"
    /\ UNCHANGED <<fence, accepting, policy, slots, flow>>
Healthy ==
    /\ stage = "listening" /\ stage' = "serving"
    /\ UNCHANGED <<fence, accepting, policy, slots, flow>>
\* PolicyStore.install, by the control service (module EgressDelivery).
Install ==
    /\ stage = "serving"
    /\ policy' \in {"permit", "deny"} \ {policy}
    /\ UNCHANGED <<stage, fence, accepting, slots, flow>>
\* policies.close: the server has ended, or the health check has failed.
StopAdmitting ==
    /\ stage \in {"listening", "serving"}
    /\ accepting' = FALSE /\ stage' = "refusing"
    /\ UNCHANGED <<fence, policy, slots, flow>>
\* Interception.close: the listener, and wait_closed returns when no socket that it
\* accepted is open any more.
CloseListener ==
    /\ stage = "refusing" /\ stage' = "closing"
    /\ UNCHANGED <<fence, accepting, policy, slots, flow>>
NoGuest == \A c \in Flows : "guest" \notin flow[c].open
\* Connections.close: only then are the tasks cancelled, and gathered.
CancelTasks ==
    /\ stage = "closing" /\ NoGuest
    /\ stage' = "cancelling"
    /\ UNCHANGED <<fence, accepting, policy, slots, flow>>
Gathered ==
    /\ stage = "cancelling" /\ \A c \in slots : flow[c].pc = "done"
    /\ slots' = {} /\ stage' = "stopped"
    /\ UNCHANGED <<fence, accepting, policy, flow>>

-----------------------------------------------------------------------------
(***************************************************************************)
(* Admission and classification.                                           *)
(***************************************************************************)

Set(c, f) == flow' = [flow EXCEPT ![c] = f] /\ UNCHANGED process
Step(c, pc, f) == flow[c].pc = pc /\ Set(c, f) /\ UNCHANGED slots
\* A step the task takes by itself: one that was cancelled takes no other.
Work(c, pc, f) == stage # "cancelling" /\ Step(c, pc, f)
Goto(c, pc) == [flow[c] EXCEPT !.pc = pc]

\* Interception._accept and Connections.accept: no slot is free, nothing is admitted any
\* more, or the destination is not the kernel's: the socket is reset.
Admitted == accepting /\ Cardinality(slots) < Maximum
Accept(c) ==
    /\ stage \in {"listening", "serving", "refusing", "closing"} /\ flow[c].pc = "none"
    /\ \/ Admitted /\ Set(c, [NoFlow EXCEPT !.pc = "start", !.open = {"guest"}]) /\ slots' = slots \cup {c}
       \/ Set(c, [NoFlow EXCEPT !.pc = "refused"]) /\ UNCHANGED slots
\* One deadline for the first bytes: a ClientHello, the HTTP/2 preface, or HTTP/1.
Classify(c) ==
    \/ Work(c, "start", Goto(c, "classify"))
    \/ Work(c, "classify", [flow[c] EXCEPT !.pc = "hello", !.open = @ \cup {"guestTls"}])
    \/ \E p \in {"h2", "head"} : Work(c, "classify", Goto(c, p))

-----------------------------------------------------------------------------
(***************************************************************************)
(* TLSStream.accept pauses at the ClientHello; prepare connects to the     *)
(* original address, and inspect_origin hands the stream over with the     *)
(* chain it observed, defects and all.                                     *)
(***************************************************************************)

Dials(f, who) == [f EXCEPT !.pc = "dial", !.within = who, !.open = @ \cup {"fresh"}]
Hello(c) == Work(c, "hello", Dials(flow[c], "accept"))
Inspect(c) ==
    /\ flow[c].within = "accept"
    /\ Work(c, "dial", [flow[c] EXCEPT !.pc = "inspect", !.open = @ \cup {"originTls"}])
\* The socket that was connected becomes the flow's upstream, without an await.
Taken(f) == [f EXCEPT !.open = (@ \ {"fresh"}) \cup {"origin"}, !.up = TRUE]
Inspected(c) ==
    \E p \in {"h1", "h2"} :
        Work(c, "inspect", [Taken(flow[c]) EXCEPT !.pc = "compose", !.alpn = p])
\* StatusAcquisition and CertificateStatusComposer, then TLSSession.resume.
Resume(c) == Work(c, "compose", Goto(c, "finish"))
\* The guest completes its half with the origin's protocol, which selects the owner.
Completes(c) ==
    Work(c, "finish", [flow[c] EXCEPT !.pc = IF flow[c].alpn = "h2" THEN "h2" ELSE "head", !.tls = TRUE])

-----------------------------------------------------------------------------
(***************************************************************************)
(* HTTP1Proxy.run.                                                         *)
(***************************************************************************)

Request(c) ==
    /\ flow[c].next < MaxRequests
    /\ Work(c, "head", [flow[c] EXCEPT !.pc = "ask", !.next = @ + 1])
\* The membership's lookups are tasks of its own: they outlive a request that gave up.
Lookup(c) ==
    \E p \in {"ask", "h2"} : Work(c, p, [flow[c] EXCEPT !.open = @ \cup {"lookup"}])
LookupEnds(c) ==
    /\ "lookup" \in flow[c].open
    /\ Set(c, [flow[c] EXCEPT !.open = @ \ {"lookup"}]) /\ UNCHANGED slots
\* RequestAuthorizer.authorize: under the policy of that moment, for each request.
Permits == accepting /\ policy = "permit"
Authorize(c) == Permits /\ Work(c, "ask", Goto(c, IF flow[c].leg THEN "write" ELSE "adopt"))
\* adopt: the flow's one upstream, open or not, or a new one for a flow without TLS.
Adopt(c) ==
    \/ flow[c].up /\ Work(c, "adopt", [flow[c] EXCEPT !.pc = "write", !.leg = TRUE])
    \/ ~flow[c].up /\ ~flow[c].tls /\ Work(c, "adopt", Dials(flow[c], "proxy"))
    \/ /\ flow[c].within = "proxy"
       /\ Work(c, "dial", [Taken(flow[c]) EXCEPT !.pc = "write", !.leg = TRUE])
\* The request's head is written to a socket that is open; another one fails the flow.
Write(c) ==
    "origin" \in flow[c].open /\ Work(c, "write", [flow[c] EXCEPT !.pc = "exchange", !.upload = TRUE])

Origin == {"origin", "originTls"}
Guest == {"guest", "guestTls"}
Finishing(f) == IF f.leg THEN "finishUp" ELSE "finishFront"
\* _exchange: the upload may end before the response, or the response before it.
UploadEnds(c) == flow[c].upload /\ Work(c, "exchange", [flow[c] EXCEPT !.upload = FALSE])
\* An early response was relayed whole: the origin's leg is reset, the guest's finished.
ResponseEarly(c) ==
    /\ flow[c].upload
    /\ Work(c, "exchange", [flow[c] EXCEPT !.pc = "finishFront", !.open = @ \ Origin, !.leg = FALSE])
\* The guest's leg must close after this response, or the guest has closed it.
Closes(c) ==
    \/ ~flow[c].upload /\ Work(c, "exchange", Goto(c, "finishUp"))
    \/ Work(c, "head", Goto(c, Finishing(flow[c])))
\* Both legs start another cycle on the same sockets.
ResponseReuses(c) == ~flow[c].upload /\ Work(c, "exchange", Goto(c, "head"))
\* The origin's leg cannot be used again: it is finished and the proxy lets it go.
\* _run's upstream still names it.
ResponseRetires(c) ==
    \/ ~flow[c].upload /\ Work(c, "exchange", Goto(c, "retire"))
    \/ Work(c, "retire", [flow[c] EXCEPT !.pc = "head", !.open = @ \ Origin, !.leg = FALSE])
\* 101: the WebSocket relay, or the HTTP/2 owner of an upgraded connection.
Switch(c) ==
    \/ ~flow[c].upload /\ \E p \in {"relay", "h2"} : Work(c, "exchange", Goto(c, p))
    \/ Work(c, "relay", Goto(c, "finishUp"))
\* A clean end finishes the origin's leg, then the guest's.
Finishes(c) ==
    \/ Work(c, "finishUp", [flow[c] EXCEPT !.pc = "finishFront", !.open = @ \ Origin])
    \/ Work(c, "finishFront", [flow[c] EXCEPT !.pc = "run", !.open = @ \ Guest])

\* HTTP2Proxy connects in the task of the first exchange that is permitted.
H2Connects(c) ==
    /\ ~flow[c].leg
    /\ \/ flow[c].up /\ Permits /\ Work(c, "h2", [flow[c] EXCEPT !.leg = TRUE])
       \/ /\ ~flow[c].up /\ ~flow[c].tls /\ Permits
          /\ Work(c, "h2", [flow[c] EXCEPT !.open = @ \cup {"fresh"}, !.within = "proxy"])
       \/ "fresh" \in flow[c].open /\ Work(c, "h2", [Taken(flow[c]) EXCEPT !.leg = TRUE])

\* A peer resets its connection: the socket is gone, whatever the task does.
Drops(c) ==
    \E s \in {"guest", "origin"} \cap flow[c].open :
        Set(c, [flow[c] EXCEPT !.open = @ \ {s}]) /\ UNCHANGED slots

-----------------------------------------------------------------------------
(***************************************************************************)
(* The way out.                                                            *)
(***************************************************************************)

\* The innermost owner on the stack of a task that fails at an await.
Handler(f) ==
    IF f.pc \in {"start", "classify"} THEN "run"
    ELSE IF f.pc = "inspect" THEN "inspector"
    ELSE IF "fresh" \in f.open THEN "connector"
    ELSE IF f.pc \in {"hello", "compose", "finish"} THEN "accept" ELSE "proxy"
Owners == {"connector", "inspector", "accept", "proxy", "run"}
Failing == {"classify", "hello", "dial", "inspect", "compose", "finish", "head", "ask", "adopt", "write",
            "exchange", "retire", "relay", "h2", "finishUp", "finishFront"}
\* Denied, failed, out of time, ended by its peer, or cancelled by Connections.close.
Fails(c) == \E p \in Failing : Step(c, p, Goto(c, Handler(flow[c])))
\* With the task its locals are gone; what it leaves open stays open.
Over(f) == [NoFlow EXCEPT !.pc = "done", !.open = f.open]
\* A task that is cancelled before its first step never enters _run, nor its finally.
CancelUnstarted(c) == stage = "cancelling" /\ Step(c, "start", Over(flow[c]))

\* Mutant: inspect_origin frees its session and leaves the socket to its caller.
SessionOnly == {"originTls"}
\* What each owner releases, and whom the exception passes next.
InspectorReleases == {"fresh", "originTls"}
Releases(f) ==
    IF f.pc = "connector" THEN {"fresh"}
    ELSE IF f.pc = "inspector" THEN InspectorReleases
    ELSE IF f.pc = "accept" THEN Guest
    ELSE IF f.pc = "proxy" THEN Guest \cup (IF f.leg THEN Origin ELSE {})
    ELSE {"guest"} \cup (IF f.tls THEN {"guestTls"} ELSE {}) \cup (IF f.up THEN Origin ELSE {})
Outer(f) ==
    IF f.pc = "connector" THEN f.within
    ELSE IF f.pc = "inspector" THEN "accept"
    ELSE IF f.pc = "run" THEN "leaving" ELSE "run"
Release(c) ==
    \E p \in Owners : Step(c, p, [flow[c] EXCEPT !.open = @ \ Releases(flow[c]), !.pc = Outer(flow[c])])
\* ConnectionMembership.close cancels the lookups and waits for them, cancelled or not.
Leave(c) == "lookup" \notin flow[c].open /\ Step(c, "leaving", Over(flow[c]))
\* The task's callback.
Completed(c) ==
    /\ flow[c].pc = "done" /\ c \in slots
    /\ slots' = slots \ {c}
    /\ UNCHANGED <<process, flow>>

FlowStep(c) ==
    \/ Accept(c) \/ Classify(c) \/ Hello(c) \/ Inspect(c) \/ Inspected(c) \/ Resume(c) \/ Completes(c)
    \/ Request(c) \/ Lookup(c) \/ LookupEnds(c) \/ Authorize(c) \/ Adopt(c) \/ Write(c) \/ UploadEnds(c)
    \/ ResponseEarly(c) \/ Closes(c) \/ ResponseReuses(c) \/ ResponseRetires(c) \/ Switch(c)
    \/ Finishes(c) \/ H2Connects(c) \/ Drops(c) \/ Fails(c) \/ CancelUnstarted(c) \/ Release(c)
    \/ Leave(c) \/ Completed(c)
Next ==
    \/ Establish \/ Listen \/ Healthy \/ Install \/ StopAdmitting \/ CloseListener \/ CancelTasks \/ Gathered
    \/ \E c \in Flows : FlowStep(c)
Spec == Init /\ [][Next]_vars

-----------------------------------------------------------------------------
\* What is open belongs to a task that has a slot, and a task that has ended holds
\* nothing, whichever owner it was cancelled under.
NothingLeaks ==
    \A c \in Flows :
        /\ flow[c].open # {} => c \in slots
        /\ flow[c].pc = "done" => flow[c].open = {}
\* So there are never more sockets of either kind than slots.
SlotsBounded == Cardinality(slots) <= Maximum
OneUpstream == \A c \in Flows : ~({"fresh", "origin"} \subseteq flow[c].open)
\* A stop that has ended has taken everything down.
StopIsWhole == stage = "stopped" => slots = {}
FlowsContained == NothingLeaks /\ SlotsBounded /\ OneUpstream /\ StopIsWhole

=============================================================================
