------------------------------ MODULE Http2Proxy ------------------------------
(***************************************************************************)
(* HTTP2Proxy: one HTTP/2 connection of the guest joined to one HTTP/2     *)
(* connection of the origin, each with stream numbers of its own.          *)
(*                                                                         *)
(* Everything runs on one event loop; an exchange owns a task, and inside  *)
(* it an upload and a response pump.  A cancelled task learns of it at its *)
(* next turn.  A DATA frame is one unit of the connection's receive window *)
(* and stands for its bytes; headers and ends take none.                   *)
(***************************************************************************)
EXTENDS Integers, Sequences, FiniteSets, SequencesExt

CONSTANTS Streams,    \* the guest's stream numbers
          Maximum,    \* streams accepted at once
          StreamKinds, \* kinds of request on each stream, "http" and "ws"
          Window,     \* receive window of a connection, in DATA frames
          MaxData     \* bound on the DATA frames of a message, per stream

ASSUME StreamsAssumption ==
    /\ Streams \subseteq Nat \ {0} /\ 1 \in Streams /\ IsFiniteSet(Streams)
    /\ \A s \in Streams : StreamKinds[s] \subseteq {"http", "ws"}

NoId == 0
Legs == {"front", "origin"}

VARIABLES
    ex,       \* exchange of each stream of the guest
    incoming, \* queue of events from the guest, per exchange
    outgoing, \* queue of events from the origin, per exchange
    held,     \* DATA received on a leg and not credited back
    routes,   \* origin stream number -> exchange, while it is mapped
    wire,     \* the requests the origin has seen, by its stream number
    link,     \* the origin's connection: "none", "up", "eof"
    drain, stop, graceful, closing, closed,
    guest,    \* what the guest has sent, and been sent, on each stream
    sent      \* what the origin has sent on each of its streams

queues == <<incoming, outgoing, held>>
shutdown == <<drain, stop, graceful, closing, closed>>
vars == <<ex, queues, routes, wire, link, shutdown, guest, sent>>

NewExchange(kind) ==
    [pc |-> "created", kind |-> kind, cancelled |-> FALSE, id |-> NoId, uploaded |-> FALSE,
     ended |-> FALSE, up |-> "none", down |-> "none"]
NoExchange == [NewExchange("http") EXCEPT !.pc = "none"]
NoGuest == [up |-> <<>>, down |-> <<>>, reset |-> FALSE]
Open(s) == ex[s].pc \notin {"none", "retired"}
Active == {s \in Streams : Open(s)}
Mapped(s) == ex[s].id # NoId

\* h2c: adopt_h2c takes stream 1 over with its upload complete.
Upgraded(s) == [NewExchange("h2c") EXCEPT !.id = 1, !.uploaded = TRUE]
Init ==
    /\ \E first \in {NoExchange, Upgraded(1)} :
        /\ ex = [s \in Streams |-> IF s = 1 THEN first ELSE NoExchange]
        /\ LET up == first # NoExchange IN
            /\ routes = IF up THEN {<<1, 1>>} ELSE {}
            /\ wire = IF up THEN <<1>> ELSE <<>>
            /\ sent = IF up THEN << <<>> >> ELSE <<>>
            /\ link = IF up THEN "up" ELSE "none"
            /\ guest = [s \in Streams |-> IF s = 1 /\ up THEN [NoGuest EXCEPT !.up = <<"end">>] ELSE NoGuest]
    /\ incoming = [s \in Streams |-> <<>>] /\ outgoing = [s \in Streams |-> <<>>]
    /\ held = [l \in Legs |-> 0]
    /\ drain = FALSE /\ stop = FALSE /\ graceful = FALSE /\ closing = FALSE /\ closed = FALSE

\* The DATA frames of a queue, and of the queues of several exchanges.
DataAt(queue) == {i \in DOMAIN queue : queue[i] = "data"}
Data(queue) == Cardinality(DataAt(queue))
Frames(queue, S) == UNION {{s} \X DataAt(queue[s]) : s \in S}
Queue(l) == IF l = "front" THEN incoming ELSE outgoing

-----------------------------------------------------------------------------
(***************************************************************************)
(* _cancel: both streams are reset, what is queued is credited back, and   *)
(* the task is told.  Several exchanges may be cancelled by one event.     *)
(***************************************************************************)

\* _Inbox.discard: the queue closes and its bytes return to the window.
DiscardedUncredited(S) == held
Discarded(S) == [l \in Legs |-> held[l] - Cardinality(Frames(Queue(l), S))]

Emptied(queue, S) == [s \in Streams |-> IF s \in S THEN <<>> ELSE queue[s]]
CancelExchanges(S) ==
    /\ ex' = [s \in Streams |-> IF s \in S THEN [ex[s] EXCEPT !.cancelled = TRUE] ELSE ex[s]]
    /\ guest' = [s \in Streams |-> IF s \in S THEN [guest[s] EXCEPT !.reset = TRUE] ELSE guest[s]]
    /\ incoming' = Emptied(incoming, S) /\ outgoing' = Emptied(outgoing, S)
    /\ held' = Discarded(S)

\* _drain: an exchange without a stream at the origin, or beyond the last one the
\* origin will serve, is cancelled; it is not replayed anywhere.
UndrainedMapped(last) == {s \in Active : Mapped(s) /\ ex[s].id > last}
Undrained(last) == {s \in Active : ~Mapped(s) \/ ex[s].id > last}
Drain(last) ==
    /\ drain' = TRUE
    /\ CancelExchanges(Undrained(last))
    /\ UNCHANGED <<stop, graceful, closing, closed>>

-----------------------------------------------------------------------------
(***************************************************************************)
(* _frontend_event and what the guest may send.                            *)
(***************************************************************************)

Reading == ~closing

Requested(s, kind) ==
    /\ Reading /\ ex[s].pc = "none" /\ ~guest[s].reset
    /\ \A t \in 1..(s - 1) : ex[t].pc # "none" \/ guest[t].reset
    /\ IF drain \/ Cardinality(Active) >= Maximum
       THEN guest' = [guest EXCEPT ![s].reset = TRUE] /\ ex' = ex
       ELSE ex' = [ex EXCEPT ![s] = NewExchange(kind)] /\ guest' = guest
    /\ UNCHANGED <<queues, routes, wire, link, shutdown, sent>>

\* An event of an exchange that ended, or whose inbox is closed, is credited at once.
GuestSends(s, event) ==
    /\ Reading /\ ex[s].pc # "none" /\ ~guest[s].reset
    /\ ~Contains(guest[s].up, "end")
    /\ event = "data" => Data(guest[s].up) < MaxData[s]
    /\ guest' = [guest EXCEPT ![s].up = Append(@, event)]
    /\ event = "data" => held["front"] < Window
    /\ IF ~Open(s) \/ ex[s].cancelled THEN UNCHANGED <<incoming, held>>
       ELSE /\ incoming' = [incoming EXCEPT ![s] = Append(@, event)]
            /\ held' = IF event = "data" THEN [held EXCEPT !["front"] = @ + 1] ELSE held
    /\ UNCHANGED <<ex, outgoing, routes, wire, link, shutdown, sent>>

GuestResets(s) ==
    /\ Reading /\ Open(s) /\ ~guest[s].reset
    /\ CancelExchanges({s})
    /\ UNCHANGED <<routes, wire, link, shutdown, sent>>

\* GOAWAY without an error, from the guest: every mapped exchange may finish.
GuestGoesAway ==
    /\ Reading /\ ~drain
    /\ Drain(Len(wire))
    /\ UNCHANGED <<routes, wire, link, sent>>

-----------------------------------------------------------------------------
(***************************************************************************)
(* _origin_event and what the origin may send on a stream it has seen.     *)
(***************************************************************************)

Live == link = "up" /\ Reading
RoutedByGuest(id) == {s \in Streams : s = id /\ Open(s)}
Routed(id) == {r[2] : r \in {p \in routes : p[1] = id}}

Lawful(id, event) ==
    /\ ~Contains(sent[id], "end")
    /\ (event \in {"head", "refused"}) = (sent[id] = <<>>)
    /\ event = "data" => Data(sent[id]) < MaxData[wire[id]]
OriginSends(id, event) ==
    /\ Live /\ Lawful(id, event) /\ ~\E s \in Streams : ex[s].id = id /\ ex[s].cancelled
    /\ event = "data" => held["origin"] < Window
    /\ sent' = [sent EXCEPT ![id] = Append(@, event)]
    /\ LET owner == {s \in Routed(id) : ~ex[s].cancelled} IN
        /\ outgoing' = [s \in Streams |-> IF s \in owner THEN Append(outgoing[s], event) ELSE outgoing[s]]
        /\ ex' = [s \in Streams |-> IF s \in owner /\ event = "end" THEN [ex[s] EXCEPT !.ended = TRUE] ELSE ex[s]]
        /\ held' = IF event = "data" /\ owner # {} THEN [held EXCEPT !["origin"] = @ + 1] ELSE held
    /\ UNCHANGED <<incoming, routes, wire, link, shutdown, guest>>

OriginResets(id) ==
    /\ Live /\ Routed(id) # {}
    /\ CancelExchanges(Routed(id))
    /\ UNCHANGED <<routes, wire, link, shutdown, sent>>

OriginGoesAway(last) ==
    /\ Live
    /\ Drain(last)
    /\ UNCHANGED <<routes, wire, link, sent>>

\* _origin_eof: a response that was read to its end remains usable.
OriginEof ==
    /\ Live
    /\ link' = "eof"
    /\ CancelExchanges({s \in Active : Mapped(s) /\ s \in {r[2] : r \in routes} /\ ~ex[s].ended})
    /\ UNCHANGED <<routes, wire, shutdown, sent>>

-----------------------------------------------------------------------------
(***************************************************************************)
(* _request.                                                               *)
(***************************************************************************)

Alive(s, pc) == ex[s].pc = pc /\ ~ex[s].cancelled

\* What the pumps hold is credited on their way out, and the queues are discarded.
Holds(s, l) == (IF l = "front" THEN ex[s].up ELSE ex[s].down) = "data"
InHand(s, l) == IF Holds(s, l) THEN 1 ELSE 0
Released(s) == [l \in Legs |-> Discarded({s})[l] - InHand(s, l)]

\* _retire and _completed_task, in the turn in which the exchange ends: streams that are
\* not complete are reset, and the last task of a drain ends the run gracefully.
Retire(s, complete) ==
    /\ ex' = [ex EXCEPT ![s] = [@ EXCEPT !.pc = "retired", !.up = "done", !.down = "done"]]
    /\ guest' = IF complete THEN guest ELSE [guest EXCEPT ![s].reset = TRUE]
    /\ incoming' = Emptied(incoming, {s}) /\ outgoing' = Emptied(outgoing, {s})
    /\ held' = Released(s)
    /\ routes' = {r \in routes : r[2] # s}
    /\ LET last == drain /\ Active = {s} /\ ~stop IN
        stop' = (stop \/ last) /\ graceful' = (graceful \/ last)
    /\ UNCHANGED <<wire, link, drain, closing, closed, sent>>
Denied(s) == Retire(s, FALSE)

\* The task's first turn; one that was cancelled before it returns at once.
Starts(s) ==
    /\ ex[s].pc = "created" /\ ~closing
    /\ IF ex[s].cancelled THEN Denied(s)
       ELSE /\ ex' = [ex EXCEPT ![s] = IF @.kind = "h2c" THEN [@ EXCEPT !.pc = "open", !.down = "take"]
                                       ELSE [@ EXCEPT !.pc = "asking"]]
            /\ UNCHANGED <<queues, routes, wire, link, shutdown, guest, sent>>

\* RequestAuthorizer.authorize, and _upstream, which one exchange connects for all.
Connects(s) ==
    /\ Alive(s, "asking") /\ link = "none"
    /\ link' = "up"
    /\ UNCHANGED <<ex, queues, routes, wire, shutdown, guest, sent>>
\* Denied, out of time, no connection, "http2_origin_unavailable", no extended CONNECT.
Refused(s) == Alive(s, "asking") /\ Denied(s)

\* The stream's number, its route and its headers come without an await.
Opens(s) ==
    /\ Alive(s, "asking") /\ link = "up"
    /\ LET id == Len(wire) + 1 IN
        /\ ex' = [ex EXCEPT ![s] = [@ EXCEPT !.pc = "open", !.id = id, !.down = "take",
                                   !.up = IF ex[s].kind = "ws" THEN "none" ELSE "take"]]
        /\ routes' = routes \cup {<<id, s>>}
        /\ wire' = Append(wire, s)
        /\ sent' = Append(sent, <<>>)
    /\ UNCHANGED <<queues, link, shutdown, guest>>

\* The upload pump.  It holds DATA while the origin's window is shut; an end that it
\* still has to write is discarded like one in the queue, and stays there.
UploadTakes(s) ==
    /\ Alive(s, "open") /\ ex[s].up = "take" /\ incoming[s] # <<>>
    /\ Head(incoming[s]) = "end" => link = "up"
    /\ ex' = [ex EXCEPT ![s] = IF Head(incoming[s]) = "data" THEN [@ EXCEPT !.up = "data"]
                               ELSE [@ EXCEPT !.up = "done", !.uploaded = TRUE]]
    /\ incoming' = [incoming EXCEPT ![s] = Tail(@)]
    /\ UNCHANGED <<outgoing, held, routes, wire, link, shutdown, guest, sent>>
UploadWrites(s) ==
    /\ Alive(s, "open") /\ ex[s].up = "data" /\ link = "up"
    /\ ex' = [ex EXCEPT ![s].up = "take"]
    /\ held' = [held EXCEPT !["front"] = @ - 1]
    /\ UNCHANGED <<incoming, outgoing, routes, wire, link, shutdown, guest, sent>>

\* A failed write, or nothing to take for the idle time, ends both pumps.
PumpFails(s) == Alive(s, "open") /\ Denied(s)

\* The end of a response ends an upload that is not complete, and so does a final
\* response ("refused") to a request that expected 100-continue first; a WebSocket's
\* directions end one by one; one that is refused keeps its response and uploads nothing.
Halts(s, event) ==
    \/ event = "end" /\ ~ex[s].uploaded /\ (ex[s].kind = "http" \/ ex[s].up = "none")
    \/ event = "refused" /\ ex[s].kind = "http" /\ ~ex[s].uploaded
AfterEvent(s, event) ==
    [ex[s] EXCEPT
        !.up = IF Halts(s, event) THEN "done" ELSE IF ex[s].kind = "ws" /\ event = "head" THEN "take" ELSE @,
        !.down = CASE event = "end" -> "done" [] event = "data" -> "data" [] OTHER -> "take"]

\* The response pump; DATA is in its hand while the guest's window is shut.
ResponseTakes(s) ==
    /\ Alive(s, "open") /\ ex[s].down = "take" /\ outgoing[s] # <<>>
    /\ LET event == Head(outgoing[s]) IN
        /\ ex' = [ex EXCEPT ![s] = AfterEvent(s, event)]
        /\ guest' = IF event = "data" THEN guest ELSE [guest EXCEPT ![s].down = Append(@, event)]
        /\ held' = IF Halts(s, event) THEN [held EXCEPT !["front"] = @ - InHand(s, "front")] ELSE held
    /\ outgoing' = [outgoing EXCEPT ![s] = Tail(@)]
    /\ UNCHANGED <<incoming, routes, wire, link, shutdown, sent>>
ResponseWrites(s) ==
    /\ Alive(s, "open") /\ ex[s].down = "data"
    /\ ex' = [ex EXCEPT ![s].down = "take"]
    /\ guest' = [guest EXCEPT ![s].down = Append(@, "data")]
    /\ held' = [held EXCEPT !["origin"] = @ - 1]
    /\ UNCHANGED <<incoming, outgoing, routes, wire, link, shutdown, sent>>

\* Both pumps have ended: the exchange is complete when all of the upload was taken.
Finishes(s) ==
    /\ Alive(s, "open") /\ ex[s].up \in {"done", "none"} /\ ex[s].down = "done"
    /\ Retire(s, ex[s].uploaded)

\* CancelledError reaches a task that has started, wherever it waits.
LearnsOfCancel(s) ==
    /\ ex[s].cancelled /\ ex[s].pc \in {"asking", "open"}
    /\ Denied(s)

-----------------------------------------------------------------------------
(***************************************************************************)
(* run.                                                                    *)
(***************************************************************************)

\* The drain's own flush is the last task when nothing else runs.
DrainsEmpty ==
    /\ drain /\ ~stop /\ Active = {}
    /\ stop' = TRUE /\ graceful' = TRUE
    /\ UNCHANGED <<ex, queues, routes, wire, link, drain, closing, closed, guest, sent>>
\* The chosen outcome is frozen before what is left is cancelled.
Closes ==
    /\ stop /\ ~closing
    /\ closing' = TRUE
    /\ CancelExchanges(Active)
    /\ UNCHANGED <<routes, wire, link, drain, stop, graceful, closed, sent>>
\* A leg fails, or the connection or the drain is out of time.
Stops ==
    /\ ~stop /\ stop' = TRUE /\ closing' = TRUE
    /\ CancelExchanges(Active)
    /\ UNCHANGED <<routes, wire, link, drain, graceful, closed, sent>>
\* A task that never ran has nothing to retire it; its queues are discarded here.
Closed ==
    /\ closing /\ ~closed /\ \A s \in Active : ex[s].pc = "created"
    /\ closed' = TRUE
    /\ ex' = [s \in Streams |-> [ex[s] EXCEPT !.pc = IF Open(s) THEN "retired" ELSE @]]
    /\ incoming' = Emptied(incoming, Active) /\ outgoing' = Emptied(outgoing, Active)
    /\ held' = Discarded(Active)
    /\ routes' = {}
    /\ UNCHANGED <<wire, link, drain, stop, graceful, closing, guest, sent>>

Ids == 1..Len(wire)
TaskStep(s) ==
    \/ Starts(s) \/ Connects(s) \/ Refused(s) \/ Opens(s)
    \/ UploadTakes(s) \/ UploadWrites(s) \/ PumpFails(s) \/ ResponseTakes(s) \/ ResponseWrites(s)
    \/ Finishes(s) \/ LearnsOfCancel(s)
Next ==
    \/ \E s \in Streams :
        \/ TaskStep(s)
        \/ \E kind \in StreamKinds[s] : Requested(s, kind)
        \/ \E event \in {"data", "end"} : GuestSends(s, event)
        \/ GuestResets(s)
    \/ \E id \in Ids :
        \/ \E event \in {"head", "refused", "data", "end"} : OriginSends(id, event)
        \/ OriginResets(id)
    \/ \E last \in 0..Len(wire) : OriginGoesAway(last)
    \/ GuestGoesAway \/ OriginEof \/ DrainsEmpty \/ Stops \/ Closes \/ Closed
Spec == Init /\ [][Next]_vars

-----------------------------------------------------------------------------
\* Every byte of DATA returns to the connection's window once: it is queued, in the
\* hand of a pump, or credited, however its exchange ended; none is left at the end.
CreditsConserved ==
    /\ \A l \in Legs :
        held[l] = Cardinality(Frames(Queue(l), Streams)) + Cardinality({s \in Streams : Holds(s, l)})
    /\ closed => held = [l \in Legs |-> 0]

\* A guest reads on a stream what the origin answered to that stream's request, in
\* order; the end of a response is one the origin sent.
ResponsesOwn ==
    \A s \in Streams : IsPrefix(guest[s].down, IF Mapped(s) THEN sent[ex[s].id] ELSE <<>>)

\* A run that closes gracefully left no exchange behind.
GracefulIsHonest == graceful => Active = {}

ExchangesSound == CreditsConserved /\ ResponsesOwn /\ GracefulIsHonest

\* Once a drain has begun no request reaches the origin that had not reached it.
NoLateRequest == drain => wire' = wire
DrainFences == [][NoLateRequest]_vars

=============================================================================
