----------------------------- MODULE DnsService -----------------------------
(***************************************************************************)
(* The DNS server of the egress pod.  Datagrams and the frames of TCP      *)
(* connections become queries; a counter bounds those accepted and a       *)
(* semaphore those being answered.  A connection may have several queries  *)
(* outstanding, one per id; it ends at a malformed frame, an end of file,  *)
(* a timeout, an answer that fails, or with the server.  Every query runs  *)
(* in a task, and tasks end, are cancelled and are collected out of order. *)
(***************************************************************************)
EXTENDS Naturals, FiniteSets

CONSTANTS Datagrams, Conns, Ids,
          MaxAccepted, MaxExecuting, MaxConnections, MaxOutstanding, \* DNSLimits
          MaxFrames    \* how often a client uses one id on a connection

VARIABLES accepted,    \* _accepted
          connections, \* _connections
          udp,         \* the task of every datagram
          conn,        \* the task of every connection
          pending,     \* the outstanding queries of a connection
          owed,        \* those its finally clause still has to collect
          failed,      \* has an answer failed on the connection, or was it reset?
          asked, answered, \* how often each id was accepted and answered
          server       \* "open", "closing" once close has begun, "closed"

vars == <<accepted, connections, udp, conn, pending, owed, failed, asked, answered, server>>
queries == <<pending, owed, failed, asked, answered>>

Init == /\ accepted = 0 /\ connections = 0
        /\ udp = [d \in Datagrams |-> "none"]
        /\ conn = [c \in Conns |-> "none"]
        /\ pending = [c \in Conns |-> [i \in Ids |-> "none"]]
        /\ owed = [c \in Conns |-> {}]
        /\ failed = [c \in Conns |-> FALSE]
        /\ asked = [c \in Conns |-> [i \in Ids |-> 0]]
        /\ answered = [c \in Conns |-> [i \in Ids |-> 0]]
        /\ server = "open"
----------------------------------------------------------------------------
Executing == Cardinality({d \in Datagrams : udp[d] = "executing"})
             + Cardinality({q \in Conns \X Ids : pending[q[1]][q[2]] = "executing"})

Outstanding(c) == {i \in Ids : pending[c][i] # "none"}
Admits == server = "open" /\ accepted < MaxAccepted
----------------------------------------------------------------------------
(* UDP. *)
Udp(d, state) == /\ udp' = [udp EXCEPT ![d] = state]
                 /\ UNCHANGED <<connections, conn, queries, server>>

Datagram(d) ==
    /\ udp[d] = "none" /\ server = "open"
    /\ \/ Udp(d, "dropped") /\ UNCHANGED accepted
       \/ Admits /\ Udp(d, "queued") /\ accepted' = accepted + 1

UdpExecutes(d) ==
    /\ udp[d] = "queued" /\ Executing < MaxExecuting
    /\ Udp(d, "executing") /\ UNCHANGED accepted

\* Answered, or given up with a warning: after the server has closed nothing
\* is sent.
UdpEnds(d) ==
    /\ udp[d] \in {"queued", "executing"}
    /\ \/ Udp(d, "lost")
       \/ udp[d] = "executing" /\ server = "open" /\ Udp(d, "sent")
    /\ UNCHANGED accepted

\* _completed: whoever takes the task out of _tasks releases its query.
UdpCompleted(d) ==
    /\ udp[d] \in {"lost", "sent"}
    /\ Udp(d, "gone") /\ accepted' = accepted - 1
----------------------------------------------------------------------------
(* TCP. *)
Connect(c) ==
    /\ conn[c] = "none" /\ server = "open"
    /\ IF connections >= MaxConnections
       THEN conn' = [conn EXCEPT ![c] = "refused"] /\ UNCHANGED connections
       ELSE conn' = [conn EXCEPT ![c] = "open"] /\ connections' = connections + 1
    /\ UNCHANGED <<accepted, udp, queries, server>>

\* The finally clause begins: every outstanding query is cancelled.
Cancelled(c) == [i \in Ids |-> IF i \in Outstanding(c) THEN "ended" ELSE "none"]

Finishing(c) == /\ conn' = [conn EXCEPT ![c] = "finishing"]
                /\ pending' = [pending EXCEPT ![c] = Cancelled(c)]
                /\ owed' = [owed EXCEPT ![c] = Outstanding(c)]
                /\ UNCHANGED <<accepted, connections, udp, asked, answered, server>>

\* End of file, an idle or half-read connection, a malformed frame.
Breaks(c) ==
    /\ conn[c] = "open"
    /\ Finishing(c)
    /\ \E resets \in BOOLEAN : failed' = [failed EXCEPT ![c] = @ \/ resets]

\* A frame read whole.  Once an answer has failed only what was already read
\* from the socket comes through.
Frame(c, i) ==
    /\ conn[c] = "open" /\ server = "open"
    /\ asked[c][i] < MaxFrames
    /\ IF i \in Outstanding(c) \/ Cardinality(Outstanding(c)) >= MaxOutstanding \/ ~Admits
       THEN Finishing(c) /\ failed' = [failed EXCEPT ![c] = TRUE]
       ELSE /\ accepted' = accepted + 1
            /\ pending' = [pending EXCEPT ![c][i] = "queued"]
            /\ asked' = [asked EXCEPT ![c][i] = @ + 1]
            /\ UNCHANGED <<connections, udp, conn, owed, failed, answered, server>>

Query(c, i, state) == /\ pending' = [pending EXCEPT ![c][i] = state]
                      /\ UNCHANGED <<accepted, connections, udp, conn, owed, asked, server>>

Executes(c, i) ==
    /\ pending[c][i] = "queued" /\ Executing < MaxExecuting
    /\ Query(c, i, "executing") /\ UNCHANGED <<failed, answered>>

\* The answer is ready; the slot is free again before the frame is written.
Ready(c, i) ==
    /\ pending[c][i] = "executing"
    /\ Query(c, i, "ready") /\ UNCHANGED <<failed, answered>>

Locked(c) == \E j \in Ids : pending[c][j] = "writing"

Writes(c, i) ==
    /\ pending[c][i] = "ready" /\ ~Locked(c)
    /\ IF failed[c] THEN Query(c, i, "ended") /\ UNCHANGED <<failed, answered>>
       ELSE /\ Query(c, i, "writing")
            /\ answered' = [answered EXCEPT ![c][i] = @ + 1]
            /\ UNCHANGED failed

Drained(c, i) ==
    /\ pending[c][i] = "writing"
    /\ Query(c, i, "ended") /\ UNCHANGED <<failed, answered>>

\* A denial, the deadline or a broken connection: the client sees a reset.
FailsQuietly(c, i) ==
    /\ pending[c][i] \in {"queued", "executing", "ready", "writing"}
    /\ Query(c, i, "ended") /\ UNCHANGED <<failed, answered>>

Fails(c, i) ==
    /\ pending[c][i] \in {"queued", "executing", "ready", "writing"}
    /\ failed' = [failed EXCEPT ![c] = TRUE]
    /\ Query(c, i, "ended") /\ UNCHANGED answered

\* complete: only the first call for a task releases its query.  Whether the
\* callback of a task or the finally clause comes first is left open.
Callback(c, i) ==
    /\ pending[c][i] = "ended"
    /\ accepted' = accepted - 1
    /\ pending' = [pending EXCEPT ![c][i] = "none"]
    /\ UNCHANGED <<connections, udp, conn, owed, failed, asked, answered, server>>

EverOwed(c) == owed[c]
Collects(c) == {i \in owed[c] : pending[c][i] = "ended"}

Collected(c) ==
    /\ conn[c] = "finishing"
    /\ accepted' = accepted - Cardinality(Collects(c))
    /\ pending' = [pending EXCEPT ![c] = [i \in Ids |-> "none"]]
    /\ owed' = [owed EXCEPT ![c] = {}]
    /\ conn' = [conn EXCEPT ![c] = "ended"]
    /\ UNCHANGED <<connections, udp, failed, asked, answered, server>>

\* Cancelled while it waits in its finally clause, it leaves them to callbacks.
Abandoned(c) ==
    /\ conn[c] = "abandoned" /\ Outstanding(c) = {}
    /\ conn' = [conn EXCEPT ![c] = "ended"]
    /\ UNCHANGED <<accepted, connections, udp, queries, server>>

ConnectionCompleted(c) ==
    /\ conn[c] = "ended"
    /\ conn' = [conn EXCEPT ![c] = "gone"] /\ connections' = connections - 1
    /\ UNCHANGED <<accepted, udp, queries, server>>
----------------------------------------------------------------------------
(* close. *)
Live(c) == conn[c] \in {"open", "finishing"}

\* Every connection is reset and every task cancelled.
Close ==
    /\ server = "open"
    /\ server' = "closing"
    /\ udp' = [d \in Datagrams |-> IF udp[d] \in {"queued", "executing"} THEN "lost" ELSE udp[d]]
    /\ failed' = [c \in Conns |-> failed[c] \/ Live(c)]
    /\ pending' = [c \in Conns |-> IF conn[c] = "open" THEN Cancelled(c) ELSE pending[c]]
    /\ owed' = [c \in Conns |-> IF conn[c] = "open" THEN Outstanding(c) ELSE owed[c]]
    /\ conn' = [c \in Conns |-> CASE conn[c] = "open" -> "finishing"
                                  [] conn[c] = "finishing" -> "abandoned"
                                  [] OTHER -> conn[c]]
    /\ UNCHANGED <<accepted, connections, asked, answered>>

\* When all of them have ended, those whose callbacks are late are collected.
Closed ==
    /\ server = "closing"
    /\ \A c \in Conns : conn[c] \notin {"finishing", "abandoned"}
    /\ server' = "closed"
    /\ accepted' = accepted - Cardinality({d \in Datagrams : udp[d] \in {"lost", "sent"}})
    /\ connections' = connections - Cardinality({c \in Conns : conn[c] = "ended"})
    /\ udp' = [d \in Datagrams |-> IF udp[d] \in {"lost", "sent"} THEN "gone" ELSE udp[d]]
    /\ conn' = [c \in Conns |-> IF conn[c] = "ended" THEN "gone" ELSE conn[c]]
    /\ UNCHANGED queries

Next == \/ \E d \in Datagrams : Datagram(d) \/ UdpExecutes(d) \/ UdpEnds(d) \/ UdpCompleted(d)
        \/ \E c \in Conns : Connect(c) \/ Breaks(c) \/ Collected(c) \/ Abandoned(c) \/ ConnectionCompleted(c)
        \/ \E c \in Conns, i \in Ids : \/ Frame(c, i) \/ Executes(c, i) \/ Ready(c, i) \/ Writes(c, i)
                                     \/ Drained(c, i) \/ Fails(c, i) \/ Callback(c, i)
        \/ Close \/ Closed

Spec == Init /\ [][Next]_vars
----------------------------------------------------------------------------
(* Properties. *)

\* Every accepted query is released exactly once, whoever collects its task,
\* so that the counters never drift and the limits hold.
CapacityIsConserved ==
    /\ accepted = Cardinality({d \in Datagrams : udp[d] \in {"queued", "executing", "lost", "sent"}})
                  + Cardinality({p \in Conns \X Ids : p[2] \in Outstanding(p[1])})
    /\ connections = Cardinality({c \in Conns : conn[c] \in {"open", "finishing", "abandoned", "ended"}})
    /\ accepted <= MaxAccepted /\ Executing <= MaxExecuting /\ connections <= MaxConnections

\* On a connection that has not been reset every query is outstanding or has
\* been answered, each exactly once: an answer that is lost costs the
\* connection, never leaves the client waiting for it.
NoSilentLoss ==
    \A c \in Conns, i \in Ids :
       LET waiting == IF pending[c][i] \in {"queued", "executing", "ready"} THEN 1 ELSE 0
       IN  IF conn[c] = "open" /\ ~failed[c] THEN asked[c][i] = answered[c][i] + waiting
                                             ELSE answered[c][i] <= asked[c][i]

\* A closed server has nothing running and holds no capacity.
ClosedIsEmpty ==
    server = "closed" =>
       /\ accepted = 0 /\ connections = 0
       /\ \A d \in Datagrams : udp[d] \notin {"queued", "executing"}
       /\ \A c \in Conns : Outstanding(c) = {}

ServiceIsSound == CapacityIsConserved /\ NoSilentLoss /\ ClosedIsEmpty
=============================================================================
