--------------------------- MODULE Http2ProxyProofs ---------------------------
(***************************************************************************)
(* Machine-checked invariance of the joined HTTP/2 connections, for any    *)
(* number of streams, frames and events: SandboxPodsProofs draws from it   *)
(* what the run checks.  Http2Inv says that a drain has cancelled every    *)
(* exchange whose request still waits.  ExchangesInv ties the queues, the  *)
(* hands of the pumps and the window's count to the exchanges that are     *)
(* open, and what a guest has read to what the origin sent on the stream   *)
(* that exchange owns.                                                     *)
(***************************************************************************)
EXTENDS Http2Proxy, FiniteSetTheorems, SequenceTheorems, WellFoundedInduction, TLAPS

-----------------------------------------------------------------------------
(***************************************************************************)
(* Http2Proxy: a drained connection takes no request.                      *)
(***************************************************************************)

Kinds == {"http", "ws", "h2c"}
Pumps == {"none", "take", "data", "done"}
ExchangePlaces == {"none", "created", "asking", "open", "retired"}
ExchangeRecords ==
    [pc : ExchangePlaces, kind : Kinds, cancelled : BOOLEAN,
     id : Nat, uploaded : BOOLEAN, ended : BOOLEAN, up : Pumps, down : Pumps]
Http2Typed == ex \in [Streams -> ExchangeRecords] /\ wire \in Seq(Nat) /\ drain \in BOOLEAN

\* An exchange whose request has not been written to the origin.
Waits(e) == e.pc \in {"created", "asking"} /\ e.kind # "h2c"

\* It has no upstream identifier, so a drain counts it as undrained.
WaitingIsUnmapped == \A s \in Streams : ex[s].pc = "asking" \/ Waits(ex[s]) => Waits(ex[s]) /\ ex[s].id = NoId

\* A drain has cancelled every one of them.
DrainCancels == drain => \A s \in Streams : Waits(ex[s]) => ex[s].cancelled
Http2Inv == Http2Typed /\ WaitingIsUnmapped /\ DrainCancels

\* What one step may do to an exchange.
Follows(e, f) ==
    \/ f.pc = e.pc /\ f.kind = e.kind /\ f.id = e.id /\ (e.cancelled => f.cancelled)
    \/ f.pc \in {"open", "retired"}
    \/ e.pc = "created" /\ f.pc = "asking" /\ ~e.cancelled /\ f.kind = e.kind /\ f.id = e.id /\ e.kind # "h2c"
    \/ ~drain /\ f.pc = "created" /\ f.kind # "h2c" /\ f.id = NoId
ExchangesFollow == ex' \in [Streams -> ExchangeRecords] /\ \A s \in Streams : Follows(ex[s], ex'[s])

LEMMA Names ==
    /\ "none" \in Pumps /\ "take" \in Pumps /\ "data" \in Pumps /\ "done" \in Pumps
    /\ "asking" \in ExchangePlaces /\ "open" \in ExchangePlaces /\ "retired" \in ExchangePlaces
    /\ "none" \in ExchangePlaces /\ "created" \in ExchangePlaces
    /\ "http" \in Kinds /\ "ws" \in Kinds /\ "h2c" \in Kinds
BY DEF Pumps, ExchangePlaces, Kinds

LEMMA Created ==
    ASSUME NEW kind \in Kinds
    PROVE  /\ NewExchange(kind) \in ExchangeRecords
           /\ NewExchange(kind).pc = "created" /\ NewExchange(kind).kind = kind /\ NewExchange(kind).id = NoId
BY Names DEF NewExchange, ExchangeRecords, NoId

LEMMA Http2Init == Init => Http2Inv
<1> SUFFICES ASSUME Init PROVE Http2Inv
  OBVIOUS
<1>1. PICK first \in {NoExchange, Upgraded(1)} :
          /\ ex = [s \in Streams |-> IF s = 1 THEN first ELSE NoExchange]
          /\ wire = IF first # NoExchange THEN <<1>> ELSE <<>>
  BY DEF Init
<1>2. /\ NoExchange \in ExchangeRecords /\ NoExchange.pc = "none"
      /\ Upgraded(1) \in ExchangeRecords /\ Upgraded(1).pc = "created" /\ Upgraded(1).kind = "h2c"
  <2>1. PICK n, h : n = NewExchange("http") /\ h = NewExchange("h2c")
    OBVIOUS
  <2>2. n \in ExchangeRecords /\ h \in ExchangeRecords /\ h.pc = "created" /\ h.kind = "h2c"
    BY <2>1, Names, Created
  <2>3. NoExchange = [n EXCEPT !.pc = "none"] /\ Upgraded(1) = [h EXCEPT !.id = 1, !.uploaded = TRUE]
    BY <2>1 DEF NoExchange, Upgraded
  <2>4. NoExchange \in ExchangeRecords /\ NoExchange.pc = "none"
    BY <2>2, <2>3, Names DEF ExchangeRecords
  <2>5. Upgraded(1) \in ExchangeRecords
    <3>1. PICK one \in Nat, yes \in BOOLEAN : one = 1 /\ yes = TRUE
      OBVIOUS
    <3>2. Upgraded(1) = [h EXCEPT !.id = one, !.uploaded = yes]
      BY <2>3, <3>1
    <3> QED
      BY <2>2, <3>2 DEF ExchangeRecords
  <2>6. Upgraded(1).pc = "created" /\ Upgraded(1).kind = "h2c"
    BY <2>2, <2>3 DEF ExchangeRecords
  <2> QED
    BY <2>4, <2>5, <2>6
<1>3. \A s \in Streams : ex[s] \in {NoExchange, Upgraded(1)}
  BY <1>1
<1>4. Http2Typed
  <2>1. ex \in [Streams -> ExchangeRecords]
    BY <1>1, <1>2
  <2>2. wire \in Seq(Nat)
    BY <1>1
  <2> QED
    BY <2>1, <2>2 DEF Init, Http2Typed
<1> QED
  BY <1>2, <1>3, <1>4 DEF Init, Http2Inv, WaitingIsUnmapped, DrainCancels, Waits

LEMMA OneExchange ==
    ASSUME Http2Inv, NEW s \in Streams, NEW e \in ExchangeRecords, ex' = [ex EXCEPT ![s] = e], Follows(ex[s], e)
    PROVE  ExchangesFollow
<1>1. ex \in [Streams -> ExchangeRecords]
  BY DEF Http2Inv, Http2Typed
<1>2. \A t \in Streams : ex'[t] = IF t = s THEN e ELSE ex[t]
  BY <1>1
<1> QED
  BY <1>1, <1>2 DEF ExchangesFollow, Follows

\* Cancelling marks exchanges and moves none.
LEMMA CancelFollows ==
    ASSUME Http2Inv, NEW S, CancelExchanges(S)
    PROVE  /\ ExchangesFollow
           /\ \A s \in Streams \cap S : ex'[s].cancelled
           /\ \A s \in Streams : ex'[s].pc = ex[s].pc /\ ex'[s].kind = ex[s].kind /\ ex'[s].id = ex[s].id
<1>1. ex \in [Streams -> ExchangeRecords]
  BY DEF Http2Inv, Http2Typed
<1>2. \A s \in Streams : [ex[s] EXCEPT !.cancelled = TRUE] \in ExchangeRecords
  BY <1>1 DEF ExchangeRecords
<1>3. \A s \in Streams :
          /\ ex'[s] = IF s \in S THEN [ex[s] EXCEPT !.cancelled = TRUE] ELSE ex[s]
  BY DEF CancelExchanges
<1>4. ex' \in [Streams -> ExchangeRecords]
  BY <1>1, <1>2 DEF CancelExchanges
<1>5. \A s \in Streams :
          /\ ex'[s].pc = ex[s].pc /\ ex'[s].kind = ex[s].kind /\ ex'[s].id = ex[s].id
          /\ (ex[s].cancelled \/ s \in S) => ex'[s].cancelled
  BY <1>1, <1>3 DEF ExchangeRecords
<1> QED
  BY <1>4, <1>5 DEF ExchangesFollow, Follows

\* An exchange that ends is retired.
LEMMA RetireFollows ==
    ASSUME Http2Inv, NEW s \in Streams, NEW b, Retire(s, b)
    PROVE  ExchangesFollow
<1>1. ex[s] \in ExchangeRecords
  BY DEF Http2Inv, Http2Typed
<1>2. PICK e : e = [ex[s] EXCEPT !.pc = "retired", !.up = "done", !.down = "done"]
  OBVIOUS
<1>3. e \in ExchangeRecords /\ e.pc = "retired"
  BY <1>1, <1>2, Names DEF ExchangeRecords
<1>4. ex' = [ex EXCEPT ![s] = e]
  BY <1>2 DEF Retire
<1> QED
  BY <1>3, <1>4, OneExchange DEF Follows

\* Every step moves exchanges along Follows, a drain is never taken back and
\* nothing is written to the origin's connection after it.
LEMMA Http2Follows ==
    ASSUME Http2Inv, Next
    PROVE  /\ ExchangesFollow
           /\ drain' = drain \/ (drain' = TRUE /\ \A s \in Streams : ~Waits(ex'[s]) \/ ex'[s].cancelled)
           /\ drain => wire' = wire
           /\ wire' \in Seq(Nat)
<1>w. wire \in Seq(Nat) /\ ex \in [Streams -> ExchangeRecords]
  BY DEF Http2Inv, Http2Typed
<1>u. ASSUME UNCHANGED <<ex, drain, wire>>
      PROVE  ExchangesFollow /\ wire' \in Seq(Nat)
  BY <1>w, <1>u DEF ExchangesFollow, Follows
<1>d. ASSUME NEW limit, Drain(limit)
      PROVE  ExchangesFollow /\ drain' = TRUE /\ \A s \in Streams : ~Waits(ex'[s]) \/ ex'[s].cancelled
  <2>1. \A s \in Streams : Waits(ex[s]) => s \in Undrained(limit)
    BY DEF Undrained, Mapped, Active, Open, Waits, Http2Inv, WaitingIsUnmapped
  <2>2. CancelExchanges(Undrained(limit)) /\ drain' = TRUE
    BY <1>d DEF Drain
  <2> QED
    BY <2>1, <2>2, CancelFollows DEF Waits
<1>1. ASSUME NEW s \in Streams, TaskStep(s)
      PROVE  /\ ExchangesFollow /\ drain' = drain /\ wire' \in Seq(Nat)
             /\ drain => wire' = wire
  <2> PICK e : e = ex[s]
    OBVIOUS
  <2>e. e \in ExchangeRecords
    BY <1>w
  <2>1. CASE Refused(s) \/ PumpFails(s) \/ Finishes(s) \/ LearnsOfCancel(s)
    <3>1. PICK b : Retire(s, b)
      BY <2>1 DEF Refused, PumpFails, Finishes, LearnsOfCancel, Denied
    <3> QED
      BY <1>w, <3>1, RetireFollows DEF Retire
  <2>2. CASE Starts(s)
    <3>1. CASE ex[s].cancelled
      BY <1>w, <2>2, <3>1, RetireFollows DEF Starts, Denied, Retire
    <3>2. CASE ~ex[s].cancelled
      <4>1. PICK f : /\ f = IF e.kind = "h2c" THEN [e EXCEPT !.pc = "open", !.down = "take"]
                            ELSE [e EXCEPT !.pc = "asking"]
                     /\ ex' = [ex EXCEPT ![s] = f] /\ UNCHANGED <<drain, wire>> /\ e.pc = "created"
        BY <2>2, <3>2 DEF Starts, shutdown
      <4>2. f \in ExchangeRecords /\ Follows(e, f)
        BY <2>e, <3>2, <4>1, Names DEF ExchangeRecords, Follows
      <4> QED
        BY <1>w, <4>1, <4>2, OneExchange
    <3> QED
      BY <3>1, <3>2
  <2>3. CASE Connects(s)
    BY <1>u, <2>3 DEF Connects, shutdown
  <2>4. CASE Opens(s)
    <3>1. e.pc = "asking" /\ ~e.cancelled /\ wire' = Append(wire, s) /\ UNCHANGED drain
      BY <2>4 DEF Opens, Alive, shutdown
    <3>2. ~drain
      BY <3>1 DEF Http2Inv, WaitingIsUnmapped, DrainCancels
    <3>3. PICK f : /\ f = [e EXCEPT !.pc = "open", !.id = Len(wire) + 1, !.down = "take",
                                    !.up = IF e.kind = "ws" THEN "none" ELSE "take"]
                   /\ ex' = [ex EXCEPT ![s] = f]
      BY <2>4 DEF Opens
    <3>4. Len(wire) + 1 \in Nat /\ (IF e.kind = "ws" THEN "none" ELSE "take") \in Pumps
      BY <1>w, Names
    <3>5. f \in ExchangeRecords /\ f.pc = "open"
      BY <2>e, <3>3, <3>4, Names DEF ExchangeRecords
    <3>6. wire' \in Seq(Nat)
      BY <1>w, <3>1, StreamsAssumption
    <3> QED
      BY <3>1, <3>2, <3>3, <3>5, <3>6, OneExchange DEF Follows
  <2>5. CASE UploadTakes(s) \/ UploadWrites(s) \/ ResponseTakes(s) \/ ResponseWrites(s)
    <3>1. PICK f : /\ ex' = [ex EXCEPT ![s] = f] /\ UNCHANGED <<drain, wire>> /\ e.pc = "open"
                   /\ \/ f = [e EXCEPT !.up = "data"]
                      \/ f = [e EXCEPT !.up = "done", !.uploaded = TRUE]
                      \/ f = [e EXCEPT !.up = "take"]
                      \/ f = [e EXCEPT !.down = "take"]
                      \/ \E event : f = AfterEvent(s, event)
      BY <2>5 DEF UploadTakes, UploadWrites, ResponseTakes, ResponseWrites, Alive, shutdown
    <3>2. ASSUME NEW event, f = AfterEvent(s, event) PROVE f \in ExchangeRecords /\ f.pc = "open"
      <4>1. PICK u, d : f = [e EXCEPT !.up = u, !.down = d] /\ u \in Pumps /\ d \in Pumps
        BY <2>e, <3>2, Names DEF AfterEvent, ExchangeRecords
      <4> QED
        BY <2>e, <3>1, <4>1 DEF ExchangeRecords
    <3>3. f \in ExchangeRecords /\ f.pc = "open"
      BY <2>e, <3>1, <3>2, Names DEF ExchangeRecords
    <3> QED
      BY <1>w, <3>1, <3>3, OneExchange DEF Follows
  <2> QED
    BY <1>1, <2>1, <2>2, <2>3, <2>4, <2>5 DEF TaskStep
<1>2. ASSUME NEW s \in Streams, NEW kind \in StreamKinds[s], Requested(s, kind)
      PROVE  ExchangesFollow /\ UNCHANGED <<drain, wire>>
  <2>1. UNCHANGED <<drain, wire>>
    BY <1>2 DEF Requested, shutdown
  <2>2. CASE ex' = ex
    BY <1>u, <2>1, <2>2
  <2>3. CASE ex' # ex
    <3>1. ~drain /\ ex' = [ex EXCEPT ![s] = NewExchange(kind)]
      BY <1>2, <2>3 DEF Requested
    <3>2. NewExchange(kind) \in ExchangeRecords /\ NewExchange(kind).pc = "created"
          /\ NewExchange(kind).kind # "h2c" /\ NewExchange(kind).id = NoId
      BY StreamsAssumption, Created DEF Kinds
    <3> QED
      BY <2>1, <3>1, <3>2, OneExchange DEF Follows
  <2> QED
    BY <2>2, <2>3
<1>3. ASSUME NEW s \in Streams, NEW event, GuestSends(s, event)
      PROVE  ExchangesFollow /\ UNCHANGED <<drain, wire>>
  BY <1>u, <1>3 DEF GuestSends, shutdown
<1>4. ASSUME NEW S, CancelExchanges(S), UNCHANGED <<drain, wire>>
      PROVE  ExchangesFollow /\ wire' \in Seq(Nat)
  BY <1>w, <1>4, CancelFollows
<1>5. ASSUME NEW s \in Streams, GuestResets(s)
      PROVE  ExchangesFollow /\ UNCHANGED <<drain, wire>>
  BY <1>4, <1>5 DEF GuestResets, shutdown
<1>6. ASSUME NEW id \in Ids, NEW event \in {"head", "refused", "data", "end"}, OriginSends(id, event)
      PROVE  ExchangesFollow /\ UNCHANGED <<drain, wire>>
  <2>1. PICK whose : ex' = [s \in Streams |-> IF s \in whose /\ event = "end" THEN [ex[s] EXCEPT !.ended = TRUE] ELSE ex[s]]
    BY <1>6 DEF OriginSends
  <2>2. \A s \in Streams : [ex[s] EXCEPT !.ended = TRUE] \in ExchangeRecords
    BY <1>w DEF ExchangeRecords
  <2>3. ex' \in [Streams -> ExchangeRecords]
    BY <1>w, <2>1, <2>2
  <2>4. \A s \in Streams : /\ ex'[s].pc = ex[s].pc /\ ex'[s].kind = ex[s].kind /\ ex'[s].id = ex[s].id
                           /\ ex'[s].cancelled = ex[s].cancelled
    BY <1>w, <2>1 DEF ExchangeRecords
  <2> QED
    BY <1>6, <2>3, <2>4 DEF ExchangesFollow, Follows, OriginSends, shutdown
<1>7. CASE (\E id \in Ids : OriginResets(id)) \/ OriginEof \/ Stops \/ Closes
  <2>1. \E S : CancelExchanges(S) /\ UNCHANGED <<drain, wire>>
    BY <1>7 DEF OriginResets, OriginEof, Stops, Closes, shutdown
  <2> QED
    BY <1>4, <2>1
<1>8. CASE GuestGoesAway \/ \E limit \in 0..Len(wire) : OriginGoesAway(limit)
  BY <1>w, <1>d, <1>8 DEF GuestGoesAway, OriginGoesAway
<1>9. CASE DrainsEmpty
  BY <1>u, <1>9 DEF DrainsEmpty
<1>10. CASE Closed
  <2>1. /\ ex' = [s \in Streams |-> [ex[s] EXCEPT !.pc = IF Open(s) THEN "retired" ELSE ex[s].pc]]
        /\ UNCHANGED <<drain, wire>>
    BY <1>10 DEF Closed
  <2>2. \A s \in Streams : ex'[s] = IF Open(s) THEN [ex[s] EXCEPT !.pc = "retired"] ELSE ex[s]
    BY <1>w, <2>1 DEF ExchangeRecords
  <2>3. \A s \in Streams : [ex[s] EXCEPT !.pc = "retired"] \in ExchangeRecords
                           /\ [ex[s] EXCEPT !.pc = "retired"].pc = "retired"
    BY <1>w, Names DEF ExchangeRecords
  <2>4. ex' \in [Streams -> ExchangeRecords]
    BY <1>w, <2>1, <2>2, <2>3
  <2> QED
    BY <1>w, <2>1, <2>2, <2>3, <2>4 DEF ExchangesFollow, Follows
<1> QED
  BY <1>w, <1>1, <1>2, <1>3, <1>5, <1>6, <1>7, <1>8, <1>9, <1>10 DEF Next

\* So no request reaches the origin after a drain.
LEMMA Http2Next == ASSUME Http2Inv, Next PROVE Http2Inv' /\ NoLateRequest
<1>1. /\ ExchangesFollow
      /\ drain' = drain \/ (drain' = TRUE /\ \A s \in Streams : ~Waits(ex'[s]) \/ ex'[s].cancelled)
      /\ drain => wire' = wire
      /\ wire' \in Seq(Nat)
  BY Http2Follows
<1>2. Http2Typed'
  BY <1>1 DEF Http2Inv, Http2Typed, ExchangesFollow
<1>3. WaitingIsUnmapped'
  BY <1>1 DEF Http2Inv, WaitingIsUnmapped, Waits, ExchangesFollow, Follows
<1>4. DrainCancels'
  BY <1>1 DEF Http2Inv, DrainCancels, Waits, ExchangesFollow, Follows
<1> QED
  BY <1>1, <1>2, <1>3, <1>4 DEF Http2Inv, NoLateRequest

-----------------------------------------------------------------------------
(***************************************************************************)
(* Http2Proxy: DATA is credited once, responses reach their own stream and *)
(* a graceful end is whole.                                                *)
(***************************************************************************)

Events == {"head", "refused", "data", "end"}
GuestRecords == [up : Seq(Events), down : Seq(Events), reset : BOOLEAN]
QueuesTyped ==
    /\ incoming \in [Streams -> Seq(Events)] /\ outgoing \in [Streams -> Seq(Events)]
    /\ held \in [Legs -> Int]
SidesTyped ==
    /\ guest \in [Streams -> GuestRecords]
    /\ sent \in Seq(Seq(Events)) /\ Len(sent) = Len(wire)
    /\ graceful \in BOOLEAN /\ closing \in BOOLEAN /\ closed \in BOOLEAN

\* Nothing is queued for an exchange that ended or is being cancelled, and a pump holds
\* DATA only while it runs.
EndedIsEmpty ==
    \A s \in Streams :
        /\ ~Open(s) \/ ex[s].cancelled => incoming[s] = <<>> /\ outgoing[s] = <<>>
        /\ ex[s].pc # "open" => ex[s].up # "data" /\ ex[s].down # "data"

\* An origin stream has one exchange for good, and is routed to it while it is open.
IdsAreOwn ==
    \A s \in Streams :
        /\ Mapped(s) => ex[s].id \in 1..Len(sent) /\ \A t \in Streams : ex[t].id = ex[s].id => t = s
        /\ ex[s].pc = "none" => ~Mapped(s)
        /\ ex[s].pc = "open" \/ (ex[s].pc = "created" /\ ex[s].kind = "h2c") => Mapped(s)
RoutesAreOwn ==
    /\ \A r \in routes : r[2] \in Streams /\ r = <<ex[r[2]].id, r[2]>> /\ Mapped(r[2]) /\ Open(r[2])
    /\ \A s \in Streams : Open(s) /\ Mapped(s) => <<ex[s].id, s>> \in routes

\* What the guest read, then the DATA in the hand, then the queue: all that was sent.
Whole(read, hand, line, all) ==
    /\ Len(all) = Len(read) + hand + Len(line)
    /\ \A i \in 1..Len(read) : read[i] = all[i]
    /\ hand = 1 => all[Len(read) + 1] = "data"
    /\ \A i \in 1..Len(line) : line[i] = all[Len(read) + hand + i]
Begins(read, all) == Len(read) <= Len(all) /\ \A i \in 1..Len(read) : read[i] = all[i]
Hand(s) == IF ex[s].down = "data" THEN 1 ELSE 0
ResponseKept ==
    \A s \in Streams :
        /\ Mapped(s) /\ Open(s) /\ ~ex[s].cancelled =>
               Whole(guest[s].down, Hand(s), outgoing[s], sent[ex[s].id])
        /\ Mapped(s) => Begins(guest[s].down, sent[ex[s].id])
        /\ ~Mapped(s) => guest[s].down = <<>> /\ outgoing[s] = <<>> /\ ex[s].down # "data"

\* The head of a response comes first, and a WebSocket uploads only after it.
HeadsFirst == \A id \in 1..Len(sent) : \A i \in 1..Len(sent[id]) : sent[id][i] = "head" => i = 1
SocketsWait ==
    \A s \in Streams : ex[s].kind = "ws" /\ ex[s].up \in {"take", "data"} => guest[s].down # <<>>

\* Nothing is open once the connection has closed, or is closing gracefully.
EndsWhole == (graceful => drain /\ Active = {}) /\ (closed => closing /\ Active = {})

\* Every DATA frame of a leg is queued or in a hand.
Uploaders == {s \in Streams : ex[s].up = "data"}
Readers == {s \in Streams : ex[s].down = "data"}
Balanced ==
    /\ held["front"] = Cardinality(Frames(incoming, Streams)) + Cardinality(Uploaders)
    /\ held["origin"] = Cardinality(Frames(outgoing, Streams)) + Cardinality(Readers)
ExchangesInv ==
    /\ QueuesTyped /\ SidesTyped
    /\ EndedIsEmpty /\ IdsAreOwn /\ RoutesAreOwn /\ ResponseKept /\ HeadsFirst /\ SocketsWait
    /\ EndsWhole /\ Balanced

\* The frames of several queues, one by one.
LEMMA FramesAre ==
    ASSUME NEW q \in [Streams -> Seq(Events)], NEW S \in SUBSET Streams
    PROVE  \A p : p \in Frames(q, S) <=>
               \E s \in S : \E i \in 1..Len(q[s]) : q[s][i] = "data" /\ p = <<s, i>>
<1>1. \A s \in S : q[s] \in Seq(Events) /\ DOMAIN q[s] = 1..Len(q[s])
  OBVIOUS
<1>2. \A s \in S : DataAt(q[s]) = {i \in 1..Len(q[s]) : q[s][i] = "data"}
  BY <1>1 DEF DataAt
<1>3. PICK D : \A s \in S : D[s] = DataAt(q[s])
  <2>1. PICK f : f = [s \in S |-> DataAt(q[s])]
    OBVIOUS
  <2> QED
    BY <2>1
<1>4. \A p : p \in Frames(q, S) <=> \E s \in S : p \in {s} \X D[s]
  BY <1>3, Zenon DEF Frames
<1>5. \A p : \A s \in S : p \in {s} \X D[s] <=> \E i \in D[s] : p = <<s, i>>
  OBVIOUS
<1>6. \A s \in S : \A i : i \in D[s] <=> i \in 1..Len(q[s]) /\ q[s][i] = "data"
  BY <1>2, <1>3
<1> QED
  <2> TAKE p
  <2>1. p \in Frames(q, S) <=> \E s \in S : \E i \in D[s] : p = <<s, i>>
    BY <1>4, <1>5
  <2> QED
    BY <1>6, <2>1

LEMMA FramesFinite ==
    ASSUME NEW q \in [Streams -> Seq(Events)], NEW S \in SUBSET Streams
    PROVE  IsFiniteSet(Frames(q, S)) /\ Cardinality(Frames(q, S)) \in Nat
<1>1. IsFiniteSet(S)
  BY StreamsAssumption, FS_Subset
<1>2. PICK f : f = [s \in S |-> {s} \X DataAt(q[s])]
  OBVIOUS
<1>3. PICK R : R = {f[s] : s \in S}
  OBVIOUS
<1>4. IsFiniteSet(R)
  <2>1. f \in Surjection(S, R)
    BY <1>2, <1>3 DEF Surjection
  <2> QED
    BY <1>1, <2>1, FS_Surjection
<1>5. ASSUME NEW s \in S PROVE IsFiniteSet(f[s])
  <2>1. q[s] \in Seq(Events) /\ Len(q[s]) \in Nat /\ DOMAIN q[s] = 1..Len(q[s])
    OBVIOUS
  <2>2. IsFiniteSet(1..Len(q[s]))
    BY <2>1, FS_Interval
  <2>3. DataAt(q[s]) \in SUBSET (1..Len(q[s]))
    BY <2>1 DEF DataAt
  <2>4. IsFiniteSet(DataAt(q[s])) /\ IsFiniteSet({s})
    BY <2>2, <2>3, FS_Subset, FS_Singleton
  <2> QED
    BY <1>2, <2>4, FS_Product
<1>6. Frames(q, S) = UNION R
  BY <1>2, <1>3 DEF Frames
<1>7. IsFiniteSet(UNION R)
  BY <1>3, <1>4, <1>5, FS_UNION
<1> QED
  BY <1>6, <1>7, FS_CardinalityType

\* A frame that is queued counts once.
LEMMA FrameQueued ==
    ASSUME NEW q \in [Streams -> Seq(Events)], NEW r \in [Streams -> Seq(Events)], NEW s \in Streams,
           NEW n \in Nat, NEW e,
           \A t \in Streams \ {s} : r[t] = q[t], n = Len(q[s]) + 1, Len(r[s]) = n, r[s][n] = e,
           \A i \in 1..Len(q[s]) : r[s][i] = q[s][i]
    PROVE  Cardinality(Frames(r, Streams)) =
                Cardinality(Frames(q, Streams)) + (IF e = "data" THEN 1 ELSE 0)
<1>1. n \in Nat /\ n = Len(q[s]) + 1
  OBVIOUS
<1>2. r \in [Streams -> Seq(Events)] /\ (\A t \in Streams \ {s} : r[t] = q[t]) /\ q[s] \in Seq(Events)
  OBVIOUS
<1>3. Len(r[s]) = n /\ r[s][n] = e /\ \A i \in 1..Len(q[s]) : r[s][i] = q[s][i]
  OBVIOUS
<1>4. \A i : i \in 1..Len(r[s]) <=> i \in 1..Len(q[s]) \/ i = n
  BY <1>1, <1>2, <1>3, LenProperties
<1>q. \A p : p \in Frames(q, Streams) <=>
          \E t \in Streams : \E i \in 1..Len(q[t]) : q[t][i] = "data" /\ p = <<t, i>>
  <2>1. Streams \in SUBSET Streams
    OBVIOUS
  <2> QED
    BY <2>1, FramesAre
<1>r. \A p : p \in Frames(r, Streams) <=>
          \E t \in Streams : \E i \in 1..Len(r[t]) : r[t][i] = "data" /\ p = <<t, i>>
  BY <1>2, FramesAre
<1>5. Frames(r, Streams) = Frames(q, Streams) \cup (IF e = "data" THEN {<<s, n>>} ELSE {})
  <2>1. ASSUME NEW p \in Frames(r, Streams)
        PROVE  p \in Frames(q, Streams) \/ (e = "data" /\ p = <<s, n>>)
    <3>0. PICK t \in Streams : \E i \in 1..Len(r[t]) : r[t][i] = "data" /\ p = <<t, i>>
      BY <1>2, <1>q, <1>r
    <3>1. PICK i \in 1..Len(r[t]) : r[t][i] = "data" /\ p = <<t, i>>
      BY <3>0
    <3>2. CASE t # s
      BY <1>2, <3>1, <3>2, <1>q, <1>r
    <3>3. CASE t = s
      BY <1>3, <1>4, <3>1, <3>3, <1>q, <1>r
    <3> QED
      BY <3>2, <3>3
  <2>2. ASSUME NEW p \in Frames(q, Streams) PROVE p \in Frames(r, Streams)
    <3>0. PICK t \in Streams : \E i \in 1..Len(q[t]) : q[t][i] = "data" /\ p = <<t, i>>
      BY <1>q, <1>r
    <3>1. PICK i \in 1..Len(q[t]) : q[t][i] = "data" /\ p = <<t, i>>
      BY <3>0
    <3>2. i \in 1..Len(r[t]) /\ r[t][i] = "data"
      BY <1>2, <1>3, <1>4, <3>1
    <3> QED
      BY <1>2, <3>1, <3>2, <1>q, <1>r
  <2>3. e = "data" => <<s, n>> \in Frames(r, Streams)
    BY <1>2, <1>3, <1>4, <1>q, <1>r
  <2> QED
    BY <2>1, <2>2, <2>3
<1>6. <<s, n>> \notin Frames(q, Streams)
  <2>1. ~ (n \in 1..Len(q[s]))
    BY <1>1, <1>2, LenProperties
  <2>2. ASSUME <<s, n>> \in Frames(q, Streams) PROVE n \in 1..Len(q[s])
    <3>1. PICK t \in Streams : \E i \in 1..Len(q[t]) : <<s, n>> = <<t, i>>
      BY <1>q, <2>2
    <3> QED
      BY <3>1
  <2> QED
    BY <2>1, <2>2
<1>7. IsFiniteSet(Frames(q, Streams)) /\ Cardinality(Frames(q, Streams)) \in Nat
  BY FramesFinite
<1>8. CASE e = "data"
  BY <1>2, <1>5, <1>6, <1>7, <1>8, FS_AddElement
<1>9. CASE e # "data"
  <2>1. Frames(r, Streams) = Frames(q, Streams)
    BY <1>5, <1>9
  <2> QED
    BY <1>2, <1>7, <1>9, <2>1
<1> QED
  BY <1>8, <1>9

\* One that is taken counts no more.
LEMMA FrameTaken ==
    ASSUME NEW q \in [Streams -> Seq(Events)], NEW s \in Streams, q[s] # <<>>,
           NEW r, r = [q EXCEPT ![s] = Tail(q[s])]
    PROVE  /\ r \in [Streams -> Seq(Events)]
           /\ Cardinality(Frames(r, Streams)) =
                Cardinality(Frames(q, Streams)) - (IF Head(q[s]) = "data" THEN 1 ELSE 0)
<1>1. /\ q[s] \in Seq(Events) /\ Len(q[s]) \in Nat \ {0} /\ Head(q[s]) = q[s][1]
      /\ Tail(q[s]) \in Seq(Events) /\ Len(Tail(q[s])) = Len(q[s]) - 1
      /\ \A i \in 1..Len(Tail(q[s])) : Tail(q[s])[i] = q[s][i + 1]
  BY HeadTailProperties, EmptySeq, LenProperties
<1>2. /\ r \in [Streams -> Seq(Events)] /\ \A t \in Streams \ {s} : r[t] = q[t]
      /\ r[s] = Tail(q[s])
  BY <1>1
<1>q. \A p : p \in Frames(q, Streams) <=>
          \E t \in Streams : \E i \in 1..Len(q[t]) : q[t][i] = "data" /\ p = <<t, i>>
  <2>1. Streams \in SUBSET Streams
    OBVIOUS
  <2> QED
    BY <2>1, FramesAre
<1>r. \A p : p \in Frames(r, Streams) <=>
          \E t \in Streams : \E i \in 1..Len(r[t]) : r[t][i] = "data" /\ p = <<t, i>>
  BY <1>2, FramesAre
<1>3. PICK G : G = Frames(q, Streams) \ {<<s, 1>>}
  OBVIOUS
<1>4. <<s, 1>> \in Frames(q, Streams) <=> Head(q[s]) = "data"
  <2>1. 1 \in 1..Len(q[s])
    BY <1>1
  <2>2. ASSUME <<s, 1>> \in Frames(q, Streams) PROVE q[s][1] = "data"
    <3>1. PICK t \in Streams : \E i \in 1..Len(q[t]) : q[t][i] = "data" /\ <<s, 1>> = <<t, i>>
      BY <1>q, <2>2
    <3> QED
      BY <3>1
  <2> QED
    BY <1>1, <2>1, <2>2, <1>q, <1>r
<1>5. IsFiniteSet(G) /\ Cardinality(G) = Cardinality(Frames(q, Streams)) - (IF Head(q[s]) = "data" THEN 1 ELSE 0)
  <2>1. IsFiniteSet(Frames(q, Streams)) /\ Cardinality(Frames(q, Streams)) \in Nat
    BY FramesFinite
  <2>2. IsFiniteSet(G)
    BY <1>3, <2>1, FS_RemoveElement
  <2>3. CASE Head(q[s]) = "data"
    BY <1>3, <1>4, <2>1, <2>2, <2>3, FS_RemoveElement
  <2>4. CASE Head(q[s]) # "data"
    <3>1. G = Frames(q, Streams)
      BY <1>3, <1>4, <2>4
    <3> QED
      BY <2>1, <2>4, <3>1
  <2> QED
    BY <2>3, <2>4
<1>6. PICK f : f = [p \in G |-> IF p[1] = s THEN <<s, p[2] - 1>> ELSE p]
  OBVIOUS
<1>7. ASSUME NEW p \in G
      PROVE  \/ \E i \in 2..Len(q[s]) : q[s][i] = "data" /\ p = <<s, i>> /\ f[p] = <<s, i - 1>>
             \/ \E t \in Streams \ {s} : \E i \in 1..Len(q[t]) : q[t][i] = "data" /\ p = <<t, i>> /\ f[p] = <<t, i>>
  <2>0. PICK t \in Streams : \E i \in 1..Len(q[t]) : q[t][i] = "data" /\ p = <<t, i>>
    BY <1>3, <1>q, <1>r
  <2>1. PICK i \in 1..Len(q[t]) : q[t][i] = "data" /\ p = <<t, i>>
    BY <2>0
  <2>2. p[1] = t /\ p[2] = i /\ f[p] = IF t = s THEN <<s, i - 1>> ELSE p
    BY <1>6, <2>1
  <2>3. CASE t = s
    <3>1. i # 1 /\ i \in 2..Len(q[s])
      BY <1>1, <1>3, <2>1, <2>3
    <3> QED
      BY <2>1, <2>2, <2>3, <3>1
  <2>4. CASE t # s
    BY <2>1, <2>2, <2>4
  <2> QED
    BY <2>3, <2>4
<1>8. \A p \in G : f[p] \in Frames(r, Streams)
  <2> TAKE p \in G
  <2>1. CASE \E i \in 2..Len(q[s]) : q[s][i] = "data" /\ p = <<s, i>> /\ f[p] = <<s, i - 1>>
    <3>1. PICK i \in 2..Len(q[s]) : q[s][i] = "data" /\ f[p] = <<s, i - 1>>
      BY <2>1
    <3>2. PICK j : j = i - 1
      OBVIOUS
    <3>3. j \in 1..Len(r[s]) /\ i = j + 1
      BY <1>1, <1>2, <3>1, <3>2
    <3>4. r[s][j] = "data"
      BY <1>1, <1>2, <3>1, <3>3
    <3> QED
      BY <1>2, <3>1, <3>2, <3>3, <3>4, <1>q, <1>r
  <2>2. CASE \E t \in Streams \ {s} : \E i \in 1..Len(q[t]) : q[t][i] = "data" /\ p = <<t, i>> /\ f[p] = <<t, i>>
    <3>1. PICK t \in Streams \ {s} : \E i \in 1..Len(q[t]) : q[t][i] = "data" /\ f[p] = <<t, i>>
      BY <2>2
    <3>2. PICK i \in 1..Len(q[t]) : q[t][i] = "data" /\ f[p] = <<t, i>>
      BY <3>1
    <3>3. t \in Streams /\ i \in 1..Len(r[t]) /\ r[t][i] = "data"
      BY <1>2, <3>2
    <3> QED
      BY <1>r, <3>2, <3>3
  <2> QED
    BY <1>7, <2>1, <2>2
<1>9. \A p, o \in G : f[p] = f[o] => p = o
  <2> SUFFICES ASSUME NEW p \in G, NEW o \in G, f[p] = f[o] PROVE p = o
    OBVIOUS
  <2>1. PICK t \in Streams, i \in Nat : p = <<t, i>> /\ f[p] = <<t, IF t = s THEN i - 1 ELSE i>>
    BY <1>1, <1>7
  <2>2. PICK u \in Streams, j \in Nat : o = <<u, j>> /\ f[o] = <<u, IF u = s THEN j - 1 ELSE j>>
    BY <1>1, <1>7
  <2>3. t = u /\ (IF t = s THEN i - 1 ELSE i) = (IF u = s THEN j - 1 ELSE j)
    BY <2>1, <2>2
  <2> QED
    BY <2>1, <2>2, <2>3
<1>10. \A o \in Frames(r, Streams) : \E p \in G : f[p] = o
  <2> TAKE o \in Frames(r, Streams)
  <2>0. PICK t \in Streams : \E j \in 1..Len(r[t]) : r[t][j] = "data" /\ o = <<t, j>>
    BY <1>2, <1>q, <1>r
  <2>1. PICK j \in 1..Len(r[t]) : r[t][j] = "data" /\ o = <<t, j>>
    BY <2>0
  <2>2. CASE t # s
    <3>1. j \in 1..Len(q[t]) /\ q[t][j] = "data"
      BY <1>2, <2>1, <2>2
    <3>2. o \in G
      BY <1>3, <2>1, <2>2, <3>1, <1>q, <1>r
    <3> QED
      BY <1>6, <2>1, <2>2, <3>2
  <2>3. CASE t = s
    <3>1. PICK i : i = j + 1
      OBVIOUS
    <3>2. i \in 1..Len(q[s]) /\ i # 1 /\ i - 1 = j
      BY <1>1, <1>2, <2>1, <2>3, <3>1
    <3>3. q[s][i] = "data"
      BY <1>1, <1>2, <2>1, <2>3, <3>1
    <3>4. <<s, i>> \in G
      BY <1>3, <3>2, <3>3, <1>q, <1>r
    <3>5. PICK p : p = <<s, i>>
      OBVIOUS
    <3>6. f[p] = <<s, j>>
      BY <1>6, <3>2, <3>4, <3>5
    <3> QED
      BY <2>1, <2>3, <3>4, <3>5, <3>6
  <2> QED
    BY <2>2, <2>3
<1>11. f \in [G -> Frames(r, Streams)]
  BY <1>6, <1>8
<1>12. f \in Bijection(G, Frames(r, Streams))
  <2>1. f \in Injection(G, Frames(r, Streams))
    BY <1>9, <1>11 DEF Injection, IsInjective
  <2>2. f \in Surjection(G, Frames(r, Streams))
    BY <1>10, <1>11 DEF Surjection
  <2> QED
    BY <2>1, <2>2 DEF Bijection
<1>13. Cardinality(Frames(r, Streams)) = Cardinality(G)
  <2>1. ExistsBijection(G, Frames(r, Streams))
    BY <1>12 DEF ExistsBijection
  <2> QED
    BY <1>5, <2>1, FS_Bijection
<1> QED
  BY <1>2, <1>5, <1>13

\* The frames of the queues that are discarded are those that are credited.
LEMMA FramesDiscarded ==
    ASSUME NEW q \in [Streams -> Seq(Events)], NEW S \in SUBSET Streams
    PROVE  /\ Emptied(q, S) \in [Streams -> Seq(Events)]
           /\ Cardinality(Frames(Emptied(q, S), Streams)) = Cardinality(Frames(q, Streams)) - Cardinality(Frames(q, S))
           /\ Cardinality(Frames(q, S)) \in Nat
<1>1. PICK r : r = Emptied(q, S)
  OBVIOUS
<1>2. <<>> \in Seq(Events) /\ Len(<<>>) = 0
  OBVIOUS
<1>3. r \in [Streams -> Seq(Events)] /\ \A s \in Streams : r[s] = IF s \in S THEN <<>> ELSE q[s]
  BY <1>1, <1>2 DEF Emptied
<1>4. Frames(r, Streams) = Frames(q, Streams) \ Frames(q, S)
  <2>1. ASSUME NEW p \in Frames(r, Streams) PROVE p \in Frames(q, Streams) /\ p \notin Frames(q, S)
    <3>0. PICK s \in Streams : \E i \in 1..Len(r[s]) : r[s][i] = "data" /\ p = <<s, i>>
      BY <1>3, FramesAre
    <3>1. PICK i \in 1..Len(r[s]) : r[s][i] = "data" /\ p = <<s, i>>
      BY <3>0
    <3>2. s \notin S /\ r[s] = q[s]
      BY <1>2, <1>3, <3>1
    <3>3. p \in Frames(q, Streams)
      BY <3>1, <3>2, FramesAre
    <3>4. p \notin Frames(q, S)
      BY <3>1, <3>2, FramesAre
    <3> QED
      BY <3>3, <3>4
  <2>2. ASSUME NEW p \in Frames(q, Streams), p \notin Frames(q, S) PROVE p \in Frames(r, Streams)
    <3>0. PICK s \in Streams : \E i \in 1..Len(q[s]) : q[s][i] = "data" /\ p = <<s, i>>
      BY FramesAre
    <3>1. PICK i \in 1..Len(q[s]) : q[s][i] = "data" /\ p = <<s, i>>
      BY <3>0
    <3>2. s \notin S
      BY <2>2, <3>1, FramesAre
    <3> QED
      BY <1>3, <3>1, <3>2, FramesAre
  <2> QED
    BY <2>1, <2>2
<1>5. Frames(q, Streams) \cap Frames(q, S) = Frames(q, S)
  BY FramesAre
<1>6. IsFiniteSet(Frames(q, Streams))
  BY FramesFinite
<1>7. Cardinality(Frames(r, Streams)) = Cardinality(Frames(q, Streams)) - Cardinality(Frames(q, S))
  BY <1>4, <1>5, <1>6, FS_Difference
<1>8. Cardinality(Frames(q, S)) \in Nat
  BY FramesFinite
<1> QED
  BY <1>1, <1>3, <1>7, <1>8

LEMMA NoFrames ==
    ASSUME NEW q \in [Streams -> Seq(Events)], \A s \in Streams : q[s] = <<>>
    PROVE  Cardinality(Frames(q, Streams)) = 0
<1>1. Frames(q, Streams) = {}
  <2>1. \A s \in Streams : ~ \E i \in 1..Len(q[s]) : TRUE
    OBVIOUS
  <2> QED
    BY <2>1, FramesAre
<1> QED
  BY <1>1, FS_EmptySet

\* The response of an exchange, as the origin and the pump move it on.
LEMMA WholeWhenSent ==
    ASSUME NEW read \in Seq(Events), NEW line \in Seq(Events), NEW all \in Seq(Events),
           NEW hand \in {0, 1}, NEW e \in Events, Whole(read, hand, line, all)
    PROVE  Whole(read, hand, Append(line, e), Append(all, e))
<1>1. PICK L, A : L = Append(line, e) /\ A = Append(all, e)
  OBVIOUS
<1>2. /\ L \in Seq(Events) /\ Len(L) = Len(line) + 1 /\ L[Len(line) + 1] = e /\ \A i \in 1..Len(line) : L[i] = line[i]
      /\ A \in Seq(Events) /\ Len(A) = Len(all) + 1 /\ A[Len(all) + 1] = e /\ \A i \in 1..Len(all) : A[i] = all[i]
  BY <1>1, AppendProperties
<1>3. Len(read) \in Nat /\ Len(line) \in Nat /\ Len(all) = Len(read) + hand + Len(line)
  BY DEF Whole
<1>4. \A i \in 1..Len(read) : read[i] = A[i]
  BY <1>2, <1>3 DEF Whole
<1>5. hand = 1 => A[Len(read) + 1] = "data"
  BY <1>2, <1>3 DEF Whole
<1>6. ASSUME NEW i \in 1..Len(L) PROVE L[i] = A[Len(read) + hand + i]
  <2>1. CASE i = Len(line) + 1
    <3>1. Len(read) + hand + i = Len(all) + 1
      BY <1>3, <2>1
    <3> QED
      BY <1>2, <2>1, <3>1
  <2>2. CASE i # Len(line) + 1
    <3>1. i \in 1..Len(line) /\ Len(read) + hand + i \in 1..Len(all)
      BY <1>2, <1>3, <2>2
    <3> QED
      BY <1>2, <3>1 DEF Whole
  <2> QED
    BY <2>1, <2>2
<1>7. Len(A) = Len(read) + hand + Len(L)
  BY <1>2, <1>3
<1> QED
  BY <1>1, <1>4, <1>5, <1>6, <1>7 DEF Whole

LEMMA WholeWhenTaken ==
    ASSUME NEW read \in Seq(Events), NEW line \in Seq(Events), NEW all \in Seq(Events), line # <<>>,
           Whole(read, 0, line, all)
    PROVE  /\ Head(line) = "data" => Whole(read, 1, Tail(line), all)
           /\ Whole(Append(read, Head(line)), 0, Tail(line), all)
           /\ Head(line) = all[Len(read) + 1] /\ Len(read) + 1 \in 1..Len(all)
<1>1. PICK L, R : L = Tail(line) /\ R = Append(read, Head(line))
  OBVIOUS
<1>2. /\ Len(read) \in Nat /\ Len(line) \in Nat \ {0} /\ Len(all) = Len(read) + Len(line) /\ Len(L) = Len(line) - 1
      /\ Head(line) = line[1] /\ Head(line) \in Events /\ \A i \in 1..Len(L) : L[i] = line[i + 1]
  BY <1>1, HeadTailProperties, EmptySeq, LenProperties DEF Whole
<1>3. /\ Len(R) = Len(read) + 1 /\ R[Len(read) + 1] = line[1] /\ \A i \in 1..Len(read) : R[i] = read[i]
  BY <1>1, <1>2, AppendProperties
<1>4. line[1] = all[Len(read) + 1]
  BY <1>2 DEF Whole
<1>5. \A i \in 1..Len(L) : L[i] = all[Len(read) + 1 + i]
  <2> TAKE i \in 1..Len(L)
  <2>1. i + 1 \in 1..Len(line) /\ Len(read) + 0 + (i + 1) = Len(read) + 1 + i
    BY <1>2
  <2> QED
    BY <1>2, <2>1 DEF Whole
<1>a. \A i \in 1..Len(read) : read[i] = all[i]
  BY DEF Whole
<1>6. \A i \in 1..Len(R) : R[i] = all[i]
  BY <1>2, <1>3, <1>4, <1>a
<1>7. Head(line) = "data" => Whole(read, 1, L, all)
  BY <1>2, <1>4, <1>5 DEF Whole
<1>8. Whole(R, 0, L, all)
  <2>1. Len(all) = Len(R) + 0 + Len(L)
    BY <1>2, <1>3
  <2>2. \A i \in 1..Len(L) : L[i] = all[Len(R) + 0 + i]
    <3>1. Len(R) + 0 = Len(read) + 1
      BY <1>2, <1>3
    <3> QED
      BY <1>5, <3>1
  <2>3. ~ (0 = 1)
    OBVIOUS
  <2> QED
    BY <1>6, <2>1, <2>2, <2>3 DEF Whole
<1> QED
  BY <1>1, <1>2, <1>4, <1>7, <1>8

LEMMA WholeWhenWritten ==
    ASSUME NEW read \in Seq(Events), NEW line \in Seq(Events), NEW all \in Seq(Events),
           Whole(read, 1, line, all)
    PROVE  Whole(Append(read, "data"), 0, line, all)
<1>1. PICK R : R = Append(read, "data")
  OBVIOUS
<1>2. "data" \in Events
  BY DEF Events
<1>3. /\ Len(R) = Len(read) + 1 /\ R[Len(read) + 1] = "data" /\ \A i \in 1..Len(read) : R[i] = read[i]
      /\ Len(read) \in Nat /\ Len(line) \in Nat
  BY <1>1, <1>2, AppendProperties, LenProperties
<1>4. \A i \in 1..Len(R) : R[i] = all[i]
  BY <1>3 DEF Whole
<1>5. Len(all) = Len(R) + 0 + Len(line) /\ \A i \in 1..Len(line) : line[i] = all[Len(R) + 0 + i]
  BY <1>3 DEF Whole
<1> QED
  BY <1>1, <1>4, <1>5 DEF Whole

LEMMA WholeBegins ==
    ASSUME NEW read \in Seq(Events), NEW line \in Seq(Events), NEW all \in Seq(Events),
           NEW hand \in {0, 1}, Whole(read, hand, line, all)
    PROVE  Begins(read, all)
<1>1. Len(read) \in Nat /\ Len(line) \in Nat
  OBVIOUS
<1> QED
  BY <1>1 DEF Whole, Begins

LEMMA BeginsWhenSent ==
    ASSUME NEW read \in Seq(Events), NEW all \in Seq(Events), NEW e \in Events, Begins(read, all)
    PROVE  Begins(read, Append(all, e))
<1>1. PICK A : A = Append(all, e)
  OBVIOUS
<1>2. Len(A) = Len(all) + 1 /\ \A i \in 1..Len(all) : A[i] = all[i]
  BY <1>1, AppendProperties
<1>3. Len(read) \in Nat /\ Len(all) \in Nat
  OBVIOUS
<1> QED
  BY <1>1, <1>2, <1>3 DEF Begins

\* The counts are numbers.
LEMMA Counted ==
    ASSUME NEW x \in [Streams -> ExchangeRecords]
    PROVE  /\ IsFiniteSet({s \in Streams : x[s].up = "data"}) /\ IsFiniteSet({s \in Streams : x[s].down = "data"})
           /\ Cardinality({s \in Streams : x[s].up = "data"}) \in Nat
           /\ Cardinality({s \in Streams : x[s].down = "data"}) \in Nat
<1>1. {s \in Streams : x[s].up = "data"} \in SUBSET Streams /\ {s \in Streams : x[s].down = "data"} \in SUBSET Streams
  OBVIOUS
<1> QED
  BY <1>1, StreamsAssumption, FS_Subset, FS_CardinalityType

\* What does not touch an exchange keeps the invariant.
LEMMA ExchangesStand ==
    ASSUME Http2Inv, ExchangesInv, UNCHANGED <<ex, queues, routes, wire, drain, closing, closed, sent>>,
           guest' \in [Streams -> GuestRecords], \A s \in Streams : guest'[s].down = guest[s].down,
           graceful' \in BOOLEAN, graceful' => graceful \/ (drain /\ Active = {})
    PROVE  ExchangesInv'
<1>a. UNCHANGED <<ex, incoming, outgoing, held, routes, wire, drain, closing, closed, sent>>
  BY DEF queues
<1>1. QueuesTyped' /\ SidesTyped'
  BY <1>a DEF ExchangesInv, QueuesTyped, SidesTyped
<1>2. EndedIsEmpty' /\ IdsAreOwn' /\ RoutesAreOwn'
  BY <1>a DEF ExchangesInv, EndedIsEmpty, IdsAreOwn, RoutesAreOwn, Open, Mapped
<1>3. ResponseKept' /\ HeadsFirst' /\ SocketsWait'
  BY <1>a DEF ExchangesInv, ResponseKept, HeadsFirst, SocketsWait, Open, Mapped, Hand
<1>4. EndsWhole'
  <2>1. Active' = Active
    BY <1>a DEF Active, Open
  <2> QED
    BY <1>a, <2>1 DEF ExchangesInv, EndsWhole
<1>5. Balanced'
  BY <1>a DEF ExchangesInv, Balanced, Uploaders, Readers
<1> QED
  BY <1>1, <1>2, <1>3, <1>4, <1>5 DEF ExchangesInv

\* Cancelling marks exchanges and discards what is queued for them.
LEMMA CancelKeeps ==
    ASSUME Http2Inv, ExchangesInv, NEW S \in SUBSET Streams, CancelExchanges(S),
           UNCHANGED <<routes, wire, sent, graceful, closed>>, drain => drain',
           closing => closing', closing' \in BOOLEAN
    PROVE  ExchangesInv'
<1>t. /\ ex \in [Streams -> ExchangeRecords] /\ guest \in [Streams -> GuestRecords]
      /\ incoming \in [Streams -> Seq(Events)] /\ outgoing \in [Streams -> Seq(Events)] /\ held \in [Legs -> Int]
  BY DEF Http2Inv, Http2Typed, ExchangesInv, QueuesTyped, SidesTyped
<1>e. \A s \in Streams :
          /\ ex'[s].pc = ex[s].pc /\ ex'[s].kind = ex[s].kind /\ ex'[s].id = ex[s].id
          /\ ex'[s].up = ex[s].up /\ ex'[s].down = ex[s].down
          /\ ex'[s].cancelled => ex[s].cancelled \/ s \in S
          /\ ex[s].cancelled => ex'[s].cancelled
  <2>1. \A s \in Streams : ex'[s] = IF s \in S THEN [ex[s] EXCEPT !.cancelled = TRUE] ELSE ex[s]
    BY DEF CancelExchanges
  <2> QED
    BY <1>t, <2>1 DEF ExchangeRecords
<1>g. guest' \in [Streams -> GuestRecords] /\ \A s \in Streams : guest'[s].down = guest[s].down
  <2>1. guest' = [s \in Streams |-> IF s \in S THEN [guest[s] EXCEPT !.reset = TRUE] ELSE guest[s]]
    BY DEF CancelExchanges
  <2>2. \A s \in Streams : [guest[s] EXCEPT !.reset = TRUE] \in GuestRecords
                           /\ [guest[s] EXCEPT !.reset = TRUE].down = guest[s].down
    BY <1>t DEF GuestRecords
  <2> QED
    BY <1>t, <2>1, <2>2
<1>q. /\ incoming' = Emptied(incoming, S) /\ outgoing' = Emptied(outgoing, S)
      /\ \A s \in Streams : incoming'[s] = IF s \in S THEN <<>> ELSE incoming[s]
      /\ \A s \in Streams : outgoing'[s] = IF s \in S THEN <<>> ELSE outgoing[s]
  BY DEF CancelExchanges, Emptied
<1>h. /\ held' \in [Legs -> Int]
      /\ held'["front"] = held["front"] - Cardinality(Frames(incoming, S))
      /\ held'["origin"] = held["origin"] - Cardinality(Frames(outgoing, S))
  <2>1. held' = [l \in Legs |-> held[l] - Cardinality(Frames(Queue(l), S))]
    BY DEF CancelExchanges, Discarded
  <2>2. Queue("front") = incoming /\ Queue("origin") = outgoing /\ Legs = {"front", "origin"}
    BY DEF Queue, Legs
  <2>3. Cardinality(Frames(incoming, S)) \in Nat /\ Cardinality(Frames(outgoing, S)) \in Nat
    BY <1>t, FramesDiscarded
  <2>4. held["front"] \in Int /\ held["origin"] \in Int
    BY <1>t, <2>2
  <2> QED
    BY <2>1, <2>2, <2>3, <2>4
<1>1. QueuesTyped' /\ SidesTyped'
  BY <1>t, <1>g, <1>h, <1>q, FramesDiscarded DEF ExchangesInv, QueuesTyped, SidesTyped
<1>2. EndedIsEmpty'
  BY <1>e, <1>q DEF ExchangesInv, EndedIsEmpty, Open
<1>3. IdsAreOwn'
  BY <1>e DEF ExchangesInv, IdsAreOwn, Mapped
<1>4. RoutesAreOwn'
  BY <1>e DEF ExchangesInv, RoutesAreOwn, Mapped, Open
<1>5. ResponseKept'
  <2> SUFFICES ASSUME NEW s \in Streams
               PROVE  /\ Mapped(s)' /\ Open(s)' /\ ~ex'[s].cancelled =>
                             Whole(guest'[s].down, Hand(s)', outgoing'[s], sent'[ex'[s].id])
                      /\ Mapped(s)' => Begins(guest'[s].down, sent'[ex'[s].id])
                      /\ ~Mapped(s)' => guest'[s].down = <<>> /\ outgoing'[s] = <<>> /\ ex'[s].down # "data"
    BY DEF ResponseKept
  <2>1. Mapped(s)' = Mapped(s) /\ Open(s)' = Open(s) /\ Hand(s)' = Hand(s)
    BY <1>e DEF Mapped, Open, Hand
  <2>2. ~ex'[s].cancelled => ~ex[s].cancelled /\ outgoing'[s] = outgoing[s]
    <3>1. s \in S => ex'[s].cancelled
      BY <1>t DEF CancelExchanges, ExchangeRecords
    <3> QED
      BY <1>e, <1>q, <3>1
  <2>3. sent'[ex'[s].id] = sent[ex[s].id] /\ guest'[s].down = guest[s].down /\ ex'[s].down = ex[s].down
    BY <1>e, <1>g
  <2> QED
    BY <1>q, <2>1, <2>2, <2>3 DEF ExchangesInv, ResponseKept
<1>6. HeadsFirst' /\ SocketsWait'
  BY <1>e, <1>g DEF ExchangesInv, HeadsFirst, SocketsWait
<1>7. EndsWhole'
  <2>1. Active' = Active
    BY <1>e DEF Active, Open
  <2> QED
    BY <2>1 DEF ExchangesInv, EndsWhole
<1>8. Balanced'
  <2>1. Uploaders' = Uploaders /\ Readers' = Readers
    BY <1>e DEF Uploaders, Readers
  <2>2. Cardinality(Uploaders) \in Nat /\ Cardinality(Readers) \in Nat
    BY <1>t, Counted DEF Uploaders, Readers
  <2>3. /\ Cardinality(Frames(incoming', Streams)) = Cardinality(Frames(incoming, Streams)) - Cardinality(Frames(incoming, S))
        /\ Cardinality(Frames(outgoing', Streams)) = Cardinality(Frames(outgoing, Streams)) - Cardinality(Frames(outgoing, S))
        /\ Cardinality(Frames(incoming, S)) \in Nat /\ Cardinality(Frames(outgoing, S)) \in Nat
    BY <1>t, <1>q, FramesDiscarded
  <2>4. Cardinality(Frames(incoming, Streams)) \in Nat /\ Cardinality(Frames(outgoing, Streams)) \in Nat
    BY <1>t, FramesFinite
  <2> QED
    BY <1>h, <2>1, <2>2, <2>3, <2>4 DEF ExchangesInv, Balanced
<1> QED
  BY <1>1, <1>2, <1>3, <1>4, <1>5, <1>6, <1>7, <1>8 DEF ExchangesInv

\* Retiring an exchange takes its route and what it held.
LEMMA RetiredKeeps ==
    ASSUME Http2Inv, ExchangesInv, NEW s \in Streams, Open(s), NEW b, Retire(s, b)
    PROVE  ExchangesInv'
<1>t. /\ ex \in [Streams -> ExchangeRecords] /\ guest \in [Streams -> GuestRecords] /\ drain \in BOOLEAN
      /\ incoming \in [Streams -> Seq(Events)] /\ outgoing \in [Streams -> Seq(Events)] /\ held \in [Legs -> Int]
      /\ graceful \in BOOLEAN
  BY DEF Http2Inv, Http2Typed, ExchangesInv, QueuesTyped, SidesTyped
<1>u. UNCHANGED <<wire, drain, closing, closed, sent>> /\ routes' = {r \in routes : r[2] # s}
  BY DEF Retire
<1>e. /\ \A t \in Streams \ {s} : ex'[t] = ex[t]
      /\ ex'[s].pc = "retired" /\ ex'[s].kind = ex[s].kind /\ ex'[s].id = ex[s].id
      /\ ex'[s].up = "done" /\ ex'[s].down = "done"
  <2>1. PICK e : e = [ex[s] EXCEPT !.pc = "retired", !.up = "done", !.down = "done"]
    OBVIOUS
  <2>2. ex' = [ex EXCEPT ![s] = e]
    BY <2>1 DEF Retire
  <2>3. e.pc = "retired" /\ e.kind = ex[s].kind /\ e.id = ex[s].id /\ e.up = "done" /\ e.down = "done"
    BY <1>t, <2>1 DEF ExchangeRecords
  <2> QED
    BY <1>t, <2>2, <2>3
<1>g. guest' \in [Streams -> GuestRecords] /\ \A t \in Streams : guest'[t].down = guest[t].down
  <2>1. [guest[s] EXCEPT !.reset = TRUE] \in GuestRecords /\ [guest[s] EXCEPT !.reset = TRUE].down = guest[s].down
    BY <1>t DEF GuestRecords
  <2>2. guest' = guest \/ guest' = [guest EXCEPT ![s] = [guest[s] EXCEPT !.reset = TRUE]]
    BY <1>t DEF Retire
  <2> QED
    BY <1>t, <2>1, <2>2
<1>q. /\ incoming' = Emptied(incoming, {s}) /\ outgoing' = Emptied(outgoing, {s})
      /\ \A t \in Streams : incoming'[t] = IF t = s THEN <<>> ELSE incoming[t]
      /\ \A t \in Streams : outgoing'[t] = IF t = s THEN <<>> ELSE outgoing[t]
  BY DEF Retire, Emptied
<1>h. /\ held' \in [Legs -> Int]
      /\ held'["front"] = held["front"] - Cardinality(Frames(incoming, {s})) - (IF ex[s].up = "data" THEN 1 ELSE 0)
      /\ held'["origin"] = held["origin"] - Cardinality(Frames(outgoing, {s})) - (IF ex[s].down = "data" THEN 1 ELSE 0)
  <2>1. held' = [l \in Legs |-> Discarded({s})[l] - InHand(s, l)]
    BY DEF Retire, Released
  <2>2. Queue("front") = incoming /\ Queue("origin") = outgoing /\ Legs = {"front", "origin"}
    BY DEF Queue, Legs
  <2>3. Cardinality(Frames(incoming, {s})) \in Nat /\ Cardinality(Frames(outgoing, {s})) \in Nat
    <3>1. {s} \in SUBSET Streams
      OBVIOUS
    <3> QED
      BY <1>t, <3>1, FramesDiscarded
  <2>4. held["front"] \in Int /\ held["origin"] \in Int
    BY <1>t, <2>2
  <2>5. /\ Discarded({s})["front"] = held["front"] - Cardinality(Frames(incoming, {s}))
        /\ Discarded({s})["origin"] = held["origin"] - Cardinality(Frames(outgoing, {s}))
    BY <2>2 DEF Discarded
  <2>6. /\ InHand(s, "front") = (IF ex[s].up = "data" THEN 1 ELSE 0)
        /\ InHand(s, "origin") = (IF ex[s].down = "data" THEN 1 ELSE 0)
    BY DEF InHand, Holds
  <2> QED
    BY <2>1, <2>2, <2>3, <2>4, <2>5, <2>6
<1>a. Active' = Active \ {s}
  BY <1>e DEF Active, Open
<1>1. QueuesTyped' /\ SidesTyped'
  <2>1. {s} \in SUBSET Streams
    OBVIOUS
  <2>2. incoming' \in [Streams -> Seq(Events)] /\ outgoing' \in [Streams -> Seq(Events)]
    BY <1>t, <1>q, <2>1, FramesDiscarded
  <2>3. graceful' \in BOOLEAN
    BY <1>t DEF Retire
  <2> QED
    BY <1>u, <1>g, <1>h, <2>2, <2>3 DEF ExchangesInv, QueuesTyped, SidesTyped
<1>2. EndedIsEmpty'
  BY <1>e, <1>q DEF ExchangesInv, EndedIsEmpty, Open
<1>3. IdsAreOwn'
  BY <1>e, <1>u DEF ExchangesInv, IdsAreOwn, Mapped
<1>4. RoutesAreOwn'
  BY <1>e, <1>u DEF ExchangesInv, RoutesAreOwn, Mapped, Open
<1>5. ResponseKept'
  <2> SUFFICES ASSUME NEW t \in Streams
               PROVE  /\ Mapped(t)' /\ Open(t)' /\ ~ex'[t].cancelled =>
                             Whole(guest'[t].down, Hand(t)', outgoing'[t], sent'[ex'[t].id])
                      /\ Mapped(t)' => Begins(guest'[t].down, sent'[ex'[t].id])
                      /\ ~Mapped(t)' => guest'[t].down = <<>> /\ outgoing'[t] = <<>> /\ ex'[t].down # "data"
    BY DEF ResponseKept
  <2>1. CASE t # s
    BY <1>e, <1>g, <1>q, <1>u, <2>1 DEF ExchangesInv, ResponseKept, Mapped, Open, Hand
  <2>2. CASE t = s
    BY <1>e, <1>g, <1>q, <1>u, <2>2 DEF ExchangesInv, ResponseKept, Mapped, Open, Hand
  <2> QED
    BY <2>1, <2>2
<1>6. HeadsFirst' /\ SocketsWait'
  BY <1>e, <1>g, <1>u DEF ExchangesInv, HeadsFirst, SocketsWait
<1>7. EndsWhole'
  <2>1. graceful' => graceful \/ (drain /\ Active = {s})
    BY DEF Retire
  <2> QED
    BY <1>a, <1>u, <2>1 DEF ExchangesInv, EndsWhole
<1>8. Balanced'
  <2>1. Uploaders' = Uploaders \ {s} /\ Readers' = Readers \ {s}
    BY <1>e DEF Uploaders, Readers
  <2>2. /\ IsFiniteSet(Uploaders) /\ IsFiniteSet(Readers)
        /\ Cardinality(Uploaders) \in Nat /\ Cardinality(Readers) \in Nat
    BY <1>t, Counted DEF Uploaders, Readers
  <2>3. /\ Cardinality(Uploaders') = Cardinality(Uploaders) - (IF ex[s].up = "data" THEN 1 ELSE 0)
        /\ Cardinality(Readers') = Cardinality(Readers) - (IF ex[s].down = "data" THEN 1 ELSE 0)
    <3>1. (s \in Uploaders <=> ex[s].up = "data") /\ (s \in Readers <=> ex[s].down = "data")
      BY DEF Uploaders, Readers
    <3>2. /\ Cardinality(Uploaders \ {s}) = IF s \in Uploaders THEN Cardinality(Uploaders) - 1 ELSE Cardinality(Uploaders)
          /\ Cardinality(Readers \ {s}) = IF s \in Readers THEN Cardinality(Readers) - 1 ELSE Cardinality(Readers)
      BY <2>2, FS_RemoveElement
    <3> QED
      BY <2>1, <2>2, <3>1, <3>2
  <2>4. /\ Cardinality(Frames(incoming', Streams)) = Cardinality(Frames(incoming, Streams)) - Cardinality(Frames(incoming, {s}))
        /\ Cardinality(Frames(outgoing', Streams)) = Cardinality(Frames(outgoing, Streams)) - Cardinality(Frames(outgoing, {s}))
        /\ Cardinality(Frames(incoming, {s})) \in Nat /\ Cardinality(Frames(outgoing, {s})) \in Nat
    <3>1. {s} \in SUBSET Streams
      OBVIOUS
    <3> QED
      BY <1>t, <1>q, <3>1, FramesDiscarded
  <2>5. Cardinality(Frames(incoming, Streams)) \in Nat /\ Cardinality(Frames(outgoing, Streams)) \in Nat
    BY <1>t, FramesFinite
  <2> QED
    BY <1>h, <2>2, <2>3, <2>4, <2>5 DEF ExchangesInv, Balanced
<1> QED
  BY <1>1, <1>2, <1>3, <1>4, <1>5, <1>6, <1>7, <1>8 DEF ExchangesInv

\* One exchange moves, and stays open.
LEMMA OneMoves ==
    ASSUME Http2Inv, ExchangesInv, NEW s \in Streams, Open(s), ~ex[s].cancelled,
           \A t \in Streams \ {s} : /\ ex'[t] = ex[t] /\ guest'[t].down = guest[t].down
                                    /\ incoming'[t] = incoming[t] /\ outgoing'[t] = outgoing[t],
           UNCHANGED <<routes, wire, sent, drain, graceful, closing, closed>>,
           guest' \in [Streams -> GuestRecords], QueuesTyped',
           ex'[s].id = ex[s].id, ex'[s].kind = ex[s].kind, ~ex'[s].cancelled, Open(s)',
           ex'[s].pc = "open" \/ (ex'[s].pc = "created" /\ ex'[s].kind = "h2c") => Mapped(s),
           ex'[s].pc # "open" => ex'[s].up # "data" /\ ex'[s].down # "data",
           Mapped(s) => Whole(guest'[s].down, Hand(s)', outgoing'[s], sent[ex[s].id]),
           ~Mapped(s) => guest'[s].down = <<>> /\ outgoing'[s] = <<>> /\ ex'[s].down # "data",
           ex[s].kind = "ws" /\ ex'[s].up \in {"take", "data"} => guest'[s].down # <<>>,
           Balanced'
    PROVE  ExchangesInv'
<1>t. guest' \in [Streams -> GuestRecords] /\ outgoing' \in [Streams -> Seq(Events)] /\ sent \in Seq(Seq(Events))
  BY DEF ExchangesInv, QueuesTyped, SidesTyped
<1>1. SidesTyped'
  BY <1>t DEF ExchangesInv, SidesTyped
<1>2. EndedIsEmpty'
  BY DEF ExchangesInv, EndedIsEmpty, Open
<1>3. IdsAreOwn'
  BY DEF ExchangesInv, IdsAreOwn, Mapped, Open
<1>4. RoutesAreOwn'
  BY DEF ExchangesInv, RoutesAreOwn, Mapped, Open
<1>5. ResponseKept'
  <2> SUFFICES ASSUME NEW t \in Streams
               PROVE  /\ Mapped(t)' /\ Open(t)' /\ ~ex'[t].cancelled =>
                             Whole(guest'[t].down, Hand(t)', outgoing'[t], sent'[ex'[t].id])
                      /\ Mapped(t)' => Begins(guest'[t].down, sent'[ex'[t].id])
                      /\ ~Mapped(t)' => guest'[t].down = <<>> /\ outgoing'[t] = <<>> /\ ex'[t].down # "data"
    BY DEF ResponseKept
  <2>1. CASE t # s
    BY <2>1 DEF ExchangesInv, ResponseKept, Mapped, Open, Hand
  <2>2. CASE t = s
    <3>1. Mapped(s)' = Mapped(s) /\ sent'[ex'[s].id] = sent[ex[s].id]
      BY DEF Mapped
    <3>2. Mapped(s) => Begins(guest'[s].down, sent[ex[s].id])
      <4>1. Mapped(s) => sent[ex[s].id] \in Seq(Events)
        BY <1>t DEF ExchangesInv, IdsAreOwn
      <4>2. guest'[s].down \in Seq(Events) /\ outgoing'[s] \in Seq(Events)
        BY <1>t DEF GuestRecords
      <4>3. Hand(s)' \in {0, 1}
        BY DEF Hand
      <4>4. PICK read, hand, line, all : read = guest'[s].down /\ hand = Hand(s)' /\ line = outgoing'[s] /\ all = sent[ex[s].id]
        OBVIOUS
      <4> QED
        BY <4>1, <4>2, <4>3, <4>4, WholeBegins
    <3> QED
      BY <2>2, <3>1, <3>2
  <2> QED
    BY <2>1, <2>2
<1>6. HeadsFirst' /\ SocketsWait'
  BY DEF ExchangesInv, HeadsFirst, SocketsWait
<1>7. EndsWhole'
  <2>1. Active' = Active
    BY DEF Active, Open
  <2> QED
    BY <2>1 DEF ExchangesInv, EndsWhole
<1> QED
  BY <1>1, <1>2, <1>3, <1>4, <1>5, <1>6, <1>7 DEF ExchangesInv

\* How the counts move with one exchange.
LEMMA HandsMove ==
    ASSUME NEW x \in [Streams -> ExchangeRecords], NEW y \in [Streams -> ExchangeRecords], NEW s \in Streams,
           \A t \in Streams \ {s} : y[t].up = x[t].up /\ y[t].down = x[t].down
    PROVE  /\ Cardinality({t \in Streams : y[t].up = "data"}) = Cardinality({t \in Streams : x[t].up = "data"})
                + (IF y[s].up = "data" THEN 1 ELSE 0) - (IF x[s].up = "data" THEN 1 ELSE 0)
           /\ Cardinality({t \in Streams : y[t].down = "data"}) = Cardinality({t \in Streams : x[t].down = "data"})
                + (IF y[s].down = "data" THEN 1 ELSE 0) - (IF x[s].down = "data" THEN 1 ELSE 0)
<1>1. ASSUME NEW P, NEW Q, IsFiniteSet(P), P \ {s} = Q \ {s}, Cardinality(P) \in Nat
      PROVE  Cardinality(Q) = Cardinality(P) + (IF s \in Q THEN 1 ELSE 0) - (IF s \in P THEN 1 ELSE 0)
  <2>1. PICK R : R = P \ {s}
    OBVIOUS
  <2>2. IsFiniteSet(R) /\ Cardinality(R) = (IF s \in P THEN Cardinality(P) - 1 ELSE Cardinality(P))
    BY <1>1, <2>1, FS_RemoveElement
  <2>3. CASE s \in Q
    <3>1. Q = R \cup {s} /\ s \notin R
      BY <1>1, <2>1, <2>3
    <3>2. Cardinality(Q) = Cardinality(R) + 1
      BY <2>2, <3>1, FS_AddElement
    <3> QED
      BY <1>1, <2>2, <2>3, <3>2
  <2>4. CASE s \notin Q
    <3>1. Q = R
      BY <1>1, <2>1, <2>4
    <3> QED
      BY <1>1, <2>2, <2>4, <3>1
  <2> QED
    BY <2>3, <2>4
<1>2. PICK P, Q : P = {t \in Streams : x[t].up = "data"} /\ Q = {t \in Streams : y[t].up = "data"}
  OBVIOUS
<1>3. Cardinality(Q) = Cardinality(P) + (IF s \in Q THEN 1 ELSE 0) - (IF s \in P THEN 1 ELSE 0)
  <2>1. P \ {s} = Q \ {s}
    BY <1>2
  <2> QED
    BY <1>1, <1>2, <2>1, Counted
<1>4. PICK M, N : M = {t \in Streams : x[t].down = "data"} /\ N = {t \in Streams : y[t].down = "data"}
  OBVIOUS
<1>5. Cardinality(N) = Cardinality(M) + (IF s \in N THEN 1 ELSE 0) - (IF s \in M THEN 1 ELSE 0)
  <2>1. M \ {s} = N \ {s}
    BY <1>4
  <2> QED
    BY <1>1, <1>4, <2>1, Counted
<1>6. (s \in Q <=> y[s].up = "data") /\ (s \in P <=> x[s].up = "data")
      /\ (s \in N <=> y[s].down = "data") /\ (s \in M <=> x[s].down = "data")
  BY <1>2, <1>4
<1> QED
  BY <1>2, <1>3, <1>4, <1>5, <1>6

\* The typed parts of the invariant, and the numbers the balance adds.
LEMMA ExchangesTyped ==
    ASSUME Http2Inv, ExchangesInv
    PROVE  /\ ex \in [Streams -> ExchangeRecords] /\ guest \in [Streams -> GuestRecords]
           /\ incoming \in [Streams -> Seq(Events)] /\ outgoing \in [Streams -> Seq(Events)]
           /\ held \in [Legs -> Int] /\ held["front"] \in Int /\ held["origin"] \in Int
           /\ "front" \in Legs /\ "origin" \in Legs
           /\ sent \in Seq(Seq(Events)) /\ Len(sent) \in Nat /\ wire \in Seq(Nat) /\ Len(sent) = Len(wire)
           /\ Cardinality(Uploaders) \in Nat /\ Cardinality(Readers) \in Nat
           /\ Cardinality(Frames(incoming, Streams)) \in Nat /\ Cardinality(Frames(outgoing, Streams)) \in Nat
           /\ \A s \in Streams : /\ guest[s].down \in Seq(Events) /\ guest[s].up \in Seq(Events)
                                 /\ Mapped(s) => sent[ex[s].id] \in Seq(Events)
<1>1. /\ ex \in [Streams -> ExchangeRecords] /\ guest \in [Streams -> GuestRecords]
      /\ incoming \in [Streams -> Seq(Events)] /\ outgoing \in [Streams -> Seq(Events)]
      /\ held \in [Legs -> Int] /\ sent \in Seq(Seq(Events)) /\ wire \in Seq(Nat) /\ Len(sent) = Len(wire)
  BY DEF Http2Inv, Http2Typed, ExchangesInv, QueuesTyped, SidesTyped
<1>2. "front" \in Legs /\ "origin" \in Legs
  BY DEF Legs
<1>3. held["front"] \in Int /\ held["origin"] \in Int /\ Len(sent) \in Nat
  BY <1>1, <1>2
<1>4. Cardinality(Uploaders) \in Nat /\ Cardinality(Readers) \in Nat
  BY <1>1, Counted DEF Uploaders, Readers
<1>5. Cardinality(Frames(incoming, Streams)) \in Nat /\ Cardinality(Frames(outgoing, Streams)) \in Nat
  BY <1>1, FramesFinite
<1>6. \A s \in Streams : guest[s].down \in Seq(Events) /\ guest[s].up \in Seq(Events)
  BY <1>1 DEF GuestRecords
<1>7. \A s \in Streams : Mapped(s) => sent[ex[s].id] \in Seq(Events)
  <2>1. \A s \in Streams : Mapped(s) => ex[s].id \in 1..Len(sent)
    BY DEF ExchangesInv, IdsAreOwn
  <2> QED
    BY <1>1, <2>1
<1> QED
  BY <1>1, <1>2, <1>3, <1>4, <1>5, <1>6, <1>7

LEMMA UploadTakesKeeps ==
    ASSUME Http2Inv, ExchangesInv, NEW s \in Streams, UploadTakes(s), ex' \in [Streams -> ExchangeRecords]
    PROVE  ExchangesInv'
<1>t. /\ ex \in [Streams -> ExchangeRecords] /\ incoming \in [Streams -> Seq(Events)]
      /\ held["front"] \in Int /\ held["origin"] \in Int
      /\ Cardinality(Uploaders) \in Nat /\ Cardinality(Frames(incoming, Streams)) \in Nat
  BY ExchangesTyped
<1>u. /\ UNCHANGED <<outgoing, held, routes, wire, drain, graceful, closing, closed, guest, sent>>
      /\ incoming' = [incoming EXCEPT ![s] = Tail(incoming[s])] /\ incoming[s] # <<>>
      /\ ex[s].pc = "open" /\ ~ex[s].cancelled /\ ex[s].up = "take"
  BY DEF UploadTakes, Alive, shutdown
<1>e. /\ \A t \in Streams \ {s} : ex'[t] = ex[t]
      /\ ex'[s].up = IF Head(incoming[s]) = "data" THEN "data" ELSE "done"
      /\ ex'[s].pc = "open" /\ ex'[s].id = ex[s].id /\ ex'[s].kind = ex[s].kind /\ ex'[s].down = ex[s].down
      /\ ~ex'[s].cancelled
  <2>1. PICK e : e = IF Head(incoming[s]) = "data" THEN [ex[s] EXCEPT !.up = "data"]
                     ELSE [ex[s] EXCEPT !.up = "done", !.uploaded = TRUE]
    OBVIOUS
  <2>2. ex' = [ex EXCEPT ![s] = e]
    BY <2>1 DEF UploadTakes
  <2>3. /\ e.up = IF Head(incoming[s]) = "data" THEN "data" ELSE "done"
        /\ e.pc = "open" /\ e.id = ex[s].id /\ e.kind = ex[s].kind /\ e.down = ex[s].down /\ ~e.cancelled
    BY <1>t, <1>u, <2>1 DEF ExchangeRecords
  <2> QED
    BY <1>t, <2>2, <2>3
<1>1. /\ incoming' \in [Streams -> Seq(Events)]
      /\ Cardinality(Frames(incoming', Streams)) =
           Cardinality(Frames(incoming, Streams)) - (IF Head(incoming[s]) = "data" THEN 1 ELSE 0)
  <2>1. PICK r : r = [incoming EXCEPT ![s] = Tail(incoming[s])]
    OBVIOUS
  <2> QED
    BY <1>t, <1>u, <2>1, FrameTaken
<1>2. /\ Cardinality(Uploaders') = Cardinality(Uploaders) + (IF Head(incoming[s]) = "data" THEN 1 ELSE 0)
      /\ Readers' = Readers
  <2>1. \A t \in Streams \ {s} : ex'[t].up = ex[t].up /\ ex'[t].down = ex[t].down
    BY <1>e
  <2>2. Cardinality(Uploaders') = Cardinality(Uploaders)
            + (IF ex'[s].up = "data" THEN 1 ELSE 0) - (IF ex[s].up = "data" THEN 1 ELSE 0)
    BY <1>t, <2>1, HandsMove DEF Uploaders
  <2>3. Readers' = Readers
    BY <1>e DEF Readers
  <2> QED
    BY <1>t, <1>u, <1>e, <2>2, <2>3
<1>3. Balanced'
  BY <1>t, <1>u, <1>1, <1>2 DEF ExchangesInv, Balanced
<1>4. QueuesTyped'
  BY <1>u, <1>1 DEF ExchangesInv, QueuesTyped
<1>5. Open(s) /\ Open(s)' /\ Mapped(s)
  BY <1>u, <1>e DEF Open, ExchangesInv, IdsAreOwn
<1>6. Whole(guest'[s].down, Hand(s)', outgoing'[s], sent[ex[s].id])
  <2>1. Hand(s)' = Hand(s)
    BY <1>e DEF Hand
  <2> QED
    BY <1>u, <1>5, <2>1 DEF ExchangesInv, ResponseKept
<1>7. ex[s].kind = "ws" => guest'[s].down # <<>>
  BY <1>u DEF ExchangesInv, SocketsWait
<1>8. guest' \in [Streams -> GuestRecords]
  BY <1>u, ExchangesTyped
<1>9. \A t \in Streams \ {s} : /\ ex'[t] = ex[t] /\ guest'[t].down = guest[t].down
                               /\ incoming'[t] = incoming[t] /\ outgoing'[t] = outgoing[t]
  BY <1>t, <1>u, <1>e
<1> QED
  BY <1>u, <1>e, <1>3, <1>4, <1>5, <1>6, <1>7, <1>8, <1>9, OneMoves

LEMMA UploadWritesKeeps ==
    ASSUME Http2Inv, ExchangesInv, NEW s \in Streams, UploadWrites(s), ex' \in [Streams -> ExchangeRecords]
    PROVE  ExchangesInv'
<1>t. /\ ex \in [Streams -> ExchangeRecords] /\ held \in [Legs -> Int] /\ "front" \in Legs /\ "origin" \in Legs
      /\ held["front"] \in Int /\ held["origin"] \in Int
      /\ Cardinality(Uploaders) \in Nat /\ Cardinality(Frames(incoming, Streams)) \in Nat
  BY ExchangesTyped
<1>u. /\ UNCHANGED <<incoming, outgoing, routes, wire, drain, graceful, closing, closed, guest, sent>>
      /\ held' = [held EXCEPT !["front"] = held["front"] - 1]
      /\ ex[s].pc = "open" /\ ~ex[s].cancelled /\ ex[s].up = "data"
  BY DEF UploadWrites, Alive, shutdown
<1>e. /\ \A t \in Streams \ {s} : ex'[t] = ex[t]
      /\ ex'[s].up = "take"
      /\ ex'[s].pc = "open" /\ ex'[s].id = ex[s].id /\ ex'[s].kind = ex[s].kind /\ ex'[s].down = ex[s].down
      /\ ~ex'[s].cancelled
  <2>1. PICK e : e = [ex[s] EXCEPT !.up = "take"]
    OBVIOUS
  <2>2. ex' = [ex EXCEPT ![s] = e]
    BY <2>1 DEF UploadWrites
  <2>3. e.up = "take" /\ e.pc = "open" /\ e.id = ex[s].id /\ e.kind = ex[s].kind /\ e.down = ex[s].down /\ ~e.cancelled
    BY <1>t, <1>u, <2>1 DEF ExchangeRecords
  <2> QED
    BY <1>t, <2>2, <2>3
<1>1. /\ held' \in [Legs -> Int] /\ held'["front"] = held["front"] - 1 /\ held'["origin"] = held["origin"]
  BY <1>t, <1>u
<1>2. Cardinality(Uploaders') = Cardinality(Uploaders) - 1 /\ Readers' = Readers
  <2>1. \A t \in Streams \ {s} : ex'[t].up = ex[t].up /\ ex'[t].down = ex[t].down
    BY <1>e
  <2>2. Cardinality(Uploaders') = Cardinality(Uploaders)
            + (IF ex'[s].up = "data" THEN 1 ELSE 0) - (IF ex[s].up = "data" THEN 1 ELSE 0)
    BY <1>t, <2>1, HandsMove DEF Uploaders
  <2>3. Readers' = Readers
    BY <1>e DEF Readers
  <2> QED
    BY <1>t, <1>u, <1>e, <2>2, <2>3
<1>3. Balanced'
  BY <1>t, <1>u, <1>1, <1>2 DEF ExchangesInv, Balanced
<1>4. QueuesTyped'
  BY <1>u, <1>1 DEF ExchangesInv, QueuesTyped
<1>5. Open(s) /\ Open(s)' /\ Mapped(s)
  BY <1>u, <1>e DEF Open, ExchangesInv, IdsAreOwn
<1>6. Whole(guest'[s].down, Hand(s)', outgoing'[s], sent[ex[s].id])
  <2>1. Hand(s)' = Hand(s)
    BY <1>e DEF Hand
  <2> QED
    BY <1>u, <1>5, <2>1 DEF ExchangesInv, ResponseKept
<1>7. ex[s].kind = "ws" => guest'[s].down # <<>>
  BY <1>u DEF ExchangesInv, SocketsWait
<1>8. guest' \in [Streams -> GuestRecords]
  BY <1>u, ExchangesTyped
<1>9. \A t \in Streams \ {s} : /\ ex'[t] = ex[t] /\ guest'[t].down = guest[t].down
                               /\ incoming'[t] = incoming[t] /\ outgoing'[t] = outgoing[t]
  BY <1>t, <1>u, <1>e
<1> QED
  BY <1>u, <1>e, <1>3, <1>4, <1>5, <1>6, <1>7, <1>8, <1>9, OneMoves

LEMMA ResponseTakesKeeps ==
    ASSUME Http2Inv, ExchangesInv, NEW s \in Streams, ResponseTakes(s), ex' \in [Streams -> ExchangeRecords]
    PROVE  ExchangesInv'
<1>t. /\ ex \in [Streams -> ExchangeRecords] /\ held \in [Legs -> Int] /\ "front" \in Legs /\ "origin" \in Legs
      /\ held["front"] \in Int /\ held["origin"] \in Int /\ outgoing \in [Streams -> Seq(Events)]
      /\ guest \in [Streams -> GuestRecords] /\ guest[s].down \in Seq(Events)
      /\ Cardinality(Uploaders) \in Nat /\ Cardinality(Readers) \in Nat
      /\ Cardinality(Frames(incoming, Streams)) \in Nat /\ Cardinality(Frames(outgoing, Streams)) \in Nat
  BY ExchangesTyped
<1>v. PICK event : event = Head(outgoing[s])
  OBVIOUS
<1>u. /\ UNCHANGED <<incoming, routes, wire, drain, graceful, closing, closed, sent>>
      /\ outgoing' = [outgoing EXCEPT ![s] = Tail(outgoing[s])] /\ outgoing[s] # <<>>
      /\ ex[s].pc = "open" /\ ~ex[s].cancelled /\ ex[s].down = "take"
      /\ held' = IF Halts(s, event) THEN [held EXCEPT !["front"] = held["front"] - InHand(s, "front")] ELSE held
      /\ guest' = IF event = "data" THEN guest
                  ELSE [guest EXCEPT ![s] = [guest[s] EXCEPT !.down = Append(guest[s].down, event)]]
  <2>1. guest' = IF event = "data" THEN guest ELSE [guest EXCEPT ![s].down = Append(@, event)]
    BY <1>v DEF ResponseTakes
  <2> QED
    BY <1>t, <1>v, <2>1 DEF ResponseTakes, Alive, shutdown
<1>o. outgoing[s] \in Seq(Events) /\ event \in Events
  BY <1>t, <1>u, <1>v, HeadTailProperties
<1>5. Open(s) /\ Mapped(s) /\ sent[ex[s].id] \in Seq(Events) /\ ex[s].id \in 1..Len(sent)
  <2>1. Open(s) /\ Mapped(s) /\ ex[s].id \in 1..Len(sent)
    BY <1>u DEF Open, ExchangesInv, IdsAreOwn
  <2> QED
    BY <2>1, ExchangesTyped
<1>w. /\ event = "data" => Whole(guest[s].down, 1, Tail(outgoing[s]), sent[ex[s].id])
      /\ Whole(Append(guest[s].down, event), 0, Tail(outgoing[s]), sent[ex[s].id])
      /\ event = "head" => guest[s].down = <<>>
  <2>1. Whole(guest[s].down, 0, outgoing[s], sent[ex[s].id])
    <3>1. Hand(s) = 0
      BY <1>u DEF Hand
    <3> QED
      BY <1>u, <1>5, <3>1 DEF ExchangesInv, ResponseKept
  <2>2. PICK read, line, all : read = guest[s].down /\ line = outgoing[s] /\ all = sent[ex[s].id]
    OBVIOUS
  <2>3. /\ Head(line) = "data" => Whole(read, 1, Tail(line), all)
        /\ Whole(Append(read, Head(line)), 0, Tail(line), all)
        /\ Head(line) = all[Len(read) + 1] /\ Len(read) + 1 \in 1..Len(all)
    BY <1>t, <1>u, <1>o, <1>5, <2>1, <2>2, WholeWhenTaken
  <2>4. event = "head" => Len(read) + 1 = 1
    BY <1>v, <1>5, <2>2, <2>3 DEF ExchangesInv, HeadsFirst
  <2>5. event = "head" => read = <<>>
    BY <1>t, <2>2, <2>4, EmptySeq, LenProperties
  <2> QED
    BY <1>v, <2>2, <2>3, <2>5
<1>d. PICK d \in Pumps : d = IF event = "end" THEN "done" ELSE IF event = "data" THEN "data" ELSE "take"
  BY Names
<1>p. PICK p \in Pumps : p = IF Halts(s, event) THEN "done"
                             ELSE IF ex[s].kind = "ws" /\ event = "head" THEN "take" ELSE ex[s].up
  BY <1>t, Names DEF ExchangeRecords
<1>e. /\ \A t \in Streams \ {s} : ex'[t] = ex[t]
      /\ ex'[s].up = p /\ ex'[s].down = d
      /\ ex'[s].pc = "open" /\ ex'[s].id = ex[s].id /\ ex'[s].kind = ex[s].kind
      /\ ~ex'[s].cancelled
  <2>1. PICK e : e = [ex[s] EXCEPT !.up = p, !.down = d]
    OBVIOUS
  <2>2. ex' = [ex EXCEPT ![s] = e]
    BY <1>v, <1>d, <1>p, <2>1 DEF ResponseTakes, AfterEvent
  <2>3. e.up = p /\ e.down = d /\ e.pc = "open" /\ e.id = ex[s].id /\ e.kind = ex[s].kind /\ ~e.cancelled
    BY <1>t, <1>u, <2>1 DEF ExchangeRecords
  <2> QED
    BY <1>t, <2>2, <2>3
<1>f. \* An upload that waits for the head of a WebSocket holds nothing.
      Halts(s, event) \/ p = ex[s].up \/ (p = "take" /\ ex[s].up # "data" /\ event = "head")
  BY <1>p, <1>w DEF ExchangesInv, SocketsWait
<1>h. /\ held' \in [Legs -> Int] /\ held'["origin"] = held["origin"]
      /\ held'["front"] = held["front"] - (IF Halts(s, event) /\ ex[s].up = "data" THEN 1 ELSE 0)
  <2>1. InHand(s, "front") = IF ex[s].up = "data" THEN 1 ELSE 0
    BY DEF InHand, Holds
  <2>2. InHand(s, "front") \in Int
    BY <2>1
  <2>3. CASE Halts(s, event)
    <3>1. held' = [held EXCEPT !["front"] = held["front"] - InHand(s, "front")]
      BY <1>u, <2>3
    <3> QED
      BY <1>t, <2>1, <2>2, <2>3, <3>1
  <2>4. CASE ~Halts(s, event)
    BY <1>t, <1>u, <2>4
  <2> QED
    BY <2>3, <2>4
<1>1. /\ outgoing' \in [Streams -> Seq(Events)]
      /\ Cardinality(Frames(outgoing', Streams)) =
           Cardinality(Frames(outgoing, Streams)) - (IF event = "data" THEN 1 ELSE 0)
  <2>1. PICK r : r = [outgoing EXCEPT ![s] = Tail(outgoing[s])]
    OBVIOUS
  <2> QED
    BY <1>t, <1>u, <1>v, <2>1, FrameTaken
<1>2. /\ Cardinality(Uploaders') = Cardinality(Uploaders) - (IF Halts(s, event) /\ ex[s].up = "data" THEN 1 ELSE 0)
      /\ Cardinality(Readers') = Cardinality(Readers) + (IF event = "data" THEN 1 ELSE 0)
  <2>1. \A t \in Streams \ {s} : ex'[t].up = ex[t].up /\ ex'[t].down = ex[t].down
    BY <1>e
  <2>2. /\ Cardinality(Uploaders') = Cardinality(Uploaders)
             + (IF ex'[s].up = "data" THEN 1 ELSE 0) - (IF ex[s].up = "data" THEN 1 ELSE 0)
        /\ Cardinality(Readers') = Cardinality(Readers)
             + (IF ex'[s].down = "data" THEN 1 ELSE 0) - (IF ex[s].down = "data" THEN 1 ELSE 0)
    BY <1>t, <2>1, HandsMove DEF Uploaders, Readers
  <2>3. (ex'[s].up = "data") <=> (ex[s].up = "data" /\ ~Halts(s, event))
    BY <1>e, <1>f, <1>p
  <2>4. (ex'[s].down = "data") <=> (event = "data")
    BY <1>e, <1>d
  <2> QED
    BY <1>t, <1>u, <2>2, <2>3, <2>4
<1>3. Balanced'
  BY <1>t, <1>u, <1>h, <1>1, <1>2 DEF ExchangesInv, Balanced
<1>4. QueuesTyped'
  BY <1>u, <1>h, <1>1 DEF ExchangesInv, QueuesTyped
<1>g. /\ guest' \in [Streams -> GuestRecords]
      /\ \A t \in Streams \ {s} : guest'[t] = guest[t]
      /\ guest'[s].down = IF event = "data" THEN guest[s].down ELSE Append(guest[s].down, event)
  <2>1. PICK g : g = [guest[s] EXCEPT !.down = Append(guest[s].down, event)]
    OBVIOUS
  <2>2. Append(guest[s].down, event) \in Seq(Events)
    BY <1>t, <1>o, AppendProperties
  <2>3. g \in GuestRecords /\ g.down = Append(guest[s].down, event)
    BY <1>t, <2>1, <2>2 DEF GuestRecords
  <2> QED
    BY <1>t, <1>u, <2>1, <2>3
<1>6. Whole(guest'[s].down, Hand(s)', outgoing'[s], sent[ex[s].id])
  <2>1. outgoing'[s] = Tail(outgoing[s])
    BY <1>t, <1>u
  <2>2. Hand(s)' = IF event = "data" THEN 1 ELSE 0
    BY <1>d, <1>e DEF Hand
  <2> QED
    BY <1>g, <1>w, <2>1, <2>2
<1>7. ex[s].kind = "ws" /\ ex'[s].up \in {"take", "data"} => guest'[s].down # <<>>
  <2>1. event # "data" => guest'[s].down # <<>>
    <3>1. PICK R : R = Append(guest[s].down, event)
      OBVIOUS
    <3>2. Len(R) = Len(guest[s].down) + 1 /\ Len(guest[s].down) \in Nat
      BY <1>t, <1>o, <3>1, AppendProperties, LenProperties
    <3>3. R # <<>>
      BY <3>2
    <3> QED
      BY <1>g, <3>1, <3>3
  <2>2. CASE event = "data"
    <3>1. ex'[s].up \in {"take", "data"} => ex[s].up = ex'[s].up
      BY <1>e, <1>p, <2>2
    <3> QED
      BY <1>g, <2>2, <3>1 DEF ExchangesInv, SocketsWait
  <2> QED
    BY <2>1, <2>2
<1>8. Open(s)'
  BY <1>e DEF Open
<1>9. \A t \in Streams \ {s} : /\ ex'[t] = ex[t] /\ guest'[t].down = guest[t].down
                               /\ incoming'[t] = incoming[t] /\ outgoing'[t] = outgoing[t]
  BY <1>t, <1>u, <1>e, <1>g
<1> QED
  BY <1>u, <1>e, <1>g, <1>3, <1>4, <1>5, <1>6, <1>7, <1>8, <1>9, OneMoves

LEMMA ResponseWritesKeeps ==
    ASSUME Http2Inv, ExchangesInv, NEW s \in Streams, ResponseWrites(s), ex' \in [Streams -> ExchangeRecords]
    PROVE  ExchangesInv'
<1>t. /\ ex \in [Streams -> ExchangeRecords] /\ held \in [Legs -> Int] /\ "front" \in Legs /\ "origin" \in Legs
      /\ held["front"] \in Int /\ held["origin"] \in Int /\ outgoing \in [Streams -> Seq(Events)]
      /\ guest \in [Streams -> GuestRecords] /\ guest[s].down \in Seq(Events)
      /\ Cardinality(Readers) \in Nat /\ Cardinality(Frames(outgoing, Streams)) \in Nat
  BY ExchangesTyped
<1>u. /\ UNCHANGED <<incoming, outgoing, routes, wire, drain, graceful, closing, closed, sent>>
      /\ held' = [held EXCEPT !["origin"] = held["origin"] - 1]
      /\ ex[s].pc = "open" /\ ~ex[s].cancelled /\ ex[s].down = "data"
      /\ guest' = [guest EXCEPT ![s] = [guest[s] EXCEPT !.down = Append(guest[s].down, "data")]]
  <2>1. guest' = [guest EXCEPT ![s].down = Append(@, "data")]
    BY DEF ResponseWrites
  <2> QED
    BY <1>t, <2>1 DEF ResponseWrites, Alive, shutdown
<1>e. /\ \A t \in Streams \ {s} : ex'[t] = ex[t]
      /\ ex'[s].down = "take"
      /\ ex'[s].pc = "open" /\ ex'[s].id = ex[s].id /\ ex'[s].kind = ex[s].kind /\ ex'[s].up = ex[s].up
      /\ ~ex'[s].cancelled
  <2>1. PICK e : e = [ex[s] EXCEPT !.down = "take"]
    OBVIOUS
  <2>2. ex' = [ex EXCEPT ![s] = e]
    BY <2>1 DEF ResponseWrites
  <2>3. e.down = "take" /\ e.pc = "open" /\ e.id = ex[s].id /\ e.kind = ex[s].kind /\ e.up = ex[s].up /\ ~e.cancelled
    BY <1>t, <1>u, <2>1 DEF ExchangeRecords
  <2> QED
    BY <1>t, <2>2, <2>3
<1>g. /\ guest' \in [Streams -> GuestRecords]
      /\ \A t \in Streams \ {s} : guest'[t] = guest[t]
      /\ guest'[s].down = Append(guest[s].down, "data")
  <2>1. PICK g : g = [guest[s] EXCEPT !.down = Append(guest[s].down, "data")]
    OBVIOUS
  <2>2. "data" \in Events
    BY DEF Events
  <2>3. Append(guest[s].down, "data") \in Seq(Events)
    BY <1>t, <2>2, AppendProperties
  <2>4. g \in GuestRecords /\ g.down = Append(guest[s].down, "data")
    BY <1>t, <2>1, <2>3 DEF GuestRecords
  <2> QED
    BY <1>t, <1>u, <2>1, <2>4
<1>1. /\ held' \in [Legs -> Int] /\ held'["origin"] = held["origin"] - 1 /\ held'["front"] = held["front"]
  BY <1>t, <1>u
<1>2. Cardinality(Readers') = Cardinality(Readers) - 1 /\ Uploaders' = Uploaders
  <2>1. \A t \in Streams \ {s} : ex'[t].up = ex[t].up /\ ex'[t].down = ex[t].down
    BY <1>e
  <2>2. Cardinality(Readers') = Cardinality(Readers)
            + (IF ex'[s].down = "data" THEN 1 ELSE 0) - (IF ex[s].down = "data" THEN 1 ELSE 0)
    BY <1>t, <2>1, HandsMove DEF Readers
  <2>3. Uploaders' = Uploaders
    BY <1>e DEF Uploaders
  <2> QED
    BY <1>t, <1>u, <1>e, <2>2, <2>3
<1>3. Balanced'
  BY <1>t, <1>u, <1>1, <1>2 DEF ExchangesInv, Balanced
<1>4. QueuesTyped'
  BY <1>u, <1>1 DEF ExchangesInv, QueuesTyped
<1>5. Open(s) /\ Open(s)' /\ Mapped(s) /\ sent[ex[s].id] \in Seq(Events)
  <2>1. Open(s) /\ Open(s)' /\ Mapped(s)
    BY <1>u, <1>e DEF Open, ExchangesInv, IdsAreOwn
  <2> QED
    BY <2>1, ExchangesTyped
<1>6. Whole(guest'[s].down, Hand(s)', outgoing'[s], sent[ex[s].id])
  <2>1. Hand(s) = 1 /\ Hand(s)' = 0
    BY <1>u, <1>e DEF Hand
  <2>2. Whole(guest[s].down, 1, outgoing[s], sent[ex[s].id])
    BY <1>u, <1>5, <2>1 DEF ExchangesInv, ResponseKept
  <2>3. Whole(Append(guest[s].down, "data"), 0, outgoing[s], sent[ex[s].id])
    BY <1>t, <1>5, <2>2, WholeWhenWritten
  <2> QED
    BY <1>u, <1>g, <2>1, <2>3
<1>7. ex[s].kind = "ws" /\ ex'[s].up \in {"take", "data"} => guest'[s].down # <<>>
  <2>1. PICK R : R = Append(guest[s].down, "data")
    OBVIOUS
  <2>2. "data" \in Events
    BY DEF Events
  <2>3. Len(R) = Len(guest[s].down) + 1 /\ Len(guest[s].down) \in Nat
    BY <1>t, <2>1, <2>2, AppendProperties, LenProperties
  <2>4. R # <<>>
    BY <2>3
  <2> QED
    BY <1>g, <2>1, <2>4
<1>9. \A t \in Streams \ {s} : /\ ex'[t] = ex[t] /\ guest'[t].down = guest[t].down
                               /\ incoming'[t] = incoming[t] /\ outgoing'[t] = outgoing[t]
  BY <1>u, <1>e, <1>g
<1> QED
  BY <1>u, <1>e, <1>g, <1>3, <1>4, <1>5, <1>6, <1>7, <1>9, OneMoves

\* An event of the guest is queued for an exchange that runs, and counted.
LEMMA GuestSendsKeeps ==
    ASSUME Http2Inv, ExchangesInv, NEW s \in Streams, NEW event \in {"data", "end"}, GuestSends(s, event)
    PROVE  ExchangesInv'
<1>t. /\ ex \in [Streams -> ExchangeRecords] /\ held \in [Legs -> Int] /\ "front" \in Legs /\ "origin" \in Legs
      /\ held["front"] \in Int /\ held["origin"] \in Int /\ incoming \in [Streams -> Seq(Events)]
      /\ guest \in [Streams -> GuestRecords] /\ guest[s].up \in Seq(Events) /\ event \in Events
      /\ Cardinality(Uploaders) \in Nat /\ Cardinality(Frames(incoming, Streams)) \in Nat
  BY ExchangesTyped DEF Events
<1>u. /\ UNCHANGED <<ex, outgoing, routes, wire, drain, graceful, closing, closed, sent>>
      /\ guest' = [guest EXCEPT ![s] = [guest[s] EXCEPT !.up = Append(guest[s].up, event)]]
  <2>1. guest' = [guest EXCEPT ![s].up = Append(@, event)]
    BY DEF GuestSends
  <2> QED
    BY <1>t, <2>1 DEF GuestSends, shutdown
<1>g. guest' \in [Streams -> GuestRecords] /\ \A t \in Streams : guest'[t].down = guest[t].down
  <2>1. PICK g : g = [guest[s] EXCEPT !.up = Append(guest[s].up, event)]
    OBVIOUS
  <2>2. Append(guest[s].up, event) \in Seq(Events)
    BY <1>t, AppendProperties
  <2>3. g \in GuestRecords /\ g.down = guest[s].down
    BY <1>t, <2>1, <2>2 DEF GuestRecords
  <2> QED
    BY <1>t, <1>u, <2>1, <2>3
<1>1. CASE ~Open(s) \/ ex[s].cancelled
  <2>1. UNCHANGED <<ex, queues, routes, wire, drain, closing, closed, sent>>
    BY <1>u, <1>1 DEF GuestSends, queues
  <2>2. graceful' = graceful /\ graceful \in BOOLEAN
    BY <1>u DEF ExchangesInv, SidesTyped
  <2> QED
    BY <1>g, <2>1, <2>2, ExchangesStand
<1>2. CASE Open(s) /\ ~ex[s].cancelled
  <2>1. /\ incoming' = [incoming EXCEPT ![s] = Append(incoming[s], event)]
        /\ held' = IF event = "data" THEN [held EXCEPT !["front"] = held["front"] + 1] ELSE held
    BY <1>2 DEF GuestSends
  <2>2. /\ incoming' \in [Streams -> Seq(Events)]
        /\ Cardinality(Frames(incoming', Streams)) =
             Cardinality(Frames(incoming, Streams)) + (IF event = "data" THEN 1 ELSE 0)
    <3>1. PICK r : r = [incoming EXCEPT ![s] = Append(incoming[s], event)]
      OBVIOUS
    <3>2. /\ r \in [Streams -> Seq(Events)]
          /\ Cardinality(Frames(r, Streams)) =
               Cardinality(Frames(incoming, Streams)) + (IF event = "data" THEN 1 ELSE 0)
      <4>1. incoming[s] \in Seq(Events) /\ event \in Events
        BY <1>t
      <4>2. PICK n \in Nat : n = Len(incoming[s]) + 1
        BY <4>1, LenProperties
      <4>3. PICK line \in Seq(Events) : line = Append(incoming[s], event)
        BY <4>1, AppendProperties
      <4>4. Len(line) = n /\ line[n] = event /\ \A i \in 1..Len(incoming[s]) : line[i] = incoming[s][i]
        BY <4>1, <4>2, <4>3, AppendProperties
      <4>5. r \in [Streams -> Seq(Events)] /\ r[s] = line /\ \A t \in Streams \ {s} : r[t] = incoming[t]
        BY <1>t, <3>1, <4>3
      <4> QED
        BY <1>t, <4>2, <4>4, <4>5, FrameQueued
    <3> QED
      BY <2>1, <3>1, <3>2
  <2>3. /\ held' \in [Legs -> Int] /\ held'["origin"] = held["origin"]
        /\ held'["front"] = held["front"] + (IF event = "data" THEN 1 ELSE 0)
    BY <1>t, <2>1
  <2>4. Uploaders' = Uploaders /\ Readers' = Readers
    BY <1>u DEF Uploaders, Readers
  <2>5. Balanced'
    BY <1>t, <1>u, <2>2, <2>3, <2>4 DEF ExchangesInv, Balanced
  <2>6. QueuesTyped'
    BY <1>u, <2>2, <2>3 DEF ExchangesInv, QueuesTyped
  <2>7. Open(s)' /\ Hand(s)' = Hand(s)
    BY <1>u, <1>2 DEF Open, Hand
  <2>8. /\ ex[s].pc = "open" \/ (ex[s].pc = "created" /\ ex[s].kind = "h2c") => Mapped(s)
        /\ ex[s].pc # "open" => ex[s].up # "data" /\ ex[s].down # "data"
        /\ ex[s].kind = "ws" /\ ex[s].up \in {"take", "data"} => guest[s].down # <<>>
    BY DEF ExchangesInv, IdsAreOwn, EndedIsEmpty, SocketsWait
  <2>9. /\ Mapped(s) => Whole(guest[s].down, Hand(s), outgoing[s], sent[ex[s].id])
        /\ ~Mapped(s) => guest[s].down = <<>> /\ outgoing[s] = <<>> /\ ex[s].down # "data"
    BY <1>2 DEF ExchangesInv, ResponseKept
  <2>10. \A t \in Streams \ {s} : /\ ex'[t] = ex[t] /\ guest'[t].down = guest[t].down
                                  /\ incoming'[t] = incoming[t] /\ outgoing'[t] = outgoing[t]
    BY <1>t, <1>u, <1>g, <2>1
  <2> QED
    BY <1>u, <1>g, <1>2, <2>5, <2>6, <2>7, <2>8, <2>9, <2>10, OneMoves
<1> QED
  BY <1>1, <1>2

\* A task begins; an exchange taken over reads its response at once.
LEMMA StartsKeeps ==
    ASSUME Http2Inv, ExchangesInv, NEW s \in Streams, Starts(s), ex' \in [Streams -> ExchangeRecords]
    PROVE  ExchangesInv'
<1>t. /\ ex \in [Streams -> ExchangeRecords] /\ guest \in [Streams -> GuestRecords]
      /\ incoming \in [Streams -> Seq(Events)] /\ outgoing \in [Streams -> Seq(Events)]
  BY ExchangesTyped
<1>0. Open(s) /\ ex[s].pc = "created" /\ ex[s].up # "data" /\ ex[s].down # "data"
  BY DEF Starts, Open, ExchangesInv, EndedIsEmpty
<1>1. CASE ex[s].cancelled
  BY <1>0, <1>1, RetiredKeeps DEF Starts, Denied
<1>2. CASE ~ex[s].cancelled
  <2>u. UNCHANGED <<incoming, outgoing, held, routes, wire, sent, drain, graceful, closing, closed, guest>>
    BY <1>2 DEF Starts, queues, shutdown
  <2>e. /\ \A t \in Streams \ {s} : ex'[t] = ex[t]
        /\ ex'[s].pc = IF ex[s].kind = "h2c" THEN "open" ELSE "asking"
        /\ ex'[s].id = ex[s].id /\ ex'[s].kind = ex[s].kind /\ ex'[s].up = ex[s].up /\ ~ex'[s].cancelled
        /\ ex'[s].down # "data"
    <3>1. PICK e : e = IF ex[s].kind = "h2c" THEN [ex[s] EXCEPT !.pc = "open", !.down = "take"]
                       ELSE [ex[s] EXCEPT !.pc = "asking"]
      OBVIOUS
    <3>2. ex' = [ex EXCEPT ![s] = e]
      BY <1>2, <3>1 DEF Starts
    <3>3. /\ e.pc = IF ex[s].kind = "h2c" THEN "open" ELSE "asking"
          /\ e.id = ex[s].id /\ e.kind = ex[s].kind /\ e.up = ex[s].up /\ ~e.cancelled /\ e.down # "data"
      BY <1>t, <1>0, <1>2, <3>1 DEF ExchangeRecords
    <3> QED
      BY <1>t, <3>2, <3>3
  <2>1. Uploaders' = Uploaders /\ Readers' = Readers
    <3>1. \A t \in Streams : (ex'[t].up = "data" <=> ex[t].up = "data") /\ (ex'[t].down = "data" <=> ex[t].down = "data")
      BY <1>0, <2>e
    <3> QED
      BY <3>1 DEF Uploaders, Readers
  <2>2. Balanced'
    BY <2>u, <2>1 DEF ExchangesInv, Balanced
  <2>3. QueuesTyped' /\ guest' \in [Streams -> GuestRecords]
    BY <1>t, <2>u DEF ExchangesInv, QueuesTyped
  <2>4. Open(s)' /\ Hand(s)' = 0 /\ Hand(s) = 0
    BY <1>0, <2>e DEF Open, Hand
  <2>5. ex'[s].pc = "open" \/ (ex'[s].pc = "created" /\ ex'[s].kind = "h2c") => Mapped(s)
    BY <1>0, <2>e DEF ExchangesInv, IdsAreOwn
  <2>6. /\ Mapped(s) => Whole(guest[s].down, 0, outgoing[s], sent[ex[s].id])
        /\ ~Mapped(s) => guest[s].down = <<>> /\ outgoing[s] = <<>>
    BY <1>0, <1>2, <2>4 DEF ExchangesInv, ResponseKept
  <2>7. ex[s].kind = "ws" /\ ex[s].up \in {"take", "data"} => guest[s].down # <<>>
    BY DEF ExchangesInv, SocketsWait
  <2>8. \A t \in Streams \ {s} : /\ ex'[t] = ex[t] /\ guest'[t].down = guest[t].down
                                 /\ incoming'[t] = incoming[t] /\ outgoing'[t] = outgoing[t]
    BY <2>u, <2>e
  <2> QED
    BY <1>0, <1>2, <2>u, <2>e, <2>2, <2>3, <2>4, <2>5, <2>6, <2>7, <2>8, OneMoves
<1> QED
  BY <1>1, <1>2

\* A request that is accepted opens an exchange without a stream at the origin.
LEMMA RequestedKeeps ==
    ASSUME Http2Inv, ExchangesInv, NEW s \in Streams, NEW kind \in StreamKinds[s], Requested(s, kind)
    PROVE  ExchangesInv'
<1>t. /\ ex \in [Streams -> ExchangeRecords] /\ guest \in [Streams -> GuestRecords] /\ graceful \in BOOLEAN
      /\ Cardinality(Uploaders) \in Nat /\ Cardinality(Readers) \in Nat
  BY ExchangesTyped DEF ExchangesInv, SidesTyped
<1>u. UNCHANGED <<queues, incoming, outgoing, held, routes, wire, sent, drain, graceful, closing, closed>>
  BY DEF Requested, queues, shutdown
<1>0. ex[s].pc = "none" /\ ~closing /\ ~Open(s) /\ ~Mapped(s)
  BY DEF Requested, Reading, Open, ExchangesInv, IdsAreOwn
<1>1. CASE drain \/ Cardinality(Active) >= Maximum
  <2>1. ex' = ex /\ guest' = [guest EXCEPT ![s] = [guest[s] EXCEPT !.reset = TRUE]]
    <3>1. ex' = ex /\ guest' = [guest EXCEPT ![s].reset = TRUE]
      BY <1>1 DEF Requested
    <3> QED
      BY <1>t, <3>1
  <2>2. [guest[s] EXCEPT !.reset = TRUE] \in GuestRecords /\ [guest[s] EXCEPT !.reset = TRUE].down = guest[s].down
    BY <1>t DEF GuestRecords
  <2>3. guest' \in [Streams -> GuestRecords] /\ \A t \in Streams : guest'[t].down = guest[t].down
    BY <1>t, <2>1, <2>2
  <2> QED
    BY <1>t, <1>u, <2>1, <2>3, ExchangesStand
<1>2. CASE ~(drain \/ Cardinality(Active) >= Maximum)
  <2>1. ~drain /\ ex' = [ex EXCEPT ![s] = NewExchange(kind)] /\ guest' = guest
    BY <1>2 DEF Requested
  <2>e. /\ \A t \in Streams \ {s} : ex'[t] = ex[t]
        /\ ex'[s].pc = "created" /\ ex'[s].kind # "h2c" /\ ex'[s].id = NoId /\ ~ex'[s].cancelled
        /\ ex'[s].up = "none" /\ ex'[s].down = "none" /\ kind \in Kinds
    <3>1. kind \in {"http", "ws"}
      BY StreamsAssumption
    <3>2. PICK n : n = NewExchange(kind)
      OBVIOUS
    <3>3. n.pc = "created" /\ n.kind = kind /\ n.id = NoId /\ ~n.cancelled /\ n.up = "none" /\ n.down = "none"
      BY <3>2 DEF NewExchange
    <3> QED
      BY <1>t, <2>1, <3>1, <3>2, <3>3 DEF Kinds
  <2>2. QueuesTyped' /\ SidesTyped'
    BY <1>u, <2>1 DEF ExchangesInv, QueuesTyped, SidesTyped
  <2>3. EndedIsEmpty'
    BY <1>u, <2>e DEF ExchangesInv, EndedIsEmpty, Open
  <2>4. IdsAreOwn'
    <3> SUFFICES ASSUME NEW t \in Streams
                 PROVE  /\ Mapped(t)' => ex'[t].id \in 1..Len(sent') /\ \A v \in Streams : ex'[v].id = ex'[t].id => v = t
                        /\ ex'[t].pc = "none" => ~Mapped(t)'
                        /\ ex'[t].pc = "open" \/ (ex'[t].pc = "created" /\ ex'[t].kind = "h2c") => Mapped(t)'
      BY DEF IdsAreOwn
    <3>1. CASE t = s
      BY <2>e, <3>1 DEF Mapped
    <3>2. CASE t # s
      BY <1>u, <2>e, <3>2 DEF ExchangesInv, IdsAreOwn, Mapped
    <3> QED
      BY <3>1, <3>2
  <2>5. RoutesAreOwn'
    <3>1. \A r \in routes : r[2] \in Streams \ {s}
      BY <1>0 DEF ExchangesInv, RoutesAreOwn
    <3>2. \A t \in Streams : Open(t)' /\ Mapped(t)' => t # s
      BY <2>e DEF Mapped
    <3> QED
      BY <1>u, <2>e, <3>1, <3>2 DEF ExchangesInv, RoutesAreOwn, Mapped, Open
  <2>6. ResponseKept'
    <3> SUFFICES ASSUME NEW t \in Streams
                 PROVE  /\ Mapped(t)' /\ Open(t)' /\ ~ex'[t].cancelled =>
                               Whole(guest'[t].down, Hand(t)', outgoing'[t], sent'[ex'[t].id])
                        /\ Mapped(t)' => Begins(guest'[t].down, sent'[ex'[t].id])
                        /\ ~Mapped(t)' => guest'[t].down = <<>> /\ outgoing'[t] = <<>> /\ ex'[t].down # "data"
      BY DEF ResponseKept
    <3>1. CASE t = s
      BY <1>u, <1>0, <2>1, <2>e, <3>1 DEF ExchangesInv, ResponseKept, Mapped
    <3>2. CASE t # s
      BY <1>u, <2>1, <2>e, <3>2 DEF ExchangesInv, ResponseKept, Mapped, Open, Hand
    <3> QED
      BY <3>1, <3>2
  <2>7. HeadsFirst' /\ SocketsWait'
    BY <1>u, <2>1, <2>e DEF ExchangesInv, HeadsFirst, SocketsWait
  <2>8. EndsWhole'
    <3>1. ~graceful /\ ~closed
      BY <1>0, <2>1 DEF ExchangesInv, EndsWhole
    <3> QED
      BY <1>u, <3>1 DEF EndsWhole
  <2>9. Balanced'
    <3>1. ex[s].up # "data" /\ ex[s].down # "data"
      BY <1>0 DEF ExchangesInv, EndedIsEmpty
    <3>2. Uploaders' = Uploaders /\ Readers' = Readers
      <4>1. \A t \in Streams : (ex'[t].up = "data" <=> ex[t].up = "data") /\ (ex'[t].down = "data" <=> ex[t].down = "data")
        BY <2>e, <3>1
      <4> QED
        BY <4>1 DEF Uploaders, Readers
    <3> QED
      BY <1>u, <3>2 DEF ExchangesInv, Balanced
  <2> QED
    BY <2>2, <2>3, <2>4, <2>5, <2>6, <2>7, <2>8, <2>9 DEF ExchangesInv
<1> QED
  BY <1>1, <1>2

\* The origin's next stream is the exchange's own.
LEMMA OpensKeeps ==
    ASSUME Http2Inv, ExchangesInv, NEW s \in Streams, Opens(s), ex' \in [Streams -> ExchangeRecords]
    PROVE  ExchangesInv'
<1>t. /\ ex \in [Streams -> ExchangeRecords] /\ sent \in Seq(Seq(Events)) /\ wire \in Seq(Nat)
      /\ Len(sent) = Len(wire) /\ Len(sent) \in Nat
  BY ExchangesTyped
<1>0. ex[s].pc = "asking" /\ ~ex[s].cancelled /\ ~Mapped(s) /\ Open(s)
  BY DEF Opens, Alive, Open, Mapped, Http2Inv, WaitingIsUnmapped
<1>i. PICK id \in Nat : id = Len(wire) + 1
  BY <1>t
<1>u. /\ UNCHANGED <<incoming, outgoing, held, drain, graceful, closing, closed, guest>>
      /\ routes' = routes \cup {<<id, s>>} /\ wire' = Append(wire, s) /\ sent' = Append(sent, <<>>)
  BY <1>i DEF Opens, queues, shutdown
<1>s. /\ sent' \in Seq(Seq(Events)) /\ Len(sent') = id /\ Len(sent') = Len(wire') /\ sent'[id] = <<>>
      /\ \A j \in 1..Len(sent) : sent'[j] = sent[j]
  <2>0. <<>> \in Seq(Events)
    OBVIOUS
  <2>1. PICK empty \in Seq(Events) : empty = <<>>
    BY <2>0
  <2>2. PICK N : N = Append(sent, empty)
    OBVIOUS
  <2>3. /\ N \in Seq(Seq(Events)) /\ Len(N) = id /\ N[id] = empty /\ \A j \in 1..Len(sent) : N[j] = sent[j]
    BY <1>t, <1>i, <2>2, AppendProperties
  <2>4. Len(wire') = id
    BY <1>t, <1>i, <1>u, StreamsAssumption, AppendProperties
  <2> QED
    BY <1>u, <2>1, <2>2, <2>3, <2>4
<1>e. /\ \A t \in Streams \ {s} : ex'[t] = ex[t]
      /\ ex'[s].pc = "open" /\ ex'[s].id = id /\ ex'[s].kind = ex[s].kind /\ ~ex'[s].cancelled
      /\ ex'[s].down = "take" /\ ex'[s].up # "data" /\ (ex[s].kind = "ws" => ex'[s].up = "none")
  <2>1. PICK e : e = [ex[s] EXCEPT !.pc = "open", !.id = id, !.down = "take",
                                   !.up = IF ex[s].kind = "ws" THEN "none" ELSE "take"]
    OBVIOUS
  <2>2. ex' = [ex EXCEPT ![s] = e]
    BY <1>i, <2>1 DEF Opens
  <2>3. /\ e.pc = "open" /\ e.id = id /\ e.kind = ex[s].kind /\ ~e.cancelled /\ e.down = "take"
        /\ e.up = IF ex[s].kind = "ws" THEN "none" ELSE "take"
    BY <1>t, <1>0, <2>1 DEF ExchangeRecords
  <2> QED
    BY <1>t, <2>2, <2>3
<1>n. /\ id # NoId /\ ~ (id \in 1..Len(sent)) /\ id \in 1..Len(sent')
      /\ \A t \in Streams : Mapped(t) => ex[t].id \in 1..Len(sent) /\ ex[t].id \in 1..Len(sent') /\ ex[t].id # id
  BY <1>t, <1>i, <1>s DEF NoId, ExchangesInv, IdsAreOwn
<1>m. Mapped(s)' /\ Open(s)' /\ \A t \in Streams \ {s} : Mapped(t)' = Mapped(t) /\ Open(t)' = Open(t)
  BY <1>e, <1>n DEF Mapped, Open
<1>1. QueuesTyped' /\ SidesTyped'
  BY <1>u, <1>s DEF ExchangesInv, QueuesTyped, SidesTyped
<1>2. EndedIsEmpty'
  BY <1>u, <1>e DEF ExchangesInv, EndedIsEmpty, Open
<1>3. IdsAreOwn'
  <2> SUFFICES ASSUME NEW t \in Streams
               PROVE  /\ Mapped(t)' => ex'[t].id \in 1..Len(sent') /\ \A v \in Streams : ex'[v].id = ex'[t].id => v = t
                      /\ ex'[t].pc = "none" => ~Mapped(t)'
                      /\ ex'[t].pc = "open" \/ (ex'[t].pc = "created" /\ ex'[t].kind = "h2c") => Mapped(t)'
    BY DEF IdsAreOwn
  <2>1. CASE t = s
    <3>1. \A v \in Streams \ {s} : ex'[v].id # id
      BY <1>e, <1>n DEF Mapped
    <3> QED
      BY <1>e, <1>n, <1>m, <2>1, <3>1
  <2>2. CASE t # s
    <3>1. Mapped(t) => \A v \in Streams : ex'[v].id = ex[t].id => v = t
      BY <1>e, <1>n, <2>2 DEF ExchangesInv, IdsAreOwn
    <3> QED
      BY <1>e, <1>n, <1>m, <2>2, <3>1 DEF ExchangesInv, IdsAreOwn
  <2> QED
    BY <2>1, <2>2
<1>4. RoutesAreOwn'
  <2>1. \A r \in routes : r[2] \in Streams \ {s}
    BY <1>0 DEF ExchangesInv, RoutesAreOwn
  <2>2. \A r \in routes : r[2] \in Streams /\ r = <<ex'[r[2]].id, r[2]>> /\ Mapped(r[2])' /\ Open(r[2])'
    BY <1>e, <1>m, <2>1 DEF ExchangesInv, RoutesAreOwn
  <2>3. PICK p : p = <<id, s>>
    OBVIOUS
  <2>4. p[2] \in Streams /\ p = <<ex'[p[2]].id, p[2]>> /\ Mapped(p[2])' /\ Open(p[2])'
    BY <1>e, <1>m, <2>3
  <2>5. \A r \in routes' : r \in routes \/ r = p
    BY <1>u, <2>3
  <2>6. \A t \in Streams : Open(t)' /\ Mapped(t)' => <<ex'[t].id, t>> \in routes'
    BY <1>u, <1>e, <1>m DEF ExchangesInv, RoutesAreOwn
  <2> QED
    BY <2>2, <2>4, <2>5, <2>6 DEF RoutesAreOwn
<1>5. ResponseKept'
  <2> SUFFICES ASSUME NEW t \in Streams
               PROVE  /\ Mapped(t)' /\ Open(t)' /\ ~ex'[t].cancelled =>
                             Whole(guest'[t].down, Hand(t)', outgoing'[t], sent'[ex'[t].id])
                      /\ Mapped(t)' => Begins(guest'[t].down, sent'[ex'[t].id])
                      /\ ~Mapped(t)' => guest'[t].down = <<>> /\ outgoing'[t] = <<>> /\ ex'[t].down # "data"
    BY DEF ResponseKept
  <2>1. CASE t = s
    <3>1. guest'[s].down = <<>> /\ outgoing'[s] = <<>> /\ Hand(s)' = 0 /\ sent'[ex'[s].id] = <<>>
      BY <1>u, <1>0, <1>s, <1>e DEF ExchangesInv, ResponseKept, Hand
    <3>2. Whole(<<>>, 0, <<>>, <<>>) /\ Begins(<<>>, <<>>)
      BY DEF Whole, Begins
    <3> QED
      BY <1>m, <2>1, <3>1, <3>2
  <2>2. CASE t # s
    <3>1. Mapped(t) => sent'[ex'[t].id] = sent[ex[t].id]
      BY <1>s, <1>e, <1>n, <2>2
    <3>2. Hand(t)' = Hand(t)
      BY <1>e, <2>2 DEF Hand
    <3> QED
      BY <1>u, <1>e, <1>m, <2>2, <3>1, <3>2 DEF ExchangesInv, ResponseKept
  <2> QED
    BY <2>1, <2>2
<1>6. HeadsFirst'
  <2> SUFFICES ASSUME NEW j \in 1..Len(sent'), NEW i \in 1..Len(sent'[j]), sent'[j][i] = "head" PROVE i = 1
    BY DEF HeadsFirst
  <2>1. CASE j = id
    <3>1. Len(sent'[j]) = 0
      BY <1>s, <2>1
    <3> QED
      BY <3>1
  <2>2. CASE j # id
    <3>1. j \in 1..Len(sent)
      BY <1>t, <1>i, <1>s, <2>2
    <3> QED
      BY <1>s, <3>1 DEF ExchangesInv, HeadsFirst
  <2> QED
    BY <2>1, <2>2
<1>7. SocketsWait'
  BY <1>u, <1>e DEF ExchangesInv, SocketsWait
<1>8. EndsWhole'
  <2>1. Active' = Active
    BY <1>0, <1>m DEF Active
  <2> QED
    BY <1>u, <2>1 DEF ExchangesInv, EndsWhole
<1>9. Balanced'
  <2>1. ex[s].up # "data" /\ ex[s].down # "data"
    BY <1>0 DEF ExchangesInv, EndedIsEmpty
  <2>2. \A t \in Streams : (ex'[t].up = "data" <=> ex[t].up = "data") /\ (ex'[t].down = "data" <=> ex[t].down = "data")
    BY <1>e, <2>1
  <2>3. Uploaders' = Uploaders /\ Readers' = Readers
    BY <2>2 DEF Uploaders, Readers
  <2> QED
    BY <1>u, <2>3 DEF ExchangesInv, Balanced
<1> QED
  BY <1>1, <1>2, <1>3, <1>4, <1>5, <1>6, <1>7, <1>8, <1>9 DEF ExchangesInv

\* What the origin sends is queued for the exchange that owns the stream, if it runs.
LEMMA OriginSendsKeeps ==
    ASSUME Http2Inv, ExchangesInv, NEW id \in Ids, NEW event \in {"head", "refused", "data", "end"},
           OriginSends(id, event), ex' \in [Streams -> ExchangeRecords]
    PROVE  ExchangesInv'
<1>t. /\ ex \in [Streams -> ExchangeRecords] /\ held \in [Legs -> Int] /\ "front" \in Legs /\ "origin" \in Legs
      /\ held["front"] \in Int /\ held["origin"] \in Int /\ outgoing \in [Streams -> Seq(Events)]
      /\ guest \in [Streams -> GuestRecords] /\ \A s \in Streams : guest[s].down \in Seq(Events)
      /\ sent \in Seq(Seq(Events)) /\ Len(sent) = Len(wire) /\ Len(sent) \in Nat
      /\ Cardinality(Readers) \in Nat /\ Cardinality(Frames(outgoing, Streams)) \in Nat
  BY ExchangesTyped
<1>o. event \in Events /\ id \in 1..Len(sent) /\ sent[id] \in Seq(Events)
  <2>1. id \in 1..Len(sent)
    BY <1>t DEF Ids
  <2> QED
    BY <1>t, <2>1 DEF Events
<1>w. PICK whose : whose = {s \in Routed(id) : ~ex[s].cancelled}
  OBVIOUS
<1>u. /\ UNCHANGED <<incoming, routes, wire, drain, graceful, closing, closed, guest>>
      /\ sent' = [sent EXCEPT ![id] = Append(sent[id], event)]
      /\ outgoing' = [s \in Streams |-> IF s \in whose THEN Append(outgoing[s], event) ELSE outgoing[s]]
      /\ held' = IF event = "data" /\ whose # {} THEN [held EXCEPT !["origin"] = held["origin"] + 1] ELSE held
      /\ ~ \E s \in Streams : ex[s].id = id /\ ex[s].cancelled
      /\ event = "head" => sent[id] = <<>>
  BY <1>w DEF OriginSends, Lawful, shutdown
<1>e. \A s \in Streams : /\ ex'[s].pc = ex[s].pc /\ ex'[s].kind = ex[s].kind /\ ex'[s].id = ex[s].id
                         /\ ex'[s].cancelled = ex[s].cancelled /\ ex'[s].up = ex[s].up /\ ex'[s].down = ex[s].down
  <2>1. \A s \in Streams : ex'[s] = IF s \in whose /\ event = "end" THEN [ex[s] EXCEPT !.ended = TRUE] ELSE ex[s]
    BY <1>w DEF OriginSends
  <2> QED
    BY <1>t, <2>1 DEF ExchangeRecords
<1>m. \A s \in Streams : Mapped(s)' = Mapped(s) /\ Open(s)' = Open(s) /\ Hand(s)' = Hand(s)
  BY <1>e DEF Mapped, Open, Hand
<1>r. /\ \A s \in whose : s \in Streams /\ ex[s].id = id /\ Mapped(s) /\ Open(s) /\ ~ex[s].cancelled
      /\ \A s \in Streams : Mapped(s) /\ Open(s) /\ ex[s].id = id => s \in whose
      /\ \A s, v \in whose : s = v
  <2>1. \A s \in Routed(id) : \E p \in routes : p[1] = id /\ s = p[2]
    BY DEF Routed
  <2>2. \A p \in routes : p[2] \in Streams /\ p[1] = ex[p[2]].id /\ Mapped(p[2]) /\ Open(p[2])
    BY DEF ExchangesInv, RoutesAreOwn
  <2>3. \A s \in Routed(id) : s \in Streams /\ ex[s].id = id /\ Mapped(s) /\ Open(s)
    BY <2>1, <2>2
  <2>4. ASSUME NEW s \in Streams, Mapped(s), Open(s), ex[s].id = id PROVE s \in whose
    <3>1. <<id, s>> \in routes
      BY <2>4 DEF ExchangesInv, RoutesAreOwn
    <3>2. PICK p \in routes : p = <<id, s>>
      BY <3>1
    <3>3. p[1] = id /\ p[2] = s
      BY <3>2
    <3>4. s \in Routed(id)
      BY <3>2, <3>3 DEF Routed
    <3> QED
      BY <1>w, <1>u, <2>4, <3>4
  <2>5. \A s, v \in whose : s = v
    BY <1>w, <2>3 DEF ExchangesInv, IdsAreOwn
  <2> QED
    BY <1>w, <2>3, <2>4, <2>5
<1>s. /\ sent' \in Seq(Seq(Events)) /\ Len(sent') = Len(sent) /\ sent'[id] = Append(sent[id], event)
      /\ \A j \in 1..Len(sent) : j # id => sent'[j] = sent[j]
  <2>1. PICK line \in Seq(Events) : line = Append(sent[id], event)
    BY <1>o, AppendProperties
  <2>2. PICK N : N = [sent EXCEPT ![id] = line]
    OBVIOUS
  <2>3. N \in Seq(Seq(Events)) /\ Len(N) = Len(sent) /\ N[id] = line /\ \A j \in 1..Len(sent) : j # id => N[j] = sent[j]
    BY <1>t, <1>o, <2>1, <2>2, ExceptSeq
  <2> QED
    BY <1>u, <2>1, <2>2, <2>3
<1>q. /\ outgoing' \in [Streams -> Seq(Events)] /\ held' \in [Legs -> Int] /\ held'["front"] = held["front"]
      /\ held'["origin"] - held["origin"] =
           Cardinality(Frames(outgoing', Streams)) - Cardinality(Frames(outgoing, Streams))
      /\ held'["origin"] \in Int /\ Cardinality(Frames(outgoing', Streams)) \in Nat
  <2>1. CASE whose = {}
    <3>1. outgoing' = outgoing /\ held' = held
      BY <1>t, <1>u, <2>1
    <3> QED
      BY <1>t, <3>1
  <2>2. CASE whose # {}
    <3>1. PICK s \in whose : TRUE
      BY <2>2
    <3>2. s \in Streams /\ \A v \in Streams : v \in whose <=> v = s
      BY <1>r, <3>1
    <3>3. PICK r : r = [outgoing EXCEPT ![s] = Append(outgoing[s], event)]
      OBVIOUS
    <3>4. outgoing' = r
      BY <1>t, <1>u, <3>2, <3>3
    <3>5. /\ r \in [Streams -> Seq(Events)]
          /\ Cardinality(Frames(r, Streams)) =
               Cardinality(Frames(outgoing, Streams)) + (IF event = "data" THEN 1 ELSE 0)
      <4>1. outgoing[s] \in Seq(Events) /\ event \in Events
        BY <1>t, <1>o, <3>2
      <4>2. PICK n \in Nat : n = Len(outgoing[s]) + 1
        BY <4>1, LenProperties
      <4>3. PICK line \in Seq(Events) : line = Append(outgoing[s], event)
        BY <4>1, AppendProperties
      <4>4. Len(line) = n /\ line[n] = event /\ \A i \in 1..Len(outgoing[s]) : line[i] = outgoing[s][i]
        BY <4>1, <4>2, <4>3, AppendProperties
      <4>5. r \in [Streams -> Seq(Events)] /\ r[s] = line /\ \A t \in Streams \ {s} : r[t] = outgoing[t]
        BY <1>t, <3>2, <3>3, <4>3
      <4> QED
        BY <1>t, <3>2, <4>2, <4>4, <4>5, FrameQueued
    <3>6. /\ held' \in [Legs -> Int] /\ held'["front"] = held["front"]
          /\ held'["origin"] = held["origin"] + (IF event = "data" THEN 1 ELSE 0)
      BY <1>t, <1>u, <2>2
    <3> QED
      BY <1>t, <3>4, <3>5, <3>6
  <2> QED
    BY <2>1, <2>2
<1>1. QueuesTyped' /\ SidesTyped'
  BY <1>t, <1>u, <1>s, <1>q DEF ExchangesInv, QueuesTyped, SidesTyped
<1>2. EndedIsEmpty'
  <2>1. \A s \in Streams : ~Open(s) \/ ex[s].cancelled => outgoing'[s] = outgoing[s]
    BY <1>u, <1>r
  <2> QED
    BY <1>u, <1>e, <1>m, <2>1 DEF ExchangesInv, EndedIsEmpty
<1>3. IdsAreOwn'
  <2>1. \A s \in Streams :
            /\ Mapped(s) => ex[s].id \in 1..Len(sent) /\ \A v \in Streams : ex[v].id = ex[s].id => v = s
            /\ ex[s].pc = "none" => ~Mapped(s)
            /\ ex[s].pc = "open" \/ (ex[s].pc = "created" /\ ex[s].kind = "h2c") => Mapped(s)
    BY DEF ExchangesInv, IdsAreOwn
  <2>2. 1..Len(sent') = 1..Len(sent)
    BY <1>s
  <2>3. \A s \in Streams : Mapped(s) => \A v \in Streams : ex'[v].id = ex'[s].id => v = s
    BY <1>e, <2>1
  <2> QED
    BY <1>e, <1>m, <2>1, <2>2, <2>3 DEF IdsAreOwn
<1>4. RoutesAreOwn'
  BY <1>u, <1>e, <1>m DEF ExchangesInv, RoutesAreOwn
<1>5. ResponseKept'
  <2> SUFFICES ASSUME NEW t \in Streams
               PROVE  /\ Mapped(t) /\ Open(t) /\ ~ex[t].cancelled =>
                             Whole(guest[t].down, Hand(t), outgoing'[t], sent'[ex[t].id])
                      /\ Mapped(t) => Begins(guest[t].down, sent'[ex[t].id])
                      /\ ~Mapped(t) => guest[t].down = <<>> /\ outgoing'[t] = <<>> /\ ex[t].down # "data"
    BY <1>u, <1>e, <1>m DEF ResponseKept
  <2>0. /\ Mapped(t) /\ Open(t) /\ ~ex[t].cancelled => Whole(guest[t].down, Hand(t), outgoing[t], sent[ex[t].id])
        /\ Mapped(t) => Begins(guest[t].down, sent[ex[t].id]) /\ ex[t].id \in 1..Len(sent)
        /\ ~Mapped(t) => guest[t].down = <<>> /\ outgoing[t] = <<>> /\ ex[t].down # "data"
    BY DEF ExchangesInv, ResponseKept, IdsAreOwn
  <2>1. CASE Mapped(t) /\ ex[t].id = id
    <3>1. Begins(guest[t].down, sent'[ex[t].id])
      BY <1>t, <1>o, <1>s, <2>0, <2>1, BeginsWhenSent
    <3>2. ASSUME Open(t), ~ex[t].cancelled PROVE Whole(guest[t].down, Hand(t), outgoing'[t], sent'[ex[t].id])
      <4>1. outgoing'[t] = Append(outgoing[t], event)
        BY <1>u, <1>r, <2>1, <3>2
      <4>2. Hand(t) \in {0, 1} /\ outgoing[t] \in Seq(Events) /\ guest[t].down \in Seq(Events)
        BY <1>t DEF Hand
      <4>3. PICK read, hand, line, all :
                read = guest[t].down /\ hand = Hand(t) /\ line = outgoing[t] /\ all = sent[id]
        OBVIOUS
      <4>4. Whole(read, hand, Append(line, event), Append(all, event))
        BY <1>o, <2>0, <2>1, <3>2, <4>2, <4>3, WholeWhenSent
      <4> QED
        BY <1>s, <2>1, <4>1, <4>3, <4>4
    <3> QED
      BY <2>1, <3>1, <3>2
  <2>2. CASE ~ (Mapped(t) /\ ex[t].id = id)
    <3>1. t \notin whose /\ outgoing'[t] = outgoing[t]
      BY <1>u, <1>r, <2>2
    <3>2. Mapped(t) => sent'[ex[t].id] = sent[ex[t].id]
      BY <1>s, <2>0, <2>2
    <3> QED
      BY <2>0, <3>1, <3>2
  <2> QED
    BY <2>1, <2>2
<1>6. HeadsFirst'
  <2> SUFFICES ASSUME NEW j \in 1..Len(sent'), NEW i \in 1..Len(sent'[j]), sent'[j][i] = "head" PROVE i = 1
    BY DEF HeadsFirst
  <2>1. CASE j # id
    BY <1>s, <2>1 DEF ExchangesInv, HeadsFirst
  <2>2. CASE j = id
    <3>1. PICK A : A = Append(sent[id], event)
      OBVIOUS
    <3>2. Len(A) = Len(sent[id]) + 1 /\ A[Len(sent[id]) + 1] = event /\ Len(sent[id]) \in Nat
          /\ \A k \in 1..Len(sent[id]) : A[k] = sent[id][k]
      BY <1>o, <3>1, AppendProperties, LenProperties
    <3>3. A = sent'[j]
      BY <1>s, <2>2, <3>1
    <3>4. CASE i = Len(sent[id]) + 1
      <4>1. sent[id] = <<>>
        BY <1>u, <3>2, <3>3, <3>4
      <4> QED
        BY <3>4, <4>1
    <3>5. CASE i # Len(sent[id]) + 1
      <4>1. i \in 1..Len(sent[id])
        BY <3>2, <3>3, <3>5
      <4> QED
        BY <1>o, <3>2, <3>3, <4>1 DEF ExchangesInv, HeadsFirst
    <3> QED
      BY <3>4, <3>5
  <2> QED
    BY <2>1, <2>2
<1>7. SocketsWait'
  BY <1>u, <1>e DEF ExchangesInv, SocketsWait
<1>8. EndsWhole'
  <2>1. Active' = Active
    BY <1>m DEF Active
  <2> QED
    BY <1>u, <2>1 DEF ExchangesInv, EndsWhole
<1>9. Balanced'
  <2>1. Uploaders' = Uploaders /\ Readers' = Readers
    BY <1>e DEF Uploaders, Readers
  <2> QED
    BY <1>t, <1>u, <1>q, <2>1 DEF ExchangesInv, Balanced
<1> QED
  BY <1>1, <1>2, <1>3, <1>4, <1>5, <1>6, <1>7, <1>8, <1>9 DEF ExchangesInv

\* When the connection closes only exchanges that never ran are left.
LEMMA ClosedKeeps ==
    ASSUME Http2Inv, ExchangesInv, Closed, ex' \in [Streams -> ExchangeRecords]
    PROVE  ExchangesInv'
<1>t. /\ ex \in [Streams -> ExchangeRecords] /\ held \in [Legs -> Int] /\ Legs = {"front", "origin"}
      /\ held["front"] \in Int /\ held["origin"] \in Int
      /\ incoming \in [Streams -> Seq(Events)] /\ outgoing \in [Streams -> Seq(Events)]
      /\ Cardinality(Uploaders) \in Nat /\ Cardinality(Readers) \in Nat
      /\ Cardinality(Frames(incoming, Streams)) \in Nat /\ Cardinality(Frames(outgoing, Streams)) \in Nat
  BY ExchangesTyped DEF Legs
<1>a. Active \in SUBSET Streams /\ \A s \in Streams : s \in Active <=> Open(s)
  BY DEF Active
<1>u. /\ UNCHANGED <<wire, drain, graceful, closing, guest, sent>> /\ routes' = {} /\ closed' = TRUE /\ closing
      /\ incoming' = Emptied(incoming, Active) /\ outgoing' = Emptied(outgoing, Active)
      /\ \A s \in Streams : incoming'[s] = IF Open(s) THEN <<>> ELSE incoming[s]
      /\ \A s \in Streams : outgoing'[s] = IF Open(s) THEN <<>> ELSE outgoing[s]
      /\ \A s \in Active : ex[s].pc = "created"
  BY <1>a DEF Closed, Emptied
<1>e. \A s \in Streams :
          /\ ex'[s].pc = IF Open(s) THEN "retired" ELSE ex[s].pc
          /\ ex'[s].kind = ex[s].kind /\ ex'[s].id = ex[s].id /\ ex'[s].up = ex[s].up /\ ex'[s].down = ex[s].down
  <2>1. \A s \in Streams : ex'[s] = [ex[s] EXCEPT !.pc = IF Open(s) THEN "retired" ELSE ex[s].pc]
    BY DEF Closed
  <2> QED
    BY <1>t, <2>1 DEF ExchangeRecords
<1>m. \A s \in Streams : ~Open(s)' /\ Mapped(s)' = Mapped(s)
  BY <1>e DEF Open, Mapped
<1>h. /\ held' \in [Legs -> Int]
      /\ held'["front"] = held["front"] - Cardinality(Frames(incoming, Active))
      /\ held'["origin"] = held["origin"] - Cardinality(Frames(outgoing, Active))
  <2>1. held' = [l \in Legs |-> held[l] - Cardinality(Frames(Queue(l), Active))]
    BY DEF Closed, Discarded
  <2>2. Queue("front") = incoming /\ Queue("origin") = outgoing
    BY DEF Queue
  <2>3. Cardinality(Frames(incoming, Active)) \in Nat /\ Cardinality(Frames(outgoing, Active)) \in Nat
    BY <1>t, <1>a, FramesDiscarded
  <2> QED
    BY <1>t, <2>1, <2>2, <2>3
<1>1. QueuesTyped' /\ SidesTyped'
  BY <1>t, <1>a, <1>u, <1>h, FramesDiscarded DEF ExchangesInv, QueuesTyped, SidesTyped
<1>2. EndedIsEmpty'
  BY <1>a, <1>u, <1>e, <1>m DEF ExchangesInv, EndedIsEmpty
<1>3. IdsAreOwn'
  BY <1>u, <1>e, <1>m DEF ExchangesInv, IdsAreOwn, Open
<1>4. RoutesAreOwn'
  BY <1>u, <1>m DEF RoutesAreOwn
<1>5. ResponseKept'
  BY <1>u, <1>e, <1>m DEF ExchangesInv, ResponseKept
<1>6. HeadsFirst' /\ SocketsWait'
  BY <1>u, <1>e DEF ExchangesInv, HeadsFirst, SocketsWait
<1>7. EndsWhole'
  <2>1. Active' = {}
    BY <1>m DEF Active
  <2> QED
    BY <1>u, <2>1 DEF ExchangesInv, EndsWhole
<1>8. Balanced'
  <2>1. Uploaders' = Uploaders /\ Readers' = Readers
    BY <1>e DEF Uploaders, Readers
  <2>2. /\ Cardinality(Frames(incoming', Streams)) = Cardinality(Frames(incoming, Streams)) - Cardinality(Frames(incoming, Active))
        /\ Cardinality(Frames(outgoing', Streams)) = Cardinality(Frames(outgoing, Streams)) - Cardinality(Frames(outgoing, Active))
        /\ Cardinality(Frames(incoming, Active)) \in Nat /\ Cardinality(Frames(outgoing, Active)) \in Nat
    BY <1>t, <1>a, <1>u, FramesDiscarded
  <2> QED
    BY <1>t, <1>h, <2>1, <2>2 DEF ExchangesInv, Balanced
<1> QED
  BY <1>1, <1>2, <1>3, <1>4, <1>5, <1>6, <1>7, <1>8 DEF ExchangesInv

LEMMA ExchangesNext == ASSUME Http2Inv, ExchangesInv, Next PROVE ExchangesInv'
<1>x. ex' \in [Streams -> ExchangeRecords]
  BY Http2Follows DEF ExchangesFollow
<1>g. graceful \in BOOLEAN /\ closing \in BOOLEAN /\ guest \in [Streams -> GuestRecords]
  BY DEF ExchangesInv, SidesTyped
<1>1. ASSUME NEW s \in Streams, TaskStep(s) PROVE ExchangesInv'
  <2>1. CASE Refused(s) \/ PumpFails(s) \/ Finishes(s) \/ LearnsOfCancel(s)
    <3>1. (\E b : Retire(s, b)) /\ Open(s)
      BY <2>1 DEF Refused, PumpFails, Finishes, LearnsOfCancel, Denied, Alive, Open
    <3> QED
      BY <3>1, RetiredKeeps
  <2>2. CASE Connects(s)
    <3>1. UNCHANGED <<ex, queues, routes, wire, drain, closing, closed, sent, graceful, guest>>
      BY <2>2 DEF Connects, shutdown
    <3> QED
      BY <1>g, <3>1, ExchangesStand
  <2> QED
    BY <1>x, <1>1, <2>1, <2>2, StartsKeeps, OpensKeeps, UploadTakesKeeps, UploadWritesKeeps, ResponseTakesKeeps,
       ResponseWritesKeeps DEF TaskStep
<1>2. ASSUME NEW s \in Streams, GuestResets(s) PROVE ExchangesInv'
  <2>1. {s} \in SUBSET Streams /\ CancelExchanges({s})
        /\ UNCHANGED <<routes, wire, sent, graceful, closed, drain, closing>>
    BY <1>2 DEF GuestResets, shutdown
  <2> QED
    BY <1>g, <2>1, CancelKeeps
<1>3. ASSUME NEW limit, Drain(limit), UNCHANGED <<routes, wire, sent>> PROVE ExchangesInv'
  <2>1. Undrained(limit) \in SUBSET Streams
    BY DEF Undrained, Active
  <2>2. CancelExchanges(Undrained(limit)) /\ drain' /\ UNCHANGED <<graceful, closing, closed>>
    BY <1>3 DEF Drain
  <2> QED
    BY <1>g, <1>3, <2>1, <2>2, CancelKeeps
<1>4. ASSUME NEW id \in Ids, OriginResets(id) PROVE ExchangesInv'
  <2>1. Routed(id) \in SUBSET Streams
    BY DEF Routed, ExchangesInv, RoutesAreOwn
  <2>2. CancelExchanges(Routed(id)) /\ UNCHANGED <<routes, wire, sent, graceful, closed, drain, closing>>
    BY <1>4 DEF OriginResets, shutdown
  <2> QED
    BY <1>g, <2>1, <2>2, CancelKeeps
<1>5. CASE OriginEof
  <2>1. PICK S \in SUBSET Streams : CancelExchanges(S)
    BY <1>5 DEF OriginEof, Active
  <2>2. UNCHANGED <<routes, wire, sent, graceful, closed, drain, closing>>
    BY <1>5 DEF OriginEof, shutdown
  <2> QED
    BY <1>g, <2>1, <2>2, CancelKeeps
<1>6. CASE Stops \/ Closes
  <2>1. Active \in SUBSET Streams
    BY DEF Active
  <2>2. CancelExchanges(Active) /\ UNCHANGED <<routes, wire, sent, graceful, closed, drain>> /\ closing' = TRUE
    BY <1>6 DEF Stops, Closes
  <2> QED
    BY <1>g, <2>1, <2>2, CancelKeeps
<1>7. CASE DrainsEmpty
  <2>1. /\ UNCHANGED <<ex, queues, routes, wire, drain, closing, closed, sent, guest>>
        /\ graceful' = TRUE /\ drain /\ Active = {}
    BY <1>7 DEF DrainsEmpty
  <2> QED
    BY <1>g, <2>1, ExchangesStand
<1> QED
  BY <1>x, <1>1, <1>2, <1>3, <1>4, <1>5, <1>6, <1>7, RequestedKeeps, GuestSendsKeeps, OriginSendsKeeps, ClosedKeeps
     DEF Next, GuestGoesAway, OriginGoesAway

\* What the invariant says is what the run checks.
LEMMA ExchangesAreSound == ASSUME Http2Inv, ExchangesInv PROVE ExchangesSound
<1>t. /\ ex \in [Streams -> ExchangeRecords] /\ held \in [Legs -> Int]
      /\ incoming \in [Streams -> Seq(Events)] /\ outgoing \in [Streams -> Seq(Events)]
      /\ \A s \in Streams : guest[s].down \in Seq(Events) /\ (Mapped(s) => sent[ex[s].id] \in Seq(Events))
  BY ExchangesTyped
<1>b. /\ held["front"] = Cardinality(Frames(incoming, Streams)) + Cardinality(Uploaders)
      /\ held["origin"] = Cardinality(Frames(outgoing, Streams)) + Cardinality(Readers)
  BY DEF ExchangesInv, Balanced
<1>1. \A l \in Legs : held[l] = Cardinality(Frames(Queue(l), Streams)) + Cardinality({s \in Streams : Holds(s, l)})
  <2>1. {s \in Streams : Holds(s, "front")} = Uploaders /\ {s \in Streams : Holds(s, "origin")} = Readers
    BY DEF Holds, Uploaders, Readers
  <2>2. Queue("front") = incoming /\ Queue("origin") = outgoing
    BY DEF Queue
  <2> QED
    BY <1>b, <2>1, <2>2 DEF Legs
<1>2. ASSUME closed PROVE held = [l \in Legs |-> 0]
  <2>1. \A s \in Streams : ~Open(s)
    BY <1>2 DEF ExchangesInv, EndsWhole, Active
  <2>2. \A s \in Streams : incoming[s] = <<>> /\ outgoing[s] = <<>> /\ ex[s].up # "data" /\ ex[s].down # "data"
    BY <2>1 DEF ExchangesInv, EndedIsEmpty, Open
  <2>3. Uploaders = {} /\ Readers = {}
    BY <2>2 DEF Uploaders, Readers
  <2>4. Cardinality(Uploaders) = 0 /\ Cardinality(Readers) = 0
    BY <2>3, FS_EmptySet
  <2>5. Cardinality(Frames(incoming, Streams)) = 0 /\ Cardinality(Frames(outgoing, Streams)) = 0
    BY <1>t, <2>2, NoFrames
  <2>6. \A l \in Legs : held[l] = 0
    BY <1>b, <2>4, <2>5 DEF Legs
  <2> QED
    BY <1>t, <2>6
<1>3. ResponsesOwn
  <2> SUFFICES ASSUME NEW s \in Streams
               PROVE  IsPrefix(guest[s].down, IF Mapped(s) THEN sent[ex[s].id] ELSE <<>>)
    BY DEF ResponsesOwn
  <2>1. CASE Mapped(s)
    <3>1. PICK read \in Seq(Events), all \in Seq(Events) : read = guest[s].down /\ all = sent[ex[s].id]
      BY <1>t, <2>1
    <3>2. Begins(read, all)
      BY <2>1, <3>1 DEF ExchangesInv, ResponseKept
    <3>3. Len(read) \in Nat /\ Len(all) \in Nat /\ Len(read) <= Len(all) /\ \A i \in 1..Len(read) : read[i] = all[i]
      BY <3>2 DEF Begins
    <3>4. SubSeq(read, 1, Len(read)) = SubSeq(all, 1, Len(read))
      BY <3>3
    <3> QED
      BY <2>1, <3>1, <3>3, <3>4 DEF IsPrefix
  <2>2. CASE ~Mapped(s)
    <3>1. guest[s].down = <<>>
      BY <2>2 DEF ExchangesInv, ResponseKept
    <3> QED
      BY <2>2, <3>1 DEF IsPrefix
  <2> QED
    BY <2>1, <2>2
<1>4. GracefulIsHonest
  BY DEF ExchangesInv, EndsWhole, GracefulIsHonest
<1> QED
  BY <1>1, <1>2, <1>3, <1>4 DEF ExchangesSound, CreditsConserved

LEMMA ExchangesInit == Init => ExchangesInv
<1> SUFFICES ASSUME Init PROVE ExchangesInv
  OBVIOUS
<1>1. PICK first \in {NoExchange, Upgraded(1)} :
          /\ ex = [s \in Streams |-> IF s = 1 THEN first ELSE NoExchange]
          /\ routes = IF first # NoExchange THEN {<<1, 1>>} ELSE {}
          /\ wire = IF first # NoExchange THEN <<1>> ELSE <<>>
          /\ sent = IF first # NoExchange THEN << <<>> >> ELSE <<>>
          /\ guest = [s \in Streams |-> IF s = 1 /\ first # NoExchange THEN [NoGuest EXCEPT !.up = <<"end">>] ELSE NoGuest]
  BY DEF Init
<1>2. /\ NoExchange.pc = "none" /\ NoExchange.id = 0 /\ NoExchange.kind = "http" /\ NoExchange.up = "none"
      /\ NoExchange.down = "none" /\ ~NoExchange.cancelled
      /\ Upgraded(1).pc = "created" /\ Upgraded(1).id = 1 /\ Upgraded(1).kind = "h2c" /\ Upgraded(1).up = "none"
      /\ Upgraded(1).down = "none" /\ ~Upgraded(1).cancelled
  BY DEF NoExchange, Upgraded, NewExchange, NoId
<1>3. PICK h : h = (first # NoExchange)
  OBVIOUS
<1>e. \A s \in Streams :
          /\ ex[s].up = "none" /\ ex[s].down = "none" /\ ~ex[s].cancelled
          /\ ex[s].id = IF s = 1 /\ h THEN 1 ELSE 0
          /\ ex[s].pc = IF s = 1 /\ h THEN "created" ELSE "none"
          /\ ex[s].kind = IF s = 1 /\ h THEN "h2c" ELSE "http"
  <2>1. \A s \in Streams : ex[s] = IF s = 1 /\ h THEN Upgraded(1) ELSE NoExchange
    BY <1>1, <1>3
  <2> QED
    BY <1>2, <2>1
<1>q. /\ incoming = [s \in Streams |-> <<>>] /\ outgoing = [s \in Streams |-> <<>>] /\ held = [l \in Legs |-> 0]
      /\ drain = FALSE /\ graceful = FALSE /\ closing = FALSE /\ closed = FALSE
  BY DEF Init
<1>4. QueuesTyped
  BY <1>q DEF QueuesTyped
<1>g. guest \in [Streams -> GuestRecords] /\ \A s \in Streams : guest[s].down = <<>>
  <2>1. "end" \in Events
    BY DEF Events
  <2>2. <<>> \in Seq(Events) /\ <<"end">> \in Seq(Events)
    BY <2>1
  <2>3. PICK a, b : a = NoGuest /\ b = [NoGuest EXCEPT !.up = <<"end">>]
    OBVIOUS
  <2>4. a \in GuestRecords /\ a.down = <<>> /\ b \in GuestRecords /\ b.down = <<>>
    BY <2>2, <2>3 DEF NoGuest, GuestRecords
  <2>5. \A s \in Streams : guest[s] = a \/ guest[s] = b
    BY <1>1, <2>3
  <2>6. guest = [s \in Streams |-> IF s = 1 /\ first # NoExchange THEN b ELSE a]
    BY <1>1, <2>3
  <2> QED
    BY <2>4, <2>5, <2>6
<1>s. /\ sent \in Seq(Seq(Events)) /\ Len(sent) = Len(wire) /\ \A j \in 1..Len(sent) : sent[j] = <<>>
      /\ h => Len(sent) = 1
  <2>1. CASE h
    <3>0. <<>> \in Seq(Events)
      OBVIOUS
    <3>1. PICK empty \in Seq(Events) : empty = <<>>
      BY <3>0
    <3>2. sent = <<empty>> /\ wire = <<1>>
      BY <1>1, <1>3, <2>1, <3>1
    <3> QED
      BY <3>1, <3>2
  <2>2. CASE ~h
    BY <1>1, <1>3, <2>2
  <2> QED
    BY <2>1, <2>2
<1>5. SidesTyped
  BY <1>q, <1>g, <1>s DEF SidesTyped
<1>6. EndedIsEmpty
  BY <1>e, <1>q DEF EndedIsEmpty
<1>7. IdsAreOwn
  BY <1>e, <1>s DEF IdsAreOwn, Mapped, NoId
<1>8. RoutesAreOwn
  <2>1. \A s \in Streams : Open(s) /\ Mapped(s) => s = 1 /\ h
    BY <1>e DEF Open, Mapped, NoId
  <2>2. h => Open(1) /\ Mapped(1) /\ ex[1].id = 1 /\ routes = {<<1, 1>>}
    BY <1>1, <1>3, <1>e, StreamsAssumption DEF Open, Mapped, NoId
  <2>3. ~h => routes = {}
    BY <1>1, <1>3
  <2> QED
    BY <2>1, <2>2, <2>3, StreamsAssumption DEF RoutesAreOwn
<1>9. ResponseKept
  <2>1. Whole(<<>>, 0, <<>>, <<>>) /\ Begins(<<>>, <<>>)
    BY DEF Whole, Begins
  <2>2. \A s \in Streams : Hand(s) = 0 /\ outgoing[s] = <<>> /\ (Mapped(s) => sent[ex[s].id] = <<>>)
    BY <1>e, <1>q, <1>s DEF Hand, Mapped, NoId
  <2> QED
    BY <1>e, <1>g, <2>1, <2>2 DEF ResponseKept
<1>10. HeadsFirst
  BY <1>s DEF HeadsFirst
<1>11. SocketsWait
  BY <1>e DEF SocketsWait
<1>12. EndsWhole
  BY <1>q DEF EndsWhole
<1>13. Balanced
  <2>1. Uploaders = {} /\ Readers = {}
    BY <1>e DEF Uploaders, Readers
  <2>2. Cardinality(Uploaders) = 0 /\ Cardinality(Readers) = 0
    BY <2>1, FS_EmptySet
  <2>3. Cardinality(Frames(incoming, Streams)) = 0 /\ Cardinality(Frames(outgoing, Streams)) = 0
    <3>1. /\ incoming \in [Streams -> Seq(Events)] /\ outgoing \in [Streams -> Seq(Events)]
          /\ \A s \in Streams : incoming[s] = <<>> /\ outgoing[s] = <<>>
      BY <1>q
    <3> QED
      BY <3>1, NoFrames
  <2> QED
    BY <1>q, <2>2, <2>3 DEF Balanced, Legs
<1> QED
  BY <1>4, <1>5, <1>6, <1>7, <1>8, <1>9, <1>10, <1>11, <1>12, <1>13 DEF ExchangesInv

=============================================================================
