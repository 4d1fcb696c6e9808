-------------------------- MODULE SandboxPodsProofs --------------------------
(***************************************************************************)
(* Machine-checked safety of what runs in the Pods of a sandbox, for any   *)
(* number of executions, processes, revisions, streams and flows: the      *)
(* execution path starts an execution at most once and only when released, *)
(* the guest executor accounts for every process tree, an egress process   *)
(* never regresses, what a guest was told keeps its keys, an HTTP/2        *)
(* connection credits DATA once, keeps responses to their streams and      *)
(* takes no request once it drains, and a flow ends with nothing open.     *)
(*                                                                         *)
(* One component moves in a behaviour, so there is one inductive invariant *)
(* for each: FlowsInv, DeliveryInv, GuestInv, ExecInv and IdentityInv, and *)
(* of Http2ProxyProofs Http2Inv and ExchangesInv.                          *)
(***************************************************************************)
EXTENDS MCSandboxPods, Http2ProxyProofs, WellFoundedInduction, TLAPS

-----------------------------------------------------------------------------
\* A set of numbers that is not empty has a least member.
LEMMA LeastExists ==
  ASSUME NEW S \in SUBSET Nat, S # {}
  PROVE  \E x \in S : \A y \in S : x <= y
<1>1. PICK R : R = OpToRel(<, Nat)
  OBVIOUS
<1>2. IsWellFoundedOn(R, Nat)
  BY <1>1, NatLessThanWellFounded
<1>3. PICK x \in S : \A y \in S : ~ (<<y, x>> \in R)
  BY <1>2, WFMin
<1>4. \A i, j \in Nat : <<i, j>> \in R <=> i < j
  BY <1>1 DEF OpToRel
<1>5. ASSUME NEW y \in S PROVE x <= y
  <2>1. y \in Nat /\ x \in Nat /\ ~ (<<y, x>> \in R)
    BY <1>3
  <2>2. <<y, x>> \in R <=> y < x
    BY <1>4, <2>1
  <2> QED
    BY <2>1, <2>2
<1> QED
  BY <1>5

\* A set of numbers that is bounded and not empty has a greatest member.
LEMMA GreatestExists ==
  ASSUME NEW S \in SUBSET Nat, S # {}, NEW top \in Nat, \A x \in S : x <= top
  PROVE  \E x \in S : \A y \in S : y <= x
<1>0. PICK U : U = {j \in Nat : \A x \in S : x <= j}
  OBVIOUS
<1>1. PICK m \in U : \A j \in U : m <= j
  <2>1. U \in SUBSET Nat /\ top \in U
    BY <1>0
  <2> QED
    BY <2>1, LeastExists
<1>2. CASE m \in S
  BY <1>0, <1>1, <1>2
<1>3. CASE m \notin S
  <2>1. m # 0
    <3>1. PICK x \in S : TRUE
      OBVIOUS
    <3> QED
      BY <1>0, <1>1, <1>3, <3>1
  <2>2. m - 1 \in U
    BY <1>0, <1>1, <1>3, <2>1
  <2>3. m \in Nat
    BY <1>0, <1>1
  <2> QED
    BY <1>1, <2>2, <2>3
<1> QED
  BY <1>2, <1>3

-----------------------------------------------------------------------------
(***************************************************************************)
(* EgressFlows: whatever a flow holds open, an owner still to be passed    *)
(* releases it; and the slots are accounted for.                           *)
(***************************************************************************)

Holdings == {"guest", "guestTls", "fresh", "origin", "originTls", "lookup"}
Gone == {"none", "refused", "done"}
Places == Flow!Failing \cup Flow!Owners \cup Gone \cup {"start", "leaving"}
FlowStages == {"down", "fence", "listening", "serving", "refusing", "closing", "cancelling", "stopped"}
FlowRecords == [pc : Places, open : SUBSET Holdings, tls : BOOLEAN, up : BOOLEAN, leg : BOOLEAN,
    within : {"accept", "proxy"}, alpn : {"h1", "h2"}, upload : BOOLEAN, next : Int]

\* Where a task stands under TLSStream.accept; where a socket is not yet the flow's.
UnderAccept(f) ==
    \/ f.pc \in {"hello", "inspect", "inspector", "compose", "finish", "accept"}
    \/ f.pc \in {"dial", "connector"} /\ f.within = "accept"
Connecting == {"dial", "inspect", "h2", "connector", "inspector"}

\* Each thing that is open has an owner that has still to be passed.
Owned(f) ==
    /\ f.pc \in Gone => f.open = {}
    /\ f.pc = "leaving" => f.open \subseteq {"lookup"}
    /\ f.pc = "start" => f.open \subseteq {"guest"}
    /\ f.pc \in {"start", "classify", "hello", "dial", "inspect"} => ~f.up
    /\ f.pc \in {"dial", "inspect"} => "fresh" \in f.open
    /\ "guestTls" \in f.open => f.tls \/ UnderAccept(f)
    /\ "fresh" \in f.open => f.pc \in Connecting /\ ~f.up
    /\ "origin" \in f.open => f.up
    /\ "originTls" \in f.open => f.up \/ f.pc \in {"inspect", "inspector"}

FlowsTyped ==
    /\ stage \in FlowStages /\ fence \in BOOLEAN /\ slots \in SUBSET Flows
    /\ flow \in [Flows -> FlowRecords]
FlowsOwned == \A c \in Flows : Owned(flow[c]) /\ (flow[c].pc \notin Gone => c \in slots)
\* When the tasks are cancelled no guest's socket is open any more.
GuestsAreGone == stage \in {"cancelling", "stopped"} => Flow!NoGuest
SlotsHold == IsFiniteSet(slots) /\ Flow!SlotsBounded /\ Flow!StopIsWhole
FlowsInv == FlowsTyped /\ FlowsOwned /\ GuestsAreGone /\ SlotsHold

\* The instance's Cardinality is the one of the library.
LEMMA FlowCardinality == \A S : Flow!Cardinality(S) = Cardinality(S)
  BY DEF Flow!Cardinality, Cardinality

\* A task that ends with nothing open leaves nothing behind.
LEMMA OverIs ==
  ASSUME NEW f, f.open = {}
  PROVE  /\ Flow!Over(f) \in FlowRecords /\ Owned(Flow!Over(f))
         /\ Flow!Over(f).pc = "done" /\ Flow!Over(f).open = {}
<1>0. Flow!NoFlow \in FlowRecords
  BY DEF Flow!NoFlow, FlowRecords, Places, Gone, Holdings
<1>1. PICK n \in FlowRecords : n = Flow!NoFlow
  BY <1>0
<1>2. PICK g : g = [n EXCEPT !.pc = "done", !.open = {}]
  OBVIOUS
<1>3. Flow!Over(f) = g
  BY <1>1, <1>2 DEF Flow!Over
<1>4. g \in FlowRecords /\ g.pc = "done" /\ g.open = {}
  BY <1>1, <1>2 DEF FlowRecords, Places, Gone, Holdings
<1>5. Owned(g)
  BY <1>4 DEF Owned, Gone, UnderAccept, Connecting
<1> QED
  BY <1>3, <1>4, <1>5

LEMMA FlowsInit == Flow!Init => FlowsInv
<1> SUFFICES ASSUME Flow!Init PROVE FlowsInv
  OBVIOUS
<1>1. Flow!NoFlow \in FlowRecords /\ Owned(Flow!NoFlow) /\ Flow!NoFlow.pc = "none" /\ Flow!NoFlow.open = {}
  BY DEF Flow!NoFlow, FlowRecords, Places, Gone, Holdings, Owned, UnderAccept, Connecting
<1>2. IsFiniteSet({}) /\ Cardinality({}) = 0
  BY FS_EmptySet
<1>3. SlotsHold
  BY <1>2, FlowCardinality, FlowsAssumption DEF Flow!Init, SlotsHold, Flow!SlotsBounded, Flow!StopIsWhole
<1> QED
  BY <1>1, <1>3 DEF Flow!Init, FlowsInv, FlowsTyped, FlowsOwned, GuestsAreGone, FlowStages, Gone

\* One flow moves, and takes no slot and no guest.
LEMMA OneFlow ==
    ASSUME FlowsInv, NEW c \in Flows, NEW f \in FlowRecords, Flow!Set(c, f), UNCHANGED slots,
           Owned(f), f.pc \notin Gone => flow[c].pc \notin Gone,
           "guest" \in f.open => "guest" \in flow[c].open
    PROVE  FlowsInv'
<1>1. FlowsTyped' /\ UNCHANGED <<stage, slots>>
  BY DEF FlowsInv, FlowsTyped, Flow!Set, Flow!process
<1>2. \A d \in Flows : flow'[d] = IF d = c THEN f ELSE flow[d]
  BY DEF FlowsInv, FlowsTyped, Flow!Set
<1>3. FlowsOwned'
  BY <1>1, <1>2 DEF FlowsInv, FlowsOwned, Owned, UnderAccept
<1>4. GuestsAreGone'
  BY <1>1, <1>2 DEF FlowsInv, GuestsAreGone, Flow!NoGuest
<1>5. SlotsHold'
  BY <1>1 DEF FlowsInv, SlotsHold, Flow!SlotsBounded, Flow!StopIsWhole
<1> QED
  BY <1>1, <1>3, <1>4, <1>5 DEF FlowsInv

\* The process moves.
LEMMA ProcessMoves ==
    ASSUME FlowsInv,
           \/ Flow!Establish \/ Flow!Listen \/ Flow!Healthy \/ Flow!Install \/ Flow!StopAdmitting \/ Flow!CloseListener
           \/ Flow!CancelTasks \/ Flow!Gathered
    PROVE  FlowsInv'
<1>1. UNCHANGED flow /\ stage' \in FlowStages /\ fence' \in BOOLEAN
  BY DEF FlowsInv, FlowsTyped, FlowStages, Flow!Establish, Flow!Listen, Flow!Healthy, Flow!Install, Flow!StopAdmitting,
      Flow!CloseListener, Flow!CancelTasks, Flow!Gathered
<1>2. CASE UNCHANGED slots /\ stage' # "stopped"
  <2>1. FlowsTyped' /\ FlowsOwned'
    BY <1>1, <1>2 DEF FlowsInv, FlowsTyped, FlowsOwned, Owned, UnderAccept
  <2>2. GuestsAreGone'
    BY <1>1, <1>2 DEF FlowsInv, GuestsAreGone, Flow!NoGuest, Flow!Establish, Flow!Listen, Flow!Healthy, Flow!Install,
        Flow!StopAdmitting, Flow!CloseListener, Flow!CancelTasks, Flow!Gathered
  <2>3. SlotsHold'
    BY <1>1, <1>2 DEF FlowsInv, SlotsHold, Flow!SlotsBounded, Flow!StopIsWhole
  <2> QED
    BY <2>1, <2>2, <2>3 DEF FlowsInv
<1>3. CASE Flow!Gathered
  <2>1. FlowsTyped'
    BY <1>1, <1>3 DEF FlowsInv, FlowsTyped, Flow!Gathered
  <2>2. \A c \in Flows : flow[c].pc \in Gone
    BY <1>3 DEF FlowsInv, FlowsOwned, Flow!Gathered, Gone
  <2>3. FlowsOwned'
    BY <1>1, <2>2 DEF FlowsInv, FlowsOwned, Owned, UnderAccept
  <2>4. GuestsAreGone'
    BY <1>1, <1>3 DEF FlowsInv, GuestsAreGone, Flow!NoGuest, Flow!Gathered
  <2>5. SlotsHold'
    BY <1>3, FlowCardinality, FS_EmptySet, FlowsAssumption DEF SlotsHold, Flow!SlotsBounded, Flow!StopIsWhole, Flow!Gathered
  <2> QED
    BY <2>1, <2>3, <2>4, <2>5 DEF FlowsInv
<1>4. CASE UNCHANGED slots /\ stage' = "stopped" /\ ~Flow!Gathered
  BY <1>4 DEF FlowsInv, FlowsTyped, Flow!Establish, Flow!Listen, Flow!Healthy, Flow!Install,
        Flow!StopAdmitting, Flow!CloseListener, Flow!CancelTasks
<1> QED
  BY <1>2, <1>3, <1>4 DEF Flow!Establish, Flow!Listen, Flow!Healthy, Flow!Install, Flow!StopAdmitting, Flow!CloseListener,
      Flow!CancelTasks, Flow!Gathered

\* A flow is admitted to a slot that is free, or refused.
LEMMA FlowIsAccepted == ASSUME FlowsInv, NEW c \in Flows, Flow!Accept(c) PROVE FlowsInv'
<1> DEFINE g == [Flow!NoFlow EXCEPT !.pc = "start", !.open = {"guest"}]
<1>1. Flow!NoFlow \in FlowRecords /\ Flow!NoFlow.open = {} /\ Flow!NoFlow.up = FALSE /\ Flow!NoFlow.tls = FALSE
  BY DEF Flow!NoFlow, FlowRecords, Places, Gone
<1>2. CASE Flow!Set(c, [Flow!NoFlow EXCEPT !.pc = "refused"]) /\ UNCHANGED slots
  <2>1. PICK h : h = [Flow!NoFlow EXCEPT !.pc = "refused"]
    OBVIOUS
  <2>2. h \in FlowRecords /\ h.pc = "refused" /\ h.open = {}
    BY <1>1, <2>1 DEF FlowRecords, Places, Gone
  <2>3. Owned(h) /\ h.pc \in Gone
    BY <2>2 DEF Owned, Gone, UnderAccept, Connecting
  <2> QED
    BY <1>2, <2>1, <2>2, <2>3, OneFlow
<1>3. CASE Flow!Admitted /\ Flow!Set(c, g) /\ slots' = slots \cup {c}
  <2>1. PICK h : h = g
    OBVIOUS
  <2>2. h \in FlowRecords /\ h.pc = "start" /\ h.open = {"guest"} /\ ~h.up /\ ~h.tls
    BY <1>1, <2>1 DEF FlowRecords, Places, Holdings
  <2>3. Owned(h)
    BY <2>2 DEF Owned, Gone, UnderAccept, Connecting
  <2>4. flow' = [flow EXCEPT ![c] = h] /\ UNCHANGED <<stage, fence>>
    BY <1>3, <2>1 DEF Flow!Set, Flow!process
  <2>5. \A d \in Flows : flow'[d] = IF d = c THEN h ELSE flow[d]
    BY <2>4 DEF FlowsInv, FlowsTyped
  <2>6. FlowsTyped'
    BY <1>3, <2>2, <2>4 DEF FlowsInv, FlowsTyped
  <2>7. FlowsOwned'
    BY <1>3, <2>3, <2>5 DEF FlowsInv, FlowsOwned, Owned, UnderAccept
  <2>8. stage \notin {"cancelling", "stopped"}
    BY DEF Flow!Accept
  <2>9. IsFiniteSet(slots') /\ Cardinality(slots') <= Cardinality(slots) + 1
    <3>1. IsFiniteSet(slots) /\ Cardinality(slots) \in Nat
      BY FS_CardinalityType DEF FlowsInv, SlotsHold
    <3>2. IsFiniteSet(slots \cup {c})
          /\ Cardinality(slots \cup {c}) = IF c \in slots THEN Cardinality(slots) ELSE Cardinality(slots) + 1
      BY <3>1, FS_AddElement
    <3> QED
      BY <1>3, <3>1, <3>2
  <2>10. Cardinality(slots) < MaxFlows /\ Cardinality(slots) \in Nat /\ Cardinality(slots') \in Nat
    BY <1>3, <2>9, FlowCardinality, FS_CardinalityType DEF FlowsInv, SlotsHold, Flow!Admitted
  <2>11. Cardinality(slots') <= MaxFlows
    BY <2>9, <2>10, FlowsAssumption
  <2>12. SlotsHold'
    BY <2>4, <2>8, <2>9, <2>11, FlowCardinality DEF SlotsHold, Flow!SlotsBounded, Flow!StopIsWhole
  <2>13. GuestsAreGone'
    BY <2>4, <2>8 DEF GuestsAreGone
  <2> QED
    BY <2>6, <2>7, <2>12, <2>13 DEF FlowsInv
<1> QED
  BY <1>2, <1>3 DEF Flow!Accept

\* A task that has ended gives its slot back.
LEMMA SlotIsGivenBack == ASSUME FlowsInv, NEW c \in Flows, Flow!Completed(c) PROVE FlowsInv'
<1>1. slots' = slots \ {c} /\ UNCHANGED <<stage, fence, flow>> /\ flow[c].pc = "done"
  BY DEF Flow!Completed, Flow!process
<1>2. FlowsTyped' /\ GuestsAreGone'
  BY <1>1 DEF FlowsInv, FlowsTyped, GuestsAreGone, Flow!NoGuest
<1>3. FlowsOwned'
  BY <1>1 DEF FlowsInv, FlowsOwned, Owned, UnderAccept, Gone
<1>4. IsFiniteSet(slots') /\ Cardinality(slots') <= Cardinality(slots)
  BY <1>1, FS_Subset DEF FlowsInv, SlotsHold
<1>5. Cardinality(slots) \in Nat /\ Cardinality(slots') \in Nat
  BY <1>4, FS_CardinalityType DEF FlowsInv, SlotsHold
<1>6. SlotsHold'
  BY <1>1, <1>4, <1>5, FlowCardinality, FlowsAssumption DEF FlowsInv, SlotsHold, Flow!SlotsBounded, Flow!StopIsWhole
<1> QED
  BY <1>2, <1>3, <1>6 DEF FlowsInv

\* A step of one flow.
LEMMA OneFlowMoves == ASSUME FlowsInv, NEW c \in Flows, Flow!FlowStep(c) PROVE FlowsInv'
<1> DEFINE f == flow[c]
<1>t. f \in FlowRecords /\ Owned(f)
  BY DEF FlowsInv, FlowsTyped, FlowsOwned
<1>m. ASSUME NEW g \in FlowRecords, Flow!Set(c, g), UNCHANGED slots, Owned(g),
             g.pc \notin Gone => f.pc \notin Gone, "guest" \in g.open => "guest" \in f.open
      PROVE  FlowsInv'
  BY <1>m, OneFlow
<1>1. CASE Flow!Accept(c)
  BY <1>1, FlowIsAccepted
<1>2. CASE Flow!Completed(c)
  BY <1>2, SlotIsGivenBack
<1>3. CASE Flow!Classify(c)
  <2>0. \/ \E g : Flow!Set(c, g) /\ UNCHANGED slots /\ f.pc = "start" /\ g = [f EXCEPT !.pc = "classify"]
        \/ \E g : Flow!Set(c, g) /\ UNCHANGED slots /\ f.pc = "classify" /\ g = [f EXCEPT !.pc = "hello", !.open = f.open \cup {"guestTls"}]
        \/ \E g : Flow!Set(c, g) /\ UNCHANGED slots /\ f.pc = "classify" /\ g = [f EXCEPT !.pc = "h2"]
        \/ \E g : Flow!Set(c, g) /\ UNCHANGED slots /\ f.pc = "classify" /\ g = [f EXCEPT !.pc = "head"]
    BY <1>3, <1>t DEF Flow!Classify, Flow!Work, Flow!Step, Flow!Goto
  <2>1. CASE \E g : Flow!Set(c, g) /\ UNCHANGED slots /\ f.pc = "start" /\ g = [f EXCEPT !.pc = "classify"]
    <3>1. PICK g : Flow!Set(c, g) /\ UNCHANGED slots /\ f.pc = "start" /\ g = [f EXCEPT !.pc = "classify"]
      BY <2>1
    <3>2. g \in FlowRecords
      BY <3>1, <1>t DEF FlowRecords, Places, Flow!Failing, Flow!Owners, Gone, Holdings
    <3>3. Owned(g)
      BY <3>1, <1>t DEF FlowRecords, Owned, Gone, UnderAccept, Connecting
    <3>4. (g.pc \notin Gone => f.pc \notin Gone) /\ ("guest" \in g.open => "guest" \in f.open)
      BY <3>1, <1>t DEF FlowRecords, Gone
    <3> QED
      BY <3>1, <3>2, <3>3, <3>4, <1>m
  <2>2. CASE \E g : Flow!Set(c, g) /\ UNCHANGED slots /\ f.pc = "classify" /\ g = [f EXCEPT !.pc = "hello", !.open = f.open \cup {"guestTls"}]
    <3>1. PICK g : Flow!Set(c, g) /\ UNCHANGED slots /\ f.pc = "classify" /\ g = [f EXCEPT !.pc = "hello", !.open = f.open \cup {"guestTls"}]
      BY <2>2
    <3>2. g \in FlowRecords
      BY <3>1, <1>t DEF FlowRecords, Places, Flow!Failing, Flow!Owners, Gone, Holdings
    <3>3. Owned(g)
      BY <3>1, <1>t DEF FlowRecords, Owned, Gone, UnderAccept, Connecting
    <3>4. (g.pc \notin Gone => f.pc \notin Gone) /\ ("guest" \in g.open => "guest" \in f.open)
      BY <3>1, <1>t DEF FlowRecords, Gone
    <3> QED
      BY <3>1, <3>2, <3>3, <3>4, <1>m
  <2>3. CASE \E g : Flow!Set(c, g) /\ UNCHANGED slots /\ f.pc = "classify" /\ g = [f EXCEPT !.pc = "h2"]
    <3>1. PICK g : Flow!Set(c, g) /\ UNCHANGED slots /\ f.pc = "classify" /\ g = [f EXCEPT !.pc = "h2"]
      BY <2>3
    <3>2. g \in FlowRecords
      BY <3>1, <1>t DEF FlowRecords, Places, Flow!Failing, Flow!Owners, Gone, Holdings
    <3>3. Owned(g)
      BY <3>1, <1>t DEF FlowRecords, Owned, Gone, UnderAccept, Connecting
    <3>4. (g.pc \notin Gone => f.pc \notin Gone) /\ ("guest" \in g.open => "guest" \in f.open)
      BY <3>1, <1>t DEF FlowRecords, Gone
    <3> QED
      BY <3>1, <3>2, <3>3, <3>4, <1>m
  <2>4. CASE \E g : Flow!Set(c, g) /\ UNCHANGED slots /\ f.pc = "classify" /\ g = [f EXCEPT !.pc = "head"]
    <3>1. PICK g : Flow!Set(c, g) /\ UNCHANGED slots /\ f.pc = "classify" /\ g = [f EXCEPT !.pc = "head"]
      BY <2>4
    <3>2. g \in FlowRecords
      BY <3>1, <1>t DEF FlowRecords, Places, Flow!Failing, Flow!Owners, Gone, Holdings
    <3>3. Owned(g)
      BY <3>1, <1>t DEF FlowRecords, Owned, Gone, UnderAccept, Connecting
    <3>4. (g.pc \notin Gone => f.pc \notin Gone) /\ ("guest" \in g.open => "guest" \in f.open)
      BY <3>1, <1>t DEF FlowRecords, Gone
    <3> QED
      BY <3>1, <3>2, <3>3, <3>4, <1>m
  <2> QED
    BY <2>0, <2>1, <2>2, <2>3, <2>4
<1>4. CASE Flow!Hello(c)
  <2>1. PICK g : Flow!Set(c, g) /\ UNCHANGED slots /\ f.pc = "hello" /\ g = [f EXCEPT !.pc = "dial", !.within = "accept", !.open = f.open \cup {"fresh"}]
    BY <1>4, <1>t DEF Flow!Hello, Flow!Work, Flow!Step, Flow!Goto, Flow!Dials
  <2>2. g \in FlowRecords
    BY <2>1, <1>t DEF FlowRecords, Places, Flow!Failing, Flow!Owners, Gone, Holdings
  <2>3. Owned(g)
    BY <2>1, <1>t DEF FlowRecords, Owned, Gone, UnderAccept, Connecting
  <2>4. (g.pc \notin Gone => f.pc \notin Gone) /\ ("guest" \in g.open => "guest" \in f.open)
    BY <2>1, <1>t DEF FlowRecords, Gone
  <2> QED
    BY <2>1, <2>2, <2>3, <2>4, <1>m
<1>5. CASE Flow!Inspect(c)
  <2>1. PICK g : Flow!Set(c, g) /\ UNCHANGED slots /\ f.pc = "dial" /\ f.within = "accept" /\ g = [f EXCEPT !.pc = "inspect", !.open = f.open \cup {"originTls"}]
    BY <1>5, <1>t DEF Flow!Inspect, Flow!Work, Flow!Step, Flow!Goto
  <2>2. g \in FlowRecords
    BY <2>1, <1>t DEF FlowRecords, Places, Flow!Failing, Flow!Owners, Gone, Holdings
  <2>3. Owned(g)
    BY <2>1, <1>t DEF FlowRecords, Owned, Gone, UnderAccept, Connecting
  <2>4. (g.pc \notin Gone => f.pc \notin Gone) /\ ("guest" \in g.open => "guest" \in f.open)
    BY <2>1, <1>t DEF FlowRecords, Gone
  <2> QED
    BY <2>1, <2>2, <2>3, <2>4, <1>m
<1>6. CASE Flow!Inspected(c)
  <2>0. \/ \E g : Flow!Set(c, g) /\ UNCHANGED slots /\ f.pc = "inspect" /\ g = [f EXCEPT !.open = (f.open \ {"fresh"}) \cup {"origin"}, !.up = TRUE, !.pc = "compose", !.alpn = "h1"]
        \/ \E g : Flow!Set(c, g) /\ UNCHANGED slots /\ f.pc = "inspect" /\ g = [f EXCEPT !.open = (f.open \ {"fresh"}) \cup {"origin"}, !.up = TRUE, !.pc = "compose", !.alpn = "h2"]
    BY <1>6, <1>t DEF Flow!Inspected, Flow!Work, Flow!Step, Flow!Goto, Flow!Taken
  <2>1. CASE \E g : Flow!Set(c, g) /\ UNCHANGED slots /\ f.pc = "inspect" /\ g = [f EXCEPT !.open = (f.open \ {"fresh"}) \cup {"origin"}, !.up = TRUE, !.pc = "compose", !.alpn = "h1"]
    <3>1. PICK g : Flow!Set(c, g) /\ UNCHANGED slots /\ f.pc = "inspect" /\ g = [f EXCEPT !.open = (f.open \ {"fresh"}) \cup {"origin"}, !.up = TRUE, !.pc = "compose", !.alpn = "h1"]
      BY <2>1
    <3>2. g \in FlowRecords
      BY <3>1, <1>t DEF FlowRecords, Places, Flow!Failing, Flow!Owners, Gone, Holdings
    <3>3. Owned(g)
      BY <3>1, <1>t DEF FlowRecords, Owned, Gone, UnderAccept, Connecting
    <3>4. (g.pc \notin Gone => f.pc \notin Gone) /\ ("guest" \in g.open => "guest" \in f.open)
      BY <3>1, <1>t DEF FlowRecords, Gone
    <3> QED
      BY <3>1, <3>2, <3>3, <3>4, <1>m
  <2>2. CASE \E g : Flow!Set(c, g) /\ UNCHANGED slots /\ f.pc = "inspect" /\ g = [f EXCEPT !.open = (f.open \ {"fresh"}) \cup {"origin"}, !.up = TRUE, !.pc = "compose", !.alpn = "h2"]
    <3>1. PICK g : Flow!Set(c, g) /\ UNCHANGED slots /\ f.pc = "inspect" /\ g = [f EXCEPT !.open = (f.open \ {"fresh"}) \cup {"origin"}, !.up = TRUE, !.pc = "compose", !.alpn = "h2"]
      BY <2>2
    <3>2. g \in FlowRecords
      BY <3>1, <1>t DEF FlowRecords, Places, Flow!Failing, Flow!Owners, Gone, Holdings
    <3>3. Owned(g)
      BY <3>1, <1>t DEF FlowRecords, Owned, Gone, UnderAccept, Connecting
    <3>4. (g.pc \notin Gone => f.pc \notin Gone) /\ ("guest" \in g.open => "guest" \in f.open)
      BY <3>1, <1>t DEF FlowRecords, Gone
    <3> QED
      BY <3>1, <3>2, <3>3, <3>4, <1>m
  <2> QED
    BY <2>0, <2>1, <2>2
<1>7. CASE Flow!Resume(c)
  <2>1. PICK g : Flow!Set(c, g) /\ UNCHANGED slots /\ f.pc = "compose" /\ g = [f EXCEPT !.pc = "finish"]
    BY <1>7, <1>t DEF Flow!Resume, Flow!Work, Flow!Step, Flow!Goto
  <2>2. g \in FlowRecords
    BY <2>1, <1>t DEF FlowRecords, Places, Flow!Failing, Flow!Owners, Gone, Holdings
  <2>3. Owned(g)
    BY <2>1, <1>t DEF FlowRecords, Owned, Gone, UnderAccept, Connecting
  <2>4. (g.pc \notin Gone => f.pc \notin Gone) /\ ("guest" \in g.open => "guest" \in f.open)
    BY <2>1, <1>t DEF FlowRecords, Gone
  <2> QED
    BY <2>1, <2>2, <2>3, <2>4, <1>m
<1>8. CASE Flow!Completes(c)
  <2>0. \/ \E g : Flow!Set(c, g) /\ UNCHANGED slots /\ f.pc = "finish" /\ g = [f EXCEPT !.pc = "h2", !.tls = TRUE]
        \/ \E g : Flow!Set(c, g) /\ UNCHANGED slots /\ f.pc = "finish" /\ g = [f EXCEPT !.pc = "head", !.tls = TRUE]
    BY <1>8, <1>t DEF Flow!Completes, Flow!Work, Flow!Step, Flow!Goto
  <2>1. CASE \E g : Flow!Set(c, g) /\ UNCHANGED slots /\ f.pc = "finish" /\ g = [f EXCEPT !.pc = "h2", !.tls = TRUE]
    <3>1. PICK g : Flow!Set(c, g) /\ UNCHANGED slots /\ f.pc = "finish" /\ g = [f EXCEPT !.pc = "h2", !.tls = TRUE]
      BY <2>1
    <3>2. g \in FlowRecords
      BY <3>1, <1>t DEF FlowRecords, Places, Flow!Failing, Flow!Owners, Gone, Holdings
    <3>3. Owned(g)
      BY <3>1, <1>t DEF FlowRecords, Owned, Gone, UnderAccept, Connecting
    <3>4. (g.pc \notin Gone => f.pc \notin Gone) /\ ("guest" \in g.open => "guest" \in f.open)
      BY <3>1, <1>t DEF FlowRecords, Gone
    <3> QED
      BY <3>1, <3>2, <3>3, <3>4, <1>m
  <2>2. CASE \E g : Flow!Set(c, g) /\ UNCHANGED slots /\ f.pc = "finish" /\ g = [f EXCEPT !.pc = "head", !.tls = TRUE]
    <3>1. PICK g : Flow!Set(c, g) /\ UNCHANGED slots /\ f.pc = "finish" /\ g = [f EXCEPT !.pc = "head", !.tls = TRUE]
      BY <2>2
    <3>2. g \in FlowRecords
      BY <3>1, <1>t DEF FlowRecords, Places, Flow!Failing, Flow!Owners, Gone, Holdings
    <3>3. Owned(g)
      BY <3>1, <1>t DEF FlowRecords, Owned, Gone, UnderAccept, Connecting
    <3>4. (g.pc \notin Gone => f.pc \notin Gone) /\ ("guest" \in g.open => "guest" \in f.open)
      BY <3>1, <1>t DEF FlowRecords, Gone
    <3> QED
      BY <3>1, <3>2, <3>3, <3>4, <1>m
  <2> QED
    BY <2>0, <2>1, <2>2
<1>9. CASE Flow!Request(c)
  <2>1. PICK g : Flow!Set(c, g) /\ UNCHANGED slots /\ f.pc = "head" /\ g = [f EXCEPT !.pc = "ask", !.next = f.next + 1]
    BY <1>9, <1>t DEF Flow!Request, Flow!Work, Flow!Step, Flow!Goto
  <2>a. f.next + 1 \in Int
    BY <1>t DEF FlowRecords
  <2>2. g \in FlowRecords
    BY <2>1, <2>a, <1>t DEF FlowRecords, Places, Flow!Failing
  <2>3. Owned(g)
    BY <2>1, <1>t DEF FlowRecords, Owned, Gone, UnderAccept, Connecting
  <2>4. (g.pc \notin Gone => f.pc \notin Gone) /\ ("guest" \in g.open => "guest" \in f.open)
    BY <2>1, <1>t DEF FlowRecords, Gone
  <2> QED
    BY <2>1, <2>2, <2>3, <2>4, <1>m
<1>10. CASE Flow!Lookup(c)
  <2>0. \/ \E g : Flow!Set(c, g) /\ UNCHANGED slots /\ f.pc = "ask" /\ g = [f EXCEPT !.open = f.open \cup {"lookup"}]
        \/ \E g : Flow!Set(c, g) /\ UNCHANGED slots /\ f.pc = "h2" /\ g = [f EXCEPT !.open = f.open \cup {"lookup"}]
    BY <1>10, <1>t DEF Flow!Lookup, Flow!Work, Flow!Step, Flow!Goto
  <2>1. CASE \E g : Flow!Set(c, g) /\ UNCHANGED slots /\ f.pc = "ask" /\ g = [f EXCEPT !.open = f.open \cup {"lookup"}]
    <3>1. PICK g : Flow!Set(c, g) /\ UNCHANGED slots /\ f.pc = "ask" /\ g = [f EXCEPT !.open = f.open \cup {"lookup"}]
      BY <2>1
    <3>2. g \in FlowRecords
      BY <3>1, <1>t DEF FlowRecords, Places, Flow!Failing, Flow!Owners, Gone, Holdings
    <3>3. Owned(g)
      BY <3>1, <1>t DEF FlowRecords, Owned, Gone, UnderAccept, Connecting
    <3>4. (g.pc \notin Gone => f.pc \notin Gone) /\ ("guest" \in g.open => "guest" \in f.open)
      BY <3>1, <1>t DEF FlowRecords, Gone
    <3> QED
      BY <3>1, <3>2, <3>3, <3>4, <1>m
  <2>2. CASE \E g : Flow!Set(c, g) /\ UNCHANGED slots /\ f.pc = "h2" /\ g = [f EXCEPT !.open = f.open \cup {"lookup"}]
    <3>1. PICK g : Flow!Set(c, g) /\ UNCHANGED slots /\ f.pc = "h2" /\ g = [f EXCEPT !.open = f.open \cup {"lookup"}]
      BY <2>2
    <3>2. g \in FlowRecords
      BY <3>1, <1>t DEF FlowRecords, Places, Flow!Failing, Flow!Owners, Gone, Holdings
    <3>3. Owned(g)
      BY <3>1, <1>t DEF FlowRecords, Owned, Gone, UnderAccept, Connecting
    <3>4. (g.pc \notin Gone => f.pc \notin Gone) /\ ("guest" \in g.open => "guest" \in f.open)
      BY <3>1, <1>t DEF FlowRecords, Gone
    <3> QED
      BY <3>1, <3>2, <3>3, <3>4, <1>m
  <2> QED
    BY <2>0, <2>1, <2>2
<1>11. CASE Flow!Authorize(c)
  <2>0. \/ \E g : Flow!Set(c, g) /\ UNCHANGED slots /\ f.pc = "ask" /\ g = [f EXCEPT !.pc = "write"]
        \/ \E g : Flow!Set(c, g) /\ UNCHANGED slots /\ f.pc = "ask" /\ g = [f EXCEPT !.pc = "adopt"]
    BY <1>11, <1>t DEF Flow!Authorize, Flow!Work, Flow!Step, Flow!Goto
  <2>1. CASE \E g : Flow!Set(c, g) /\ UNCHANGED slots /\ f.pc = "ask" /\ g = [f EXCEPT !.pc = "write"]
    <3>1. PICK g : Flow!Set(c, g) /\ UNCHANGED slots /\ f.pc = "ask" /\ g = [f EXCEPT !.pc = "write"]
      BY <2>1
    <3>2. g \in FlowRecords
      BY <3>1, <1>t DEF FlowRecords, Places, Flow!Failing, Flow!Owners, Gone, Holdings
    <3>3. Owned(g)
      BY <3>1, <1>t DEF FlowRecords, Owned, Gone, UnderAccept, Connecting
    <3>4. (g.pc \notin Gone => f.pc \notin Gone) /\ ("guest" \in g.open => "guest" \in f.open)
      BY <3>1, <1>t DEF FlowRecords, Gone
    <3> QED
      BY <3>1, <3>2, <3>3, <3>4, <1>m
  <2>2. CASE \E g : Flow!Set(c, g) /\ UNCHANGED slots /\ f.pc = "ask" /\ g = [f EXCEPT !.pc = "adopt"]
    <3>1. PICK g : Flow!Set(c, g) /\ UNCHANGED slots /\ f.pc = "ask" /\ g = [f EXCEPT !.pc = "adopt"]
      BY <2>2
    <3>2. g \in FlowRecords
      BY <3>1, <1>t DEF FlowRecords, Places, Flow!Failing, Flow!Owners, Gone, Holdings
    <3>3. Owned(g)
      BY <3>1, <1>t DEF FlowRecords, Owned, Gone, UnderAccept, Connecting
    <3>4. (g.pc \notin Gone => f.pc \notin Gone) /\ ("guest" \in g.open => "guest" \in f.open)
      BY <3>1, <1>t DEF FlowRecords, Gone
    <3> QED
      BY <3>1, <3>2, <3>3, <3>4, <1>m
  <2> QED
    BY <2>0, <2>1, <2>2
<1>12. CASE Flow!Adopt(c)
  <2>0. \/ \E g : Flow!Set(c, g) /\ UNCHANGED slots /\ f.pc = "adopt" /\ f.up /\ g = [f EXCEPT !.pc = "write", !.leg = TRUE]
        \/ \E g : Flow!Set(c, g) /\ UNCHANGED slots /\ f.pc = "adopt" /\ ~f.up /\ ~f.tls /\ g = [f EXCEPT !.pc = "dial", !.within = "proxy", !.open = f.open \cup {"fresh"}]
        \/ \E g : Flow!Set(c, g) /\ UNCHANGED slots /\ f.pc = "dial" /\ f.within = "proxy" /\ g = [f EXCEPT !.open = (f.open \ {"fresh"}) \cup {"origin"}, !.up = TRUE, !.pc = "write", !.leg = TRUE]
    BY <1>12, <1>t DEF Flow!Adopt, Flow!Work, Flow!Step, Flow!Goto, Flow!Dials, Flow!Taken
  <2>1. CASE \E g : Flow!Set(c, g) /\ UNCHANGED slots /\ f.pc = "adopt" /\ f.up /\ g = [f EXCEPT !.pc = "write", !.leg = TRUE]
    <3>1. PICK g : Flow!Set(c, g) /\ UNCHANGED slots /\ f.pc = "adopt" /\ f.up /\ g = [f EXCEPT !.pc = "write", !.leg = TRUE]
      BY <2>1
    <3>2. g \in FlowRecords
      BY <3>1, <1>t DEF FlowRecords, Places, Flow!Failing, Flow!Owners, Gone, Holdings
    <3>3. Owned(g)
      BY <3>1, <1>t DEF FlowRecords, Owned, Gone, UnderAccept, Connecting
    <3>4. (g.pc \notin Gone => f.pc \notin Gone) /\ ("guest" \in g.open => "guest" \in f.open)
      BY <3>1, <1>t DEF FlowRecords, Gone
    <3> QED
      BY <3>1, <3>2, <3>3, <3>4, <1>m
  <2>2. CASE \E g : Flow!Set(c, g) /\ UNCHANGED slots /\ f.pc = "adopt" /\ ~f.up /\ ~f.tls /\ g = [f EXCEPT !.pc = "dial", !.within = "proxy", !.open = f.open \cup {"fresh"}]
    <3>1. PICK g : Flow!Set(c, g) /\ UNCHANGED slots /\ f.pc = "adopt" /\ ~f.up /\ ~f.tls /\ g = [f EXCEPT !.pc = "dial", !.within = "proxy", !.open = f.open \cup {"fresh"}]
      BY <2>2
    <3>2. g \in FlowRecords
      BY <3>1, <1>t DEF FlowRecords, Places, Flow!Failing, Flow!Owners, Gone, Holdings
    <3>3. Owned(g)
      BY <3>1, <1>t DEF FlowRecords, Owned, Gone, UnderAccept, Connecting
    <3>4. (g.pc \notin Gone => f.pc \notin Gone) /\ ("guest" \in g.open => "guest" \in f.open)
      BY <3>1, <1>t DEF FlowRecords, Gone
    <3> QED
      BY <3>1, <3>2, <3>3, <3>4, <1>m
  <2>3. CASE \E g : Flow!Set(c, g) /\ UNCHANGED slots /\ f.pc = "dial" /\ f.within = "proxy" /\ g = [f EXCEPT !.open = (f.open \ {"fresh"}) \cup {"origin"}, !.up = TRUE, !.pc = "write", !.leg = TRUE]
    <3>1. PICK g : Flow!Set(c, g) /\ UNCHANGED slots /\ f.pc = "dial" /\ f.within = "proxy" /\ g = [f EXCEPT !.open = (f.open \ {"fresh"}) \cup {"origin"}, !.up = TRUE, !.pc = "write", !.leg = TRUE]
      BY <2>3
    <3>2. g \in FlowRecords
      BY <3>1, <1>t DEF FlowRecords, Places, Flow!Failing, Flow!Owners, Gone, Holdings
    <3>3. Owned(g)
      BY <3>1, <1>t DEF FlowRecords, Owned, Gone, UnderAccept, Connecting
    <3>4. (g.pc \notin Gone => f.pc \notin Gone) /\ ("guest" \in g.open => "guest" \in f.open)
      BY <3>1, <1>t DEF FlowRecords, Gone
    <3> QED
      BY <3>1, <3>2, <3>3, <3>4, <1>m
  <2> QED
    BY <2>0, <2>1, <2>2, <2>3
<1>13. CASE Flow!Write(c)
  <2>1. PICK g : Flow!Set(c, g) /\ UNCHANGED slots /\ f.pc = "write" /\ g = [f EXCEPT !.pc = "exchange", !.upload = TRUE]
    BY <1>13, <1>t DEF Flow!Write, Flow!Work, Flow!Step, Flow!Goto
  <2>2. g \in FlowRecords
    BY <2>1, <1>t DEF FlowRecords, Places, Flow!Failing, Flow!Owners, Gone, Holdings
  <2>3. Owned(g)
    BY <2>1, <1>t DEF FlowRecords, Owned, Gone, UnderAccept, Connecting
  <2>4. (g.pc \notin Gone => f.pc \notin Gone) /\ ("guest" \in g.open => "guest" \in f.open)
    BY <2>1, <1>t DEF FlowRecords, Gone
  <2> QED
    BY <2>1, <2>2, <2>3, <2>4, <1>m
<1>14. CASE Flow!UploadEnds(c)
  <2>1. PICK g : Flow!Set(c, g) /\ UNCHANGED slots /\ f.pc = "exchange" /\ g = [f EXCEPT !.upload = FALSE]
    BY <1>14, <1>t DEF Flow!UploadEnds, Flow!Work, Flow!Step, Flow!Goto
  <2>2. g \in FlowRecords
    BY <2>1, <1>t DEF FlowRecords, Places, Flow!Failing, Flow!Owners, Gone, Holdings
  <2>3. Owned(g)
    BY <2>1, <1>t DEF FlowRecords, Owned, Gone, UnderAccept, Connecting
  <2>4. (g.pc \notin Gone => f.pc \notin Gone) /\ ("guest" \in g.open => "guest" \in f.open)
    BY <2>1, <1>t DEF FlowRecords, Gone
  <2> QED
    BY <2>1, <2>2, <2>3, <2>4, <1>m
<1>15. CASE Flow!ResponseEarly(c)
  <2>1. PICK g : Flow!Set(c, g) /\ UNCHANGED slots /\ f.pc = "exchange" /\ g = [f EXCEPT !.pc = "finishFront", !.open = f.open \ Flow!Origin, !.leg = FALSE]
    BY <1>15, <1>t DEF Flow!ResponseEarly, Flow!Work, Flow!Step, Flow!Goto
  <2>2. g \in FlowRecords
    BY <2>1, <1>t DEF FlowRecords, Places, Flow!Failing, Flow!Owners, Gone, Holdings, Flow!Origin
  <2>3. Owned(g)
    BY <2>1, <1>t DEF FlowRecords, Owned, Gone, UnderAccept, Connecting, Flow!Origin
  <2>4. (g.pc \notin Gone => f.pc \notin Gone) /\ ("guest" \in g.open => "guest" \in f.open)
    BY <2>1, <1>t DEF FlowRecords, Gone, Flow!Origin
  <2> QED
    BY <2>1, <2>2, <2>3, <2>4, <1>m
<1>16. CASE Flow!Closes(c)
  <2>0. \/ \E g : Flow!Set(c, g) /\ UNCHANGED slots /\ f.pc = "exchange" /\ g = [f EXCEPT !.pc = "finishUp"]
        \/ \E g : Flow!Set(c, g) /\ UNCHANGED slots /\ f.pc = "head" /\ g = [f EXCEPT !.pc = "finishUp"]
        \/ \E g : Flow!Set(c, g) /\ UNCHANGED slots /\ f.pc = "head" /\ g = [f EXCEPT !.pc = "finishFront"]
    BY <1>16, <1>t DEF Flow!Closes, Flow!Work, Flow!Step, Flow!Goto, Flow!Finishing
  <2>1. CASE \E g : Flow!Set(c, g) /\ UNCHANGED slots /\ f.pc = "exchange" /\ g = [f EXCEPT !.pc = "finishUp"]
    <3>1. PICK g : Flow!Set(c, g) /\ UNCHANGED slots /\ f.pc = "exchange" /\ g = [f EXCEPT !.pc = "finishUp"]
      BY <2>1
    <3>2. g \in FlowRecords
      BY <3>1, <1>t DEF FlowRecords, Places, Flow!Failing, Flow!Owners, Gone, Holdings
    <3>3. Owned(g)
      BY <3>1, <1>t DEF FlowRecords, Owned, Gone, UnderAccept, Connecting
    <3>4. (g.pc \notin Gone => f.pc \notin Gone) /\ ("guest" \in g.open => "guest" \in f.open)
      BY <3>1, <1>t DEF FlowRecords, Gone
    <3> QED
      BY <3>1, <3>2, <3>3, <3>4, <1>m
  <2>2. CASE \E g : Flow!Set(c, g) /\ UNCHANGED slots /\ f.pc = "head" /\ g = [f EXCEPT !.pc = "finishUp"]
    <3>1. PICK g : Flow!Set(c, g) /\ UNCHANGED slots /\ f.pc = "head" /\ g = [f EXCEPT !.pc = "finishUp"]
      BY <2>2
    <3>2. g \in FlowRecords
      BY <3>1, <1>t DEF FlowRecords, Places, Flow!Failing, Flow!Owners, Gone, Holdings
    <3>3. Owned(g)
      BY <3>1, <1>t DEF FlowRecords, Owned, Gone, UnderAccept, Connecting
    <3>4. (g.pc \notin Gone => f.pc \notin Gone) /\ ("guest" \in g.open => "guest" \in f.open)
      BY <3>1, <1>t DEF FlowRecords, Gone
    <3> QED
      BY <3>1, <3>2, <3>3, <3>4, <1>m
  <2>3. CASE \E g : Flow!Set(c, g) /\ UNCHANGED slots /\ f.pc = "head" /\ g = [f EXCEPT !.pc = "finishFront"]
    <3>1. PICK g : Flow!Set(c, g) /\ UNCHANGED slots /\ f.pc = "head" /\ g = [f EXCEPT !.pc = "finishFront"]
      BY <2>3
    <3>2. g \in FlowRecords
      BY <3>1, <1>t DEF FlowRecords, Places, Flow!Failing, Flow!Owners, Gone, Holdings
    <3>3. Owned(g)
      BY <3>1, <1>t DEF FlowRecords, Owned, Gone, UnderAccept, Connecting
    <3>4. (g.pc \notin Gone => f.pc \notin Gone) /\ ("guest" \in g.open => "guest" \in f.open)
      BY <3>1, <1>t DEF FlowRecords, Gone
    <3> QED
      BY <3>1, <3>2, <3>3, <3>4, <1>m
  <2> QED
    BY <2>0, <2>1, <2>2, <2>3
<1>17. CASE Flow!ResponseReuses(c)
  <2>1. PICK g : Flow!Set(c, g) /\ UNCHANGED slots /\ f.pc = "exchange" /\ g = [f EXCEPT !.pc = "head"]
    BY <1>17, <1>t DEF Flow!ResponseReuses, Flow!Work, Flow!Step, Flow!Goto
  <2>2. g \in FlowRecords
    BY <2>1, <1>t DEF FlowRecords, Places, Flow!Failing, Flow!Owners, Gone, Holdings
  <2>3. Owned(g)
    BY <2>1, <1>t DEF FlowRecords, Owned, Gone, UnderAccept, Connecting
  <2>4. (g.pc \notin Gone => f.pc \notin Gone) /\ ("guest" \in g.open => "guest" \in f.open)
    BY <2>1, <1>t DEF FlowRecords, Gone
  <2> QED
    BY <2>1, <2>2, <2>3, <2>4, <1>m
<1>18. CASE Flow!ResponseRetires(c)
  <2>0. \/ \E g : Flow!Set(c, g) /\ UNCHANGED slots /\ f.pc = "exchange" /\ g = [f EXCEPT !.pc = "retire"]
        \/ \E g : Flow!Set(c, g) /\ UNCHANGED slots /\ f.pc = "retire" /\ g = [f EXCEPT !.pc = "head", !.open = f.open \ Flow!Origin, !.leg = FALSE]
    BY <1>18, <1>t DEF Flow!ResponseRetires, Flow!Work, Flow!Step, Flow!Goto
  <2>1. CASE \E g : Flow!Set(c, g) /\ UNCHANGED slots /\ f.pc = "exchange" /\ g = [f EXCEPT !.pc = "retire"]
    <3>1. PICK g : Flow!Set(c, g) /\ UNCHANGED slots /\ f.pc = "exchange" /\ g = [f EXCEPT !.pc = "retire"]
      BY <2>1
    <3>2. g \in FlowRecords
      BY <3>1, <1>t DEF FlowRecords, Places, Flow!Failing, Flow!Owners, Gone, Holdings, Flow!Origin
    <3>3. Owned(g)
      BY <3>1, <1>t DEF FlowRecords, Owned, Gone, UnderAccept, Connecting, Flow!Origin
    <3>4. (g.pc \notin Gone => f.pc \notin Gone) /\ ("guest" \in g.open => "guest" \in f.open)
      BY <3>1, <1>t DEF FlowRecords, Gone, Flow!Origin
    <3> QED
      BY <3>1, <3>2, <3>3, <3>4, <1>m
  <2>2. CASE \E g : Flow!Set(c, g) /\ UNCHANGED slots /\ f.pc = "retire" /\ g = [f EXCEPT !.pc = "head", !.open = f.open \ Flow!Origin, !.leg = FALSE]
    <3>1. PICK g : Flow!Set(c, g) /\ UNCHANGED slots /\ f.pc = "retire" /\ g = [f EXCEPT !.pc = "head", !.open = f.open \ Flow!Origin, !.leg = FALSE]
      BY <2>2
    <3>2. g \in FlowRecords
      BY <3>1, <1>t DEF FlowRecords, Places, Flow!Failing, Flow!Owners, Gone, Holdings, Flow!Origin
    <3>3. Owned(g)
      BY <3>1, <1>t DEF FlowRecords, Owned, Gone, UnderAccept, Connecting, Flow!Origin
    <3>4. (g.pc \notin Gone => f.pc \notin Gone) /\ ("guest" \in g.open => "guest" \in f.open)
      BY <3>1, <1>t DEF FlowRecords, Gone, Flow!Origin
    <3> QED
      BY <3>1, <3>2, <3>3, <3>4, <1>m
  <2> QED
    BY <2>0, <2>1, <2>2
<1>19. CASE Flow!Switch(c)
  <2>0. \/ \E g : Flow!Set(c, g) /\ UNCHANGED slots /\ f.pc = "exchange" /\ g = [f EXCEPT !.pc = "relay"]
        \/ \E g : Flow!Set(c, g) /\ UNCHANGED slots /\ f.pc = "exchange" /\ g = [f EXCEPT !.pc = "h2"]
        \/ \E g : Flow!Set(c, g) /\ UNCHANGED slots /\ f.pc = "relay" /\ g = [f EXCEPT !.pc = "finishUp"]
    BY <1>19, <1>t DEF Flow!Switch, Flow!Work, Flow!Step, Flow!Goto
  <2>1. CASE \E g : Flow!Set(c, g) /\ UNCHANGED slots /\ f.pc = "exchange" /\ g = [f EXCEPT !.pc = "relay"]
    <3>1. PICK g : Flow!Set(c, g) /\ UNCHANGED slots /\ f.pc = "exchange" /\ g = [f EXCEPT !.pc = "relay"]
      BY <2>1
    <3>2. g \in FlowRecords
      BY <3>1, <1>t DEF FlowRecords, Places, Flow!Failing, Flow!Owners, Gone, Holdings
    <3>3. Owned(g)
      BY <3>1, <1>t DEF FlowRecords, Owned, Gone, UnderAccept, Connecting
    <3>4. (g.pc \notin Gone => f.pc \notin Gone) /\ ("guest" \in g.open => "guest" \in f.open)
      BY <3>1, <1>t DEF FlowRecords, Gone
    <3> QED
      BY <3>1, <3>2, <3>3, <3>4, <1>m
  <2>2. CASE \E g : Flow!Set(c, g) /\ UNCHANGED slots /\ f.pc = "exchange" /\ g = [f EXCEPT !.pc = "h2"]
    <3>1. PICK g : Flow!Set(c, g) /\ UNCHANGED slots /\ f.pc = "exchange" /\ g = [f EXCEPT !.pc = "h2"]
      BY <2>2
    <3>2. g \in FlowRecords
      BY <3>1, <1>t DEF FlowRecords, Places, Flow!Failing, Flow!Owners, Gone, Holdings
    <3>3. Owned(g)
      BY <3>1, <1>t DEF FlowRecords, Owned, Gone, UnderAccept, Connecting
    <3>4. (g.pc \notin Gone => f.pc \notin Gone) /\ ("guest" \in g.open => "guest" \in f.open)
      BY <3>1, <1>t DEF FlowRecords, Gone
    <3> QED
      BY <3>1, <3>2, <3>3, <3>4, <1>m
  <2>3. CASE \E g : Flow!Set(c, g) /\ UNCHANGED slots /\ f.pc = "relay" /\ g = [f EXCEPT !.pc = "finishUp"]
    <3>1. PICK g : Flow!Set(c, g) /\ UNCHANGED slots /\ f.pc = "relay" /\ g = [f EXCEPT !.pc = "finishUp"]
      BY <2>3
    <3>2. g \in FlowRecords
      BY <3>1, <1>t DEF FlowRecords, Places, Flow!Failing, Flow!Owners, Gone, Holdings
    <3>3. Owned(g)
      BY <3>1, <1>t DEF FlowRecords, Owned, Gone, UnderAccept, Connecting
    <3>4. (g.pc \notin Gone => f.pc \notin Gone) /\ ("guest" \in g.open => "guest" \in f.open)
      BY <3>1, <1>t DEF FlowRecords, Gone
    <3> QED
      BY <3>1, <3>2, <3>3, <3>4, <1>m
  <2> QED
    BY <2>0, <2>1, <2>2, <2>3
<1>20. CASE Flow!Finishes(c)
  <2>0. \/ \E g : Flow!Set(c, g) /\ UNCHANGED slots /\ f.pc = "finishUp" /\ g = [f EXCEPT !.pc = "finishFront", !.open = f.open \ Flow!Origin]
        \/ \E g : Flow!Set(c, g) /\ UNCHANGED slots /\ f.pc = "finishFront" /\ g = [f EXCEPT !.pc = "run", !.open = f.open \ Flow!Guest]
    BY <1>20, <1>t DEF Flow!Finishes, Flow!Work, Flow!Step, Flow!Goto
  <2>1. CASE \E g : Flow!Set(c, g) /\ UNCHANGED slots /\ f.pc = "finishUp" /\ g = [f EXCEPT !.pc = "finishFront", !.open = f.open \ Flow!Origin]
    <3>1. PICK g : Flow!Set(c, g) /\ UNCHANGED slots /\ f.pc = "finishUp" /\ g = [f EXCEPT !.pc = "finishFront", !.open = f.open \ Flow!Origin]
      BY <2>1
    <3>2. g \in FlowRecords
      BY <3>1, <1>t DEF FlowRecords, Places, Flow!Failing, Flow!Owners, Gone, Holdings, Flow!Origin, Flow!Guest
    <3>3. Owned(g)
      BY <3>1, <1>t DEF FlowRecords, Owned, Gone, UnderAccept, Connecting, Flow!Origin, Flow!Guest
    <3>4. (g.pc \notin Gone => f.pc \notin Gone) /\ ("guest" \in g.open => "guest" \in f.open)
      BY <3>1, <1>t DEF FlowRecords, Gone, Flow!Origin, Flow!Guest
    <3> QED
      BY <3>1, <3>2, <3>3, <3>4, <1>m
  <2>2. CASE \E g : Flow!Set(c, g) /\ UNCHANGED slots /\ f.pc = "finishFront" /\ g = [f EXCEPT !.pc = "run", !.open = f.open \ Flow!Guest]
    <3>1. PICK g : Flow!Set(c, g) /\ UNCHANGED slots /\ f.pc = "finishFront" /\ g = [f EXCEPT !.pc = "run", !.open = f.open \ Flow!Guest]
      BY <2>2
    <3>2. g \in FlowRecords
      BY <3>1, <1>t DEF FlowRecords, Places, Flow!Failing, Flow!Owners, Gone, Holdings, Flow!Origin, Flow!Guest
    <3>3. Owned(g)
      BY <3>1, <1>t DEF FlowRecords, Owned, Gone, UnderAccept, Connecting, Flow!Origin, Flow!Guest
    <3>4. (g.pc \notin Gone => f.pc \notin Gone) /\ ("guest" \in g.open => "guest" \in f.open)
      BY <3>1, <1>t DEF FlowRecords, Gone, Flow!Origin, Flow!Guest
    <3> QED
      BY <3>1, <3>2, <3>3, <3>4, <1>m
  <2> QED
    BY <2>0, <2>1, <2>2
<1>21. CASE Flow!H2Connects(c)
  <2>0. \/ \E g : Flow!Set(c, g) /\ UNCHANGED slots /\ f.pc = "h2" /\ g = [f EXCEPT !.leg = TRUE]
        \/ \E g : Flow!Set(c, g) /\ UNCHANGED slots /\ f.pc = "h2" /\ ~f.up /\ ~f.tls /\ g = [f EXCEPT !.open = f.open \cup {"fresh"}, !.within = "proxy"]
        \/ \E g : Flow!Set(c, g) /\ UNCHANGED slots /\ f.pc = "h2" /\ "fresh" \in f.open /\ g = [f EXCEPT !.open = (f.open \ {"fresh"}) \cup {"origin"}, !.up = TRUE, !.leg = TRUE]
    BY <1>21, <1>t DEF Flow!H2Connects, Flow!Work, Flow!Step, Flow!Goto, Flow!Taken
  <2>1. CASE \E g : Flow!Set(c, g) /\ UNCHANGED slots /\ f.pc = "h2" /\ g = [f EXCEPT !.leg = TRUE]
    <3>1. PICK g : Flow!Set(c, g) /\ UNCHANGED slots /\ f.pc = "h2" /\ g = [f EXCEPT !.leg = TRUE]
      BY <2>1
    <3>2. g \in FlowRecords
      BY <3>1, <1>t DEF FlowRecords, Places, Flow!Failing, Flow!Owners, Gone, Holdings
    <3>3. Owned(g)
      BY <3>1, <1>t DEF FlowRecords, Owned, Gone, UnderAccept, Connecting
    <3>4. (g.pc \notin Gone => f.pc \notin Gone) /\ ("guest" \in g.open => "guest" \in f.open)
      BY <3>1, <1>t DEF FlowRecords, Gone
    <3> QED
      BY <3>1, <3>2, <3>3, <3>4, <1>m
  <2>2. CASE \E g : Flow!Set(c, g) /\ UNCHANGED slots /\ f.pc = "h2" /\ ~f.up /\ ~f.tls /\ g = [f EXCEPT !.open = f.open \cup {"fresh"}, !.within = "proxy"]
    <3>1. PICK g : Flow!Set(c, g) /\ UNCHANGED slots /\ f.pc = "h2" /\ ~f.up /\ ~f.tls /\ g = [f EXCEPT !.open = f.open \cup {"fresh"}, !.within = "proxy"]
      BY <2>2
    <3>2. g \in FlowRecords
      BY <3>1, <1>t DEF FlowRecords, Places, Flow!Failing, Flow!Owners, Gone, Holdings
    <3>3. Owned(g)
      BY <3>1, <1>t DEF FlowRecords, Owned, Gone, UnderAccept, Connecting
    <3>4. (g.pc \notin Gone => f.pc \notin Gone) /\ ("guest" \in g.open => "guest" \in f.open)
      BY <3>1, <1>t DEF FlowRecords, Gone
    <3> QED
      BY <3>1, <3>2, <3>3, <3>4, <1>m
  <2>3. CASE \E g : Flow!Set(c, g) /\ UNCHANGED slots /\ f.pc = "h2" /\ "fresh" \in f.open /\ g = [f EXCEPT !.open = (f.open \ {"fresh"}) \cup {"origin"}, !.up = TRUE, !.leg = TRUE]
    <3>1. PICK g : Flow!Set(c, g) /\ UNCHANGED slots /\ f.pc = "h2" /\ "fresh" \in f.open /\ g = [f EXCEPT !.open = (f.open \ {"fresh"}) \cup {"origin"}, !.up = TRUE, !.leg = TRUE]
      BY <2>3
    <3>2. g \in FlowRecords
      BY <3>1, <1>t DEF FlowRecords, Places, Flow!Failing, Flow!Owners, Gone, Holdings
    <3>3. Owned(g)
      BY <3>1, <1>t DEF FlowRecords, Owned, Gone, UnderAccept, Connecting
    <3>4. (g.pc \notin Gone => f.pc \notin Gone) /\ ("guest" \in g.open => "guest" \in f.open)
      BY <3>1, <1>t DEF FlowRecords, Gone
    <3> QED
      BY <3>1, <3>2, <3>3, <3>4, <1>m
  <2> QED
    BY <2>0, <2>1, <2>2, <2>3
<1>22. CASE Flow!CancelUnstarted(c)
  <2>1. PICK g : Flow!Set(c, g) /\ UNCHANGED slots /\ f.pc = "start" /\ f.open = {} /\ g = Flow!Over(f)
    BY <1>22, <1>t DEF Flow!CancelUnstarted, Flow!Step, FlowsInv, GuestsAreGone, Flow!NoGuest, Owned
  <2>2. g \in FlowRecords
    BY <2>1, OverIs
  <2>3. Owned(g)
    BY <2>1, OverIs
  <2>4. (g.pc \notin Gone => f.pc \notin Gone) /\ ("guest" \in g.open => "guest" \in f.open)
    BY <2>1, OverIs DEF Gone
  <2> QED
    BY <2>1, <2>2, <2>3, <2>4, <1>m
<1>23. CASE Flow!Leave(c)
  <2>1. PICK g : Flow!Set(c, g) /\ UNCHANGED slots /\ f.pc = "leaving" /\ "lookup" \notin f.open /\ f.open = {} /\ g = Flow!Over(f)
    BY <1>23, <1>t DEF Flow!Leave, Flow!Step, FlowsInv, FlowsOwned, Owned
  <2>2. g \in FlowRecords
    BY <2>1, OverIs
  <2>3. Owned(g)
    BY <2>1, OverIs
  <2>4. (g.pc \notin Gone => f.pc \notin Gone) /\ ("guest" \in g.open => "guest" \in f.open)
    BY <2>1, OverIs DEF Gone
  <2> QED
    BY <2>1, <2>2, <2>3, <2>4, <1>m
<1>24. CASE Flow!LookupEnds(c)
  <2>1. PICK g : Flow!Set(c, g) /\ UNCHANGED slots /\ "lookup" \in f.open /\ g = [f EXCEPT !.open = f.open \ {"lookup"}]
    BY <1>24, <1>t DEF Flow!LookupEnds, Flow!Work, Flow!Step, Flow!Goto
  <2>2. g \in FlowRecords
    BY <2>1, <1>t DEF FlowRecords, Places, Flow!Failing, Flow!Owners, Gone, Holdings
  <2>3. Owned(g)
    BY <2>1, <1>t DEF FlowRecords, Owned, Gone, UnderAccept, Connecting
  <2>4. (g.pc \notin Gone => f.pc \notin Gone) /\ ("guest" \in g.open => "guest" \in f.open)
    BY <2>1, <1>t DEF FlowRecords, Gone
  <2> QED
    BY <2>1, <2>2, <2>3, <2>4, <1>m
<1>25. CASE Flow!Drops(c)
  <2>0. \/ \E g : Flow!Set(c, g) /\ UNCHANGED slots /\ "guest" \in f.open /\ g = [f EXCEPT !.open = f.open \ {"guest"}]
        \/ \E g : Flow!Set(c, g) /\ UNCHANGED slots /\ "origin" \in f.open /\ g = [f EXCEPT !.open = f.open \ {"origin"}]
    BY <1>25, <1>t DEF Flow!Drops, Flow!Work, Flow!Step, Flow!Goto
  <2>1. CASE \E g : Flow!Set(c, g) /\ UNCHANGED slots /\ "guest" \in f.open /\ g = [f EXCEPT !.open = f.open \ {"guest"}]
    <3>1. PICK g : Flow!Set(c, g) /\ UNCHANGED slots /\ "guest" \in f.open /\ g = [f EXCEPT !.open = f.open \ {"guest"}]
      BY <2>1
    <3>2. g \in FlowRecords
      BY <3>1, <1>t DEF FlowRecords, Places, Flow!Failing, Flow!Owners, Gone, Holdings
    <3>3. Owned(g)
      BY <3>1, <1>t DEF FlowRecords, Owned, Gone, UnderAccept, Connecting
    <3>4. (g.pc \notin Gone => f.pc \notin Gone) /\ ("guest" \in g.open => "guest" \in f.open)
      BY <3>1, <1>t DEF FlowRecords, Gone
    <3> QED
      BY <3>1, <3>2, <3>3, <3>4, <1>m
  <2>2. CASE \E g : Flow!Set(c, g) /\ UNCHANGED slots /\ "origin" \in f.open /\ g = [f EXCEPT !.open = f.open \ {"origin"}]
    <3>1. PICK g : Flow!Set(c, g) /\ UNCHANGED slots /\ "origin" \in f.open /\ g = [f EXCEPT !.open = f.open \ {"origin"}]
      BY <2>2
    <3>2. g \in FlowRecords
      BY <3>1, <1>t DEF FlowRecords, Places, Flow!Failing, Flow!Owners, Gone, Holdings
    <3>3. Owned(g)
      BY <3>1, <1>t DEF FlowRecords, Owned, Gone, UnderAccept, Connecting
    <3>4. (g.pc \notin Gone => f.pc \notin Gone) /\ ("guest" \in g.open => "guest" \in f.open)
      BY <3>1, <1>t DEF FlowRecords, Gone
    <3> QED
      BY <3>1, <3>2, <3>3, <3>4, <1>m
  <2> QED
    BY <2>0, <2>1, <2>2
<1>26. CASE Flow!Fails(c)
  <2>1. PICK g : Flow!Set(c, g) /\ UNCHANGED slots /\ f.pc \in Flow!Failing /\ g = [f EXCEPT !.pc = Flow!Handler(f)]
    BY <1>26, <1>t DEF Flow!Fails, Flow!Work, Flow!Step, Flow!Goto
  <2>2. g \in FlowRecords
    BY <2>1, <1>t DEF FlowRecords, Places, Flow!Failing, Flow!Owners, Gone, Holdings, Flow!Handler, Flow!Failing, Flow!Owners
  <2>3. Owned(g)
    BY <2>1, <1>t DEF FlowRecords, Owned, Gone, UnderAccept, Connecting, Flow!Handler, Flow!Failing, Flow!Owners
  <2>4. (g.pc \notin Gone => f.pc \notin Gone) /\ ("guest" \in g.open => "guest" \in f.open)
    BY <2>1, <1>t DEF FlowRecords, Gone, Flow!Handler, Flow!Failing, Flow!Owners
  <2> QED
    BY <2>1, <2>2, <2>3, <2>4, <1>m
<1>27. CASE Flow!Release(c)
  <2>1. PICK g : Flow!Set(c, g) /\ UNCHANGED slots /\ f.pc \in Flow!Owners /\ g = [f EXCEPT !.open = f.open \ Flow!Releases(f), !.pc = Flow!Outer(f)]
    BY <1>27, <1>t DEF Flow!Release, Flow!Work, Flow!Step, Flow!Goto
  <2>a. Flow!Outer(f) \in Places
    BY <2>1, <1>t DEF FlowRecords, Flow!Outer, Places, Flow!Owners
  <2>b. f.open \ Flow!Releases(f) \in SUBSET Holdings
    BY <1>t DEF FlowRecords
  <2>2. g \in FlowRecords
    BY <2>1, <2>a, <2>b, <1>t DEF FlowRecords
  <2>3. Owned(g)
    BY <2>1, <1>t DEF FlowRecords, Owned, Gone, UnderAccept, Connecting, Flow!Outer, Flow!Owners, Flow!Releases, Flow!InspectorReleases, Flow!Origin, Flow!Guest, Holdings
  <2>4. (g.pc \notin Gone => f.pc \notin Gone) /\ ("guest" \in g.open => "guest" \in f.open)
    BY <2>1, <1>t DEF FlowRecords, Gone, Flow!Outer, Flow!Owners, Flow!Releases, Flow!InspectorReleases, Flow!Origin, Flow!Guest, Holdings
  <2> QED
    BY <2>1, <2>2, <2>3, <2>4, <1>m
<1> QED
  BY <1>1, <1>2, <1>3, <1>4, <1>5, <1>6, <1>7, <1>8, <1>9, <1>10, <1>11, <1>12, <1>13, <1>14, <1>15, <1>16, <1>17, <1>18, <1>19, <1>20, <1>21, <1>22, <1>23, <1>24, <1>25, <1>26, <1>27 DEF Flow!FlowStep

LEMMA FlowsNext == ASSUME FlowsInv, Flow!Next PROVE FlowsInv'
BY ProcessMoves, OneFlowMoves DEF Flow!Next

LEMMA FlowsHold == ASSUME FlowsInv PROVE Flow!FlowsContained
<1>1. Flow!NothingLeaks
  BY DEF FlowsInv, FlowsTyped, FlowsOwned, FlowRecords, Owned, Flow!NothingLeaks, Gone
<1>2. Flow!OneUpstream
  BY DEF FlowsInv, FlowsTyped, FlowsOwned, FlowRecords, Owned, Flow!OneUpstream
<1> QED
  BY <1>1, <1>2 DEF FlowsInv, SlotsHold, Flow!FlowsContained

-----------------------------------------------------------------------------
(***************************************************************************)
(* EgressDelivery: evidence is true and revisions never regress.           *)
(***************************************************************************)


\* The health checks of the instance that moves.
Watchers == IF part = "overlap" THEN {"c1", "c2"} ELSE {"c1"}
AnswerRecords == [kind : {"none", "applied", "stale", "lost"}, inst : 0..MaxInst, rev : Nat]
DeliveryTyped ==
    /\ inbox \subseteq Nat \ {0} /\ saved \in Nat
    /\ inst \in 1..MaxInst /\ policy \in [1..MaxInst -> Nat]
    /\ disk \in Nat /\ floor \in Nat /\ snapshot \in Nat /\ deliverySent \in Nat
    /\ instance \in 0..MaxInst /\ deliveryObserved \in 0..MaxInst /\ installed \in Nat
    /\ holder \in {"none", "receive", "reapply"} /\ answer \in AnswerRecords
    /\ ping \in [Watchers -> 0..MaxInst]

\* The floor is the record on disk, and nothing newer than it was ever sent.
RecordInOrder == floor = disk /\ snapshot \in {0, disk} /\ deliverySent <= disk

\* Whoever is inside _apply holds the lock and has settings to deliver.
HolderServes ==
    /\ deliveryPc # "free" => holder # "none" /\ snapshot # 0
    /\ deliveryPc = "left" => holder = "receive"
    /\ deliveryPc = "looked" => holder = "reapply"
    /\ reapply # "none" => snapshot # 0

\* Only processes that were started are observed, pinged or configured.
ProcessesExist ==
    /\ instance <= inst /\ deliveryObserved <= inst /\ \A c \in Watchers : ping[c] <= inst
    /\ \A i \in 1..MaxInst : i > inst => policy[i] = 0

\* An answer tells what the process it names enforces.
AnswerIsTrue ==
    /\ answer.kind = "applied" => answer.inst # 0 /\ policy[answer.inst] >= answer.rev
    /\ deliveryPc = "wait" /\ answer.kind \in {"applied", "stale"} => policy[inst] # 0

\* When a delivery is over, the running process is configured or another delivery waits.
LoopIsSound ==
    /\ deliveryPc = "left" /\ Delivery!Live /\ instance = inst /\ policy[inst] = 0 => reapply # "none"
    /\ deliveryPc = "looked" /\ Delivery!Live /\ deliveryObserved = inst => policy[inst] # 0
DeliveryInv ==
    /\ DeliveryTyped /\ RecordInOrder /\ HolderServes /\ ProcessesExist /\ AnswerIsTrue /\ LoopIsSound
    /\ Delivery!EvidenceIsTrue /\ Delivery!ObservedIsServed

\* The steps of either instance.
DeliveryStep ==
    \/ Delivery!Publish \/ Overlap!Publish
    \/ (part = "delivery" /\ Delivery!IpcRestart) \/ (part = "overlap" /\ Overlap!IpcRestart)
    \/ Delivery!EgressRestart \/ Delivery!Close \/ Delivery!ApplyStep
    \/ \E r \in Nat \ {0} : Delivery!Ignore(r) \/ Delivery!Receive(r)
    \/ \E c \in Watchers : Delivery!CheckStep(c) \/ Overlap!CheckStep(c)

\* No step forgets a revision, and none is sent below one already sent.
LEMMA DeliveryNext == ASSUME DeliveryInv, DeliveryStep, UNCHANGED part PROVE DeliveryInv' /\ Delivery!NoRegress
<1> USE DeliveryAssumption DEF DeliveryInv, DeliveryTyped, RecordInOrder, HolderServes, ProcessesExist, AnswerIsTrue, LoopIsSound,
   Delivery!EvidenceIsTrue, Delivery!ObservedIsServed, Delivery!Live, Watchers, AnswerRecords, Delivery!NoRegress,
   Delivery!ads, Delivery!egress, Delivery!delivery, Delivery!applying, Delivery!health
<1>1. CASE Delivery!Publish
  <2>1. saved' \in Nat \ {0} /\ inbox' = inbox \cup {saved'}
    BY <1>1 DEF Delivery!Publish
  <2>2. UNCHANGED <<inst, policy, disk, floor, snapshot, deliverySent, instance, installed, deliveryFailed, stopped,
            reapply, holder, deliveryPc, deliveryObserved, answer, ping>>
    BY <1>1 DEF Delivery!Publish
  <2> QED
    BY <2>1, <2>2
<1>2. CASE Overlap!Publish
  <2>1. saved' \in Nat \ {0} /\ inbox' = inbox \cup {saved'}
    BY <1>2 DEF Overlap!Publish
  <2>2. UNCHANGED <<inst, policy, disk, floor, snapshot, deliverySent, instance, installed, deliveryFailed, stopped,
            reapply, holder, deliveryPc, deliveryObserved, answer, ping>>
    BY <1>2 DEF Overlap!Publish, Overlap!egress, Overlap!delivery, Overlap!applying, Overlap!health
  <2> QED
    BY <2>1, <2>2
<1>3. CASE part = "delivery" /\ Delivery!IpcRestart
  <2>1. /\ floor' = disk /\ snapshot' = 0 /\ instance' = 0 /\ installed' = 0 /\ reapply' = "none"
        /\ holder' = "none" /\ deliveryPc' = "free" /\ deliveryObserved' = 0
        /\ inbox' \subseteq inbox /\ UNCHANGED <<saved, inst, policy, disk, deliverySent>>
    BY <1>3 DEF Delivery!IpcRestart
  <2>2. answer' = [kind |-> "none", inst |-> 0, rev |-> 0]
    BY <1>3 DEF Delivery!IpcRestart, Delivery!NoAnswer
  <2>3. answer' \in AnswerRecords /\ answer'.kind = "none"
    BY <2>2
  <2>4. ping' \in [Watchers -> 0..MaxInst] /\ \A c \in Watchers : ping'[c] = 0
    BY <1>3 DEF Delivery!IpcRestart
  <2> HIDE DEF AnswerRecords
  <2> QED
    BY <2>1, <2>3, <2>4
<1>4. CASE part = "overlap" /\ Overlap!IpcRestart
  <2>1. /\ floor' = disk /\ snapshot' = 0 /\ instance' = 0 /\ installed' = 0 /\ reapply' = "none"
        /\ holder' = "none" /\ deliveryPc' = "free" /\ deliveryObserved' = 0
        /\ inbox' \subseteq inbox /\ UNCHANGED <<saved, inst, policy, disk, deliverySent>>
    BY <1>4 DEF Overlap!IpcRestart, Overlap!egress
  <2>2. answer' = [kind |-> "none", inst |-> 0, rev |-> 0]
    BY <1>4 DEF Overlap!IpcRestart, Overlap!NoAnswer
  <2>3. answer' \in AnswerRecords /\ answer'.kind = "none"
    BY <2>2
  <2>4. ping' \in [Watchers -> 0..MaxInst] /\ \A c \in Watchers : ping'[c] = 0
    BY <1>4 DEF Overlap!IpcRestart
  <2> HIDE DEF AnswerRecords
  <2> QED
    BY <2>1, <2>3, <2>4
<1>5. CASE Delivery!EgressRestart
  <2>1. inst' = inst + 1 /\ inst' \in 1..MaxInst
    BY <1>5 DEF Delivery!EgressRestart
  <2>2. /\ answer' \in AnswerRecords /\ answer'.inst = answer.inst /\ answer'.rev = answer.rev
        /\ answer'.kind \in {answer.kind, "lost"} /\ (deliveryPc = "wait" => answer'.kind = "lost")
    BY <1>5 DEF Delivery!EgressRestart
  <2>3. UNCHANGED <<saved, inbox, policy, disk, floor, snapshot, deliverySent, instance, installed, deliveryFailed, stopped,
            reapply, holder, deliveryPc, deliveryObserved, ping>>
    BY <1>5 DEF Delivery!EgressRestart
  <2> HIDE DEF AnswerRecords
  <2> QED
    BY <2>1, <2>2, <2>3
<1>6. CASE Delivery!Close
  BY <1>6 DEF Delivery!Close, Delivery!NoAnswer
<1>7. CASE Delivery!ApplyPing
  BY <1>7 DEF Delivery!ApplyPing
<1>8. CASE Delivery!ApplySend
  <2> PICK k : k = IF snapshot < policy[inst] THEN "stale" ELSE "applied"
    OBVIOUS
  <2>1. /\ answer' = [kind |-> k, inst |-> inst, rev |-> snapshot]
        /\ policy' = IF k = "applied" THEN [policy EXCEPT ![inst] = snapshot] ELSE policy
    BY <1>8 DEF Delivery!ApplySend, Delivery!Install
  <2>2. /\ answer' \in AnswerRecords /\ answer'.kind = k /\ answer'.inst = inst /\ answer'.rev = snapshot
        /\ k \in {"stale", "applied"}
    BY <2>1
  <2>3. /\ deliveryPc = "send" /\ deliveryPc' = "wait"
        /\ deliverySent' = IF snapshot > deliverySent THEN snapshot ELSE deliverySent
        /\ UNCHANGED <<saved, inbox, inst, disk, floor, snapshot, instance, installed, deliveryFailed, stopped, reapply, holder,
              deliveryObserved, ping>>
    BY <1>8 DEF Delivery!ApplySend
  <2>4. /\ policy' \in [1..MaxInst -> Nat] /\ policy'[inst] >= snapshot /\ policy'[inst] >= policy[inst]
        /\ \A i \in 1..MaxInst : i # inst => policy'[i] = policy[i]
    BY <2>1
  <2>5. snapshot >= deliverySent /\ deliverySent \in Nat /\ snapshot \in Nat
    BY <2>3
  <2>6. \A i \in 1..MaxInst : policy'[i] # policy[i] => policy'[i] = snapshot
    <3> HIDE DEF DeliveryInv
    <3> QED
      BY <2>1, <2>4
  <2>7. Delivery!NoRegress
    <3> HIDE DEF DeliveryInv
    <3> QED
      BY <2>5, <2>6
  <2> HIDE DEF AnswerRecords, Delivery!NoRegress
  <2>8. DeliveryTyped' /\ RecordInOrder' /\ HolderServes' /\ ProcessesExist'
    BY <2>2, <2>3, <2>4
  <2>9. AnswerIsTrue' /\ LoopIsSound'
    BY <2>2, <2>3, <2>4
  <2>10. Delivery!EvidenceIsTrue' /\ Delivery!ObservedIsServed'
    BY <2>3, <2>4
  <2> HIDE DEF DeliveryTyped, RecordInOrder, HolderServes, ProcessesExist, AnswerIsTrue, LoopIsSound,
        Delivery!EvidenceIsTrue, Delivery!ObservedIsServed
  <2> QED
    BY <2>7, <2>8, <2>9, <2>10
<1>9. CASE Delivery!ApplyReturns
  <2>1. /\ deliveryPc = "wait" /\ answer.kind \in {"applied", "stale"}
        /\ installed' = IF answer.kind = "applied" /\ answer.inst = expected /\ instance = expected /\ ~stopped
                        THEN answer.rev ELSE installed
        /\ deliveryPc' = IF holder = "reapply" THEN "looked" ELSE "left"
        /\ UNCHANGED <<saved, inbox, inst, policy, disk, floor, snapshot, deliverySent, instance, deliveryFailed, stopped, reapply, holder,
              deliveryObserved, ping>>
    BY <1>9 DEF Delivery!ApplyReturns, Delivery!Leave, Delivery!FromExpected
  <2>2. answer' \in AnswerRecords /\ answer'.kind = "none"
    BY <1>9 DEF Delivery!ApplyReturns, Delivery!NoAnswer
  <2>3. installed' \in Nat
    BY <2>1
  <2> HIDE DEF AnswerRecords
  <2>4. Delivery!EvidenceIsTrue'
    BY <2>1
  <2> HIDE DEF Delivery!EvidenceIsTrue
  <2> QED
    BY <2>1, <2>2, <2>3, <2>4
<1>10. CASE Delivery!AttemptFails
  <2>1. /\ deliveryPc \in {"ping", "send", "wait"}
        /\ \/ deliveryPc' = "ping" /\ UNCHANGED deliveryFailed
           \/ deliveryFailed' = TRUE /\ deliveryPc' = IF holder = "reapply" THEN "looked" ELSE "left"
        /\ UNCHANGED <<saved, inbox, inst, policy, disk, floor, snapshot, deliverySent, instance, installed, stopped, reapply, holder,
              deliveryObserved, ping>>
    BY <1>10 DEF Delivery!AttemptFails, Delivery!Leave
  <2>2. answer' \in AnswerRecords /\ answer'.kind = "none"
    BY <1>10 DEF Delivery!AttemptFails, Delivery!NoAnswer
  <2> HIDE DEF AnswerRecords
  <2> QED
    BY <2>1, <2>2
<1>11. CASE Delivery!ApplyStops
  <2>1. /\ deliveryPc = "ping" /\ ~(~stopped /\ ~deliveryFailed)
        /\ deliveryPc' = IF holder = "reapply" THEN "looked" ELSE "left"
        /\ UNCHANGED <<saved, inbox, inst, policy, disk, floor, snapshot, deliverySent, instance, installed, deliveryFailed, stopped,
              reapply, holder, deliveryObserved, answer, ping>>
    BY <1>11 DEF Delivery!ApplyStops, Delivery!Leave
  <2> HIDE DEF AnswerRecords
  <2> QED
    BY <2>1
<1>12. CASE Delivery!ReceiveReturns
  BY <1>12 DEF Delivery!ReceiveReturns
<1>13. CASE Delivery!ReapplyTurn
  BY <1>13 DEF Delivery!ReapplyTurn
<1>14. CASE Delivery!ReapplyEnds
  BY <1>14 DEF Delivery!ReapplyEnds, Delivery!Settled
<1>15. ASSUME NEW r \in Nat \ {0}, Delivery!Ignore(r) PROVE DeliveryInv' /\ Delivery!NoRegress
  BY <1>15 DEF Delivery!Ignore
<1>16. ASSUME NEW r \in Nat \ {0}, Delivery!Receive(r) PROVE DeliveryInv' /\ Delivery!NoRegress
  BY <1>16 DEF Delivery!Receive, Delivery!Acceptable, Delivery!Advance
<1>17. ASSUME NEW c \in Watchers, Delivery!CheckBegin(c) PROVE DeliveryInv' /\ Delivery!NoRegress
  BY <1>17 DEF Delivery!CheckBegin
<1>18. ASSUME NEW c \in Watchers, Delivery!CheckPing(c) PROVE DeliveryInv' /\ Delivery!NoRegress
  BY <1>18 DEF Delivery!CheckPing
<1>19. ASSUME NEW c \in Watchers, Delivery!CheckDiscarded(c) PROVE DeliveryInv' /\ Delivery!NoRegress
  BY <1>19 DEF Delivery!CheckDiscarded, Delivery!CheckLeaves
<1>20. ASSUME NEW c \in Watchers, Delivery!CheckObserves(c) PROVE DeliveryInv' /\ Delivery!NoRegress
  BY <1>20 DEF Delivery!CheckObserves, Delivery!CheckLeaves, Delivery!Reapply
<1>21. ASSUME NEW c \in Watchers, Overlap!CheckBegin(c) PROVE DeliveryInv' /\ Delivery!NoRegress
  BY <1>21 DEF Overlap!CheckBegin, Overlap!Live, Overlap!ads, Overlap!egress, Overlap!delivery, Overlap!applying, Overlap!health
<1>22. ASSUME NEW c \in Watchers, Overlap!CheckPing(c) PROVE DeliveryInv' /\ Delivery!NoRegress
  BY <1>22 DEF Overlap!CheckPing, Overlap!ads, Overlap!egress, Overlap!delivery, Overlap!applying, Overlap!health
<1>23. ASSUME NEW c \in Watchers, Overlap!CheckDiscarded(c) PROVE DeliveryInv' /\ Delivery!NoRegress
  BY <1>23 DEF Overlap!CheckDiscarded, Overlap!CheckLeaves, Overlap!ads, Overlap!egress, Overlap!delivery, Overlap!applying, Overlap!health
<1>24. ASSUME NEW c \in Watchers, Overlap!CheckObserves(c) PROVE DeliveryInv' /\ Delivery!NoRegress
  BY <1>24 DEF Overlap!CheckObserves, Overlap!CheckLeaves, Overlap!Reapply, Overlap!ads, Overlap!egress, Overlap!delivery, Overlap!applying, Overlap!health
<1> QED
  BY <1>1, <1>2, <1>3, <1>4, <1>5, <1>6, <1>7, <1>8, <1>9, <1>10, <1>11, <1>12, <1>13, <1>14, <1>15, <1>16, <1>17, <1>18, <1>19, <1>20, <1>21, <1>22, <1>23, <1>24 DEF DeliveryStep, Delivery!ApplyStep, Delivery!CheckStep, Overlap!CheckStep

\* Whatever overlapping checks do is a step of a delivery that may also fail.
LEMMA OverlapIsDelivery == ASSUME part = "overlap", Overlap!Next PROVE DeliveryStep
<1>1. Overlap!EgressRestart => Delivery!EgressRestart
  BY DEF Delivery!EgressRestart, Overlap!EgressRestart, Delivery!ads, Delivery!egress, Delivery!delivery, Delivery!applying, Delivery!health, Overlap!ads, Overlap!egress, Overlap!delivery, Overlap!applying, Overlap!health
<1>2. Overlap!Close => Delivery!Close
  BY DEF Delivery!Close, Overlap!Close, Delivery!NoAnswer, Overlap!NoAnswer, Delivery!ads, Delivery!egress, Delivery!delivery, Delivery!applying, Delivery!health, Overlap!ads, Overlap!egress, Overlap!delivery, Overlap!applying, Overlap!health
<1>3. Overlap!ApplyPing => Delivery!ApplyPing
  BY DEF Delivery!ApplyPing, Overlap!ApplyPing, Delivery!Live, Overlap!Live, Delivery!ads, Delivery!egress, Delivery!delivery, Delivery!applying, Delivery!health, Overlap!ads, Overlap!egress, Overlap!delivery, Overlap!applying, Overlap!health
<1>4. Overlap!ApplySend => Delivery!ApplySend
  BY DEF Delivery!ApplySend, Overlap!ApplySend, Delivery!Install, Overlap!Install, Delivery!ads, Delivery!egress, Delivery!delivery, Delivery!applying, Delivery!health, Overlap!ads, Overlap!egress, Overlap!delivery, Overlap!applying, Overlap!health
<1>5. Overlap!ApplyReturns => Delivery!ApplyReturns
  BY DEF Delivery!ApplyReturns, Overlap!ApplyReturns, Delivery!FromExpected, Overlap!FromExpected, Delivery!NoAnswer, Overlap!NoAnswer, Delivery!Leave, Overlap!Leave, Delivery!ads, Delivery!egress, Delivery!delivery, Delivery!applying, Delivery!health, Overlap!ads, Overlap!egress, Overlap!delivery, Overlap!applying, Overlap!health
<1>6. Overlap!AttemptFails => Delivery!AttemptFails
  BY DEF Delivery!AttemptFails, Overlap!AttemptFails, Delivery!Exhausted, Overlap!Exhausted, Delivery!NoAnswer, Overlap!NoAnswer, Delivery!Leave, Overlap!Leave, Delivery!ads, Delivery!egress, Delivery!delivery, Delivery!applying, Delivery!health, Overlap!ads, Overlap!egress, Overlap!delivery, Overlap!applying, Overlap!health
<1>7. Overlap!ApplyStops => Delivery!ApplyStops
  BY DEF Delivery!ApplyStops, Overlap!ApplyStops, Delivery!Live, Overlap!Live, Delivery!Leave, Overlap!Leave, Delivery!ads, Delivery!egress, Delivery!delivery, Delivery!applying, Delivery!health, Overlap!ads, Overlap!egress, Overlap!delivery, Overlap!applying, Overlap!health
<1>8. Overlap!ReceiveReturns => Delivery!ReceiveReturns
  BY DEF Delivery!ReceiveReturns, Overlap!ReceiveReturns, Delivery!ads, Delivery!egress, Delivery!delivery, Delivery!applying, Delivery!health, Overlap!ads, Overlap!egress, Overlap!delivery, Overlap!applying, Overlap!health
<1>9. Overlap!ReapplyTurn => Delivery!ReapplyTurn
  BY DEF Delivery!ReapplyTurn, Overlap!ReapplyTurn, Delivery!Live, Overlap!Live, Delivery!ads, Delivery!egress, Delivery!delivery, Delivery!applying, Delivery!health, Overlap!ads, Overlap!egress, Overlap!delivery, Overlap!applying, Overlap!health
<1>10. Overlap!ReapplyEnds => Delivery!ReapplyEnds
  BY DEF Delivery!ReapplyEnds, Overlap!ReapplyEnds, Delivery!Settled, Overlap!Settled, Delivery!ads, Delivery!egress, Delivery!delivery, Delivery!applying, Delivery!health, Overlap!ads, Overlap!egress, Overlap!delivery, Overlap!applying, Overlap!health
<1>11. \A r \in 1..1 : Overlap!Ignore(r) => Delivery!Ignore(r)
  BY DEF Delivery!Ignore, Overlap!Ignore, Delivery!Live, Overlap!Live, Delivery!Acceptable, Overlap!Acceptable, Delivery!ads, Delivery!egress, Delivery!delivery, Delivery!applying, Delivery!health, Overlap!ads, Overlap!egress, Overlap!delivery, Overlap!applying, Overlap!health
<1>12. \A r \in 1..1 : Overlap!Receive(r) => Delivery!Receive(r)
  BY DEF Delivery!Receive, Overlap!Receive, Delivery!Live, Overlap!Live, Delivery!Acceptable, Overlap!Acceptable, Delivery!Advance, Overlap!Advance, Delivery!ads, Delivery!egress, Delivery!delivery, Delivery!applying, Delivery!health, Overlap!ads, Overlap!egress, Overlap!delivery, Overlap!applying, Overlap!health
<1> QED
  BY <1>1, <1>2, <1>3, <1>4, <1>5, <1>6, <1>7, <1>8, <1>9, <1>10, <1>11, <1>12 DEF DeliveryStep, Watchers, Overlap!Next, Overlap!ApplyStep, Delivery!ApplyStep

\* Every step of a delivery whose faults are allowed is one.
LEMMA DeliveryIsStep == ASSUME part = "delivery", Delivery!Next PROVE DeliveryStep
BY DeliveryAssumption DEF DeliveryStep, Watchers, Delivery!Next

\* Both start with nothing delivered.
LEMMA DeliveryInit ==
    ASSUME (part = "delivery" /\ Delivery!Init) \/ (part = "overlap" /\ Overlap!Init)
    PROVE  DeliveryInv
<1>1. /\ saved = 0 /\ inbox = {} /\ inst = 1 /\ disk = 0 /\ floor = 0 /\ snapshot = 0 /\ instance = 0 /\ installed = 0
      /\ reapply = "none" /\ holder = "none" /\ deliveryPc = "free" /\ deliveryObserved = 0 /\ deliverySent = 0
      /\ policy = [i \in 1..MaxInst |-> 0] /\ answer = [kind |-> "none", inst |-> 0, rev |-> 0]
      /\ ping = [c \in Watchers |-> 0]
  BY DEF Delivery!Init, Overlap!Init, Watchers, Delivery!NoAnswer, Overlap!NoAnswer
<1>2. answer \in AnswerRecords /\ answer.kind = "none"
  BY <1>1, DeliveryAssumption DEF AnswerRecords
<1> HIDE DEF AnswerRecords
<1> QED
  BY <1>1, <1>2, DeliveryAssumption DEF DeliveryInv, DeliveryTyped, RecordInOrder, HolderServes, ProcessesExist, AnswerIsTrue, LoopIsSound,
     Delivery!EvidenceIsTrue, Delivery!ObservedIsServed, Delivery!Live

-----------------------------------------------------------------------------
(***************************************************************************)
(* GuestExecutor: only sessions' trees are killed, and all are accounted for. *)
(***************************************************************************)

Entries == [exec : GuestExecs, uid : Nat, pid : Pids]
Working == {"poll", "save", "cleanup", "reap"}
Engaged == Working \cup {"start", "clearing", "remove"}
GuestTyped ==
    /\ podUid \in Nat /\ pod \in Nat /\ daemon \in Pids /\ used \subseteq Pids
    /\ tree \in [GuestExecs -> {"none", "starting", "live", "gone"}]
    /\ pidOf \in [GuestExecs -> Pids \cup {0}]
    /\ file \in Pids \cup {0} /\ store \subseteq Entries
    /\ pid \in Pids \cup {0} /\ todo \subseteq Pids

\* A process number that is recorded, read or going to be killed is a session's: never
\* that of the guest's daemon, as long as the Pod is the one it was read from.
NumbersAreSessions ==
    /\ harmed = FALSE
    /\ pod <= podUid /\ daemon \in used /\ file # daemon
    /\ \A x \in store : x.uid <= podUid /\ (x.uid = podUid => x.pid # daemon)
    /\ pod = podUid /\ pc \in {"read", "kill"} => daemon \notin todo
    /\ pod = podUid /\ pc \in Working => pid # daemon

\* What the executor's coroutine knows at each of its places.
CoroutineHolds ==
    /\ pc \in Engaged => clean = FALSE /\ cur \in GuestExecs
    /\ pc = "start" => pid = 0
    /\ pc \in {"save", "reap"} => pid # 0
    /\ pod # podUid /\ pc # "boot" => \A e \in GuestExecs : ~Guest!Alive(e)

\* Unless a tree has escaped, the pid file names the tree that lives.
FileNamesTheTree ==
    escaped = {} => \A e \in GuestExecs :
        /\ tree[e] = "live" => pidOf[e] = file /\ file # 0
        /\ tree[e] = "starting" => file = 0
NoneAlive == \A e \in GuestExecs : ~Guest!Alive(e)

\* Between executions nothing lives in the guest.
GuestIsEmpty ==
    escaped = {} /\ (pc \in {"clear", "start", "remove"} \/ (pc = "idle" /\ clean)) => NoneAlive /\ file = 0

\* During one, what lives is being killed, or is the tree of the current execution.
TreeIsWorkedOn ==
    escaped = {} =>
        /\ pc = "kill" => \A e \in GuestExecs : Guest!Alive(e) => tree[e] = "live" /\ pidOf[e] \in todo
        /\ pc = "clearing" => NoneAlive
        /\ pc \in Working => \A e \in GuestExecs :
                Guest!Alive(e) => e = cur /\ (pid # 0 => tree[e] = "live" /\ pidOf[e] = pid)
GuestInv == GuestTyped /\ NumbersAreSessions /\ CoroutineHolds /\ FileNamesTheTree /\ GuestIsEmpty
            /\ TreeIsWorkedOn /\ Guest!OneTreeInGuest

LEMMA GuestInit == Guest!Init => GuestInv
BY GuestAssumption DEF Guest!Init, GuestInv, GuestTyped, NumbersAreSessions, CoroutineHolds, FileNamesTheTree,
    GuestIsEmpty, TreeIsWorkedOn, Guest!OneTreeInGuest, NoneAlive, Guest!Alive, Working, Engaged

LEMMA GuestNext == ASSUME GuestInv, Guest!Next PROVE GuestInv'
<1> USE GuestAssumption DEF GuestInv, GuestTyped, NumbersAreSessions, CoroutineHolds, FileNamesTheTree, GuestIsEmpty,
    TreeIsWorkedOn, Guest!OneTreeInGuest, NoneAlive, Guest!Alive, Working, Engaged,
    Guest!guestSide, Guest!coroutine, Guest!ghosts
<1>1. CASE Guest!PodReplaced
  <2>1. /\ podUid' = podUid + 1 /\ daemon' \in Pids /\ used' = {daemon'} /\ file' = 0
        /\ UNCHANGED <<pidOf, store, pod, clean, ready, pc, cur, pid, exited, todo, outcome, escaped, harmed>>
    BY <1>1 DEF Guest!PodReplaced
  <2>2. /\ tree' \in [GuestExecs -> {"none", "starting", "live", "gone"}]
        /\ \A e \in GuestExecs : tree'[e] \in {"none", "gone"}
    BY <1>1 DEF Guest!PodReplaced
  <2>3. \A x \in store' : x \in store /\ x.uid \in Nat /\ x.uid # podUid'
    BY <2>1 DEF Entries
  <2>4. GuestTyped' /\ NumbersAreSessions'
    BY <2>1, <2>2, <2>3
  <2> QED
    BY <2>1, <2>2, <2>4
<1>2. CASE Guest!PrepareScan
  BY <1>2 DEF Guest!PrepareScan, Guest!Recorded, Entries
<1>3. CASE Guest!PrepareRead
  BY <1>3 DEF Guest!PrepareRead, Guest!Missed
<1>4. CASE Guest!PrepareClearFile
  BY <1>4 DEF Guest!PrepareClearFile
<1>5. CASE Guest!PrepareClearStore
  BY <1>5 DEF Guest!PrepareClearStore
<1>6. CASE Guest!PrepareFails
  BY <1>6 DEF Guest!PrepareFails
<1>7. CASE Guest!Start
  BY <1>7 DEF Guest!Start
<1>8. CASE Guest!PollRead
  BY <1>8 DEF Guest!PollRead
<1>9. CASE Guest!PollSave
  <2>1. PICK x : /\ x = [exec |-> cur, uid |-> pod, pid |-> pid]
                 /\ store' = store \cup {x}
    BY <1>9 DEF Guest!PollSave
  <2>2. pc = "save" /\ pc' = "poll"
        /\ UNCHANGED <<podUid, daemon, used, tree, pidOf, file, pod, clean, ready, cur, pid, exited, todo, outcome,
              escaped, harmed>>
    BY <1>9 DEF Guest!PollSave
  <2>3. pid # 0 /\ cur \in GuestExecs
    BY <2>2
  <2>4. x \in Entries /\ x.uid = pod /\ x.pid = pid
    BY <2>1, <2>3 DEF Entries
  <2> QED
    BY <2>1, <2>2, <2>4
<1>10. CASE Guest!Exit
  BY <1>10 DEF Guest!Exit
<1>11. CASE Guest!Interrupt
  BY <1>11 DEF Guest!Interrupt
<1>12. CASE Guest!CleanupRead
  BY <1>12 DEF Guest!CleanupRead, Guest!Missed, Entries
<1>13. CASE Guest!CleanupKill
  BY <1>13 DEF Guest!CleanupKill, Guest!KillTree
<1>14. CASE Guest!CleanupClear
  BY <1>14 DEF Guest!CleanupClear
<1>15. CASE Guest!CleanupRemove
  BY <1>15 DEF Guest!CleanupRemove, Entries
<1>16. CASE Guest!CleanupFails
  BY <1>16 DEF Guest!CleanupFails
<1>17. CASE Guest!Crash
  BY <1>17 DEF Guest!Crash
<1>18. ASSUME NEW e \in GuestExecs, Guest!ScriptRecords(e) PROVE GuestInv'
  BY <1>18 DEF Guest!ScriptRecords
<1>19. ASSUME NEW e \in GuestExecs, Guest!ScriptExits(e) PROVE GuestInv'
  BY <1>19 DEF Guest!ScriptExits
<1>20. ASSUME NEW p \in Pids, Guest!PrepareKill(p) PROVE GuestInv'
  BY <1>20 DEF Guest!PrepareKill, Guest!KillTree
<1>21. ASSUME NEW e \in GuestExecs, Guest!Begin(e) PROVE GuestInv'
  BY <1>21 DEF Guest!Begin, Guest!Usable
<1> QED
  BY <1>1, <1>2, <1>3, <1>4, <1>5, <1>6, <1>7, <1>8, <1>9, <1>10, <1>11, <1>12, <1>13, <1>14, <1>15, <1>16, <1>17, <1>18, <1>19, <1>20, <1>21 DEF Guest!Next, Guest!GuestStep, Guest!PrepareStep, Guest!ExecuteStep

\* What the invariant is for.
LEMMA GuestHolds ==
    ASSUME GuestInv
    PROVE  Guest!OnlySessionTreesKilled /\ Guest!OneTreeInGuest /\ Guest!SurvivorsAreRecorded /\ Guest!InterruptedIsReaped
BY DEF GuestInv, NumbersAreSessions, FileNamesTheTree, GuestIsEmpty, NoneAlive, Guest!OnlySessionTreesKilled,
   Guest!SurvivorsAreRecorded, Guest!InterruptedIsReaped

-----------------------------------------------------------------------------
(***************************************************************************)
(* SandboxExec: an execution is started at most once, when it was released. *)
(***************************************************************************)


\* A request is on its way: not published yet, on the topic, carried by a task of the
\* manager, or forwarded to the sandbox.
Early(e) == call[e] \in {"idle", "publishing"}
Asked(e) == Exec!Mcp!Msg("request", e) \in topic

\* An ack-reply was published: the door released the execution.
Sanctioned(e) == Exec!Mcp!Msg("ack-reply", e) \in log
TaskRecords == [exec : Execs, gen : Nat, stage : Exec!Mgr!Stages]
Carries(t, e) == t.exec = e /\ t.stage \in {"waiting", "minting"}
Carried(e) == \E t \in tasks : Carries(t, e)
Forwarded(e) == [kind |-> "request", exec |-> e] \in toSandbox

\* A result may be told: the guest ran it, or its size was refused.
Answered(e) == starts[e] # 0 \/ e \in Oversize


McpTyped ==
    /\ now \in Nat /\ row \in [Execs -> Exec!Mcp!Rows] /\ tx \in [Execs -> Exec!Mcp!Transactions]
    /\ call \in [Execs -> Exec!Mcp!CallStates] /\ topic \subseteq Exec!Mcp!Messages

\* An acknowledgement that will be answered with ack-reply holds a live row.
ReplyHoldsRow == \A e \in Execs : tx[e].phase # "none" /\ tx[e].verdict = "reply" => row[e].state = "live"
TasksTyped ==
    /\ tasks \subseteq TaskRecords /\ gens \in [Execs -> Nat]
    /\ toSandbox \subseteq Exec!Mgr!SandboxMessages /\ toMcp \subseteq Exec!Mgr!McpMessages
UnitTyped ==
    /\ current \in [exec : Execs \cup {None}, ident : Idents, executing : BOOLEAN, abort : BOOLEAN]
    /\ last \in [exec : Execs \cup {None}, ident : Idents, result : BOOLEAN]
    /\ running \in Execs \cup {None} /\ replies \subseteq Exec!Ipc!Replies
HistoryTyped == starts \in [Execs -> Nat] /\ verdict \in [Execs -> {"none", "result", "failure"}]

\* There is one request: wherever it is, it is nowhere earlier, and once the guest has
\* started it, it is nowhere at all.
RequestAt(e) ==
    /\ Early(e) => ~Asked(e)
    /\ Carried(e) => ~Early(e) /\ ~Asked(e)
    /\ \A t, u \in tasks : Carries(t, e) /\ Carries(u, e) => t = u
    /\ Forwarded(e) => ~Early(e) /\ ~Asked(e) /\ ~Carried(e)
    /\ current.exec = e => ~Early(e) /\ ~Asked(e) /\ ~Carried(e) /\ ~Forwarded(e)
    /\ starts[e] # 0 => /\ starts[e] = 1 /\ ~Early(e) /\ ~Asked(e) /\ ~Carried(e) /\ ~Forwarded(e)
                        /\ current.exec = e => current.executing
RequestIsOne == \A e \in Execs : RequestAt(e)

\* The slot is never of the current unit, and what runs is the current unit.
UnitHolds ==
    /\ current.exec # None => last.exec # current.exec
    /\ running # None => current.exec = running /\ current.executing

\* What reaches the sandbox was published by the door.
ReleasesAreLogged ==
    /\ topic \subseteq log
    /\ \A e \in Execs : [kind |-> "ack-reply", exec |-> e] \in toSandbox \/ starts[e] # 0 => Sanctioned(e)

\* Every result, wherever it has got to, answers an execution.
ResultsAnswer ==
    \A e \in Execs :
        /\ running = e => Answered(e)
        /\ last.result /\ last.exec = e => Answered(e)
        /\ [kind |-> "result", exec |-> e] \in replies \cup toMcp => Answered(e)
        /\ verdict[e] = "result" => Answered(e)
ExecInv ==
    /\ McpTyped /\ ReplyHoldsRow /\ TasksTyped /\ UnitTyped /\ HistoryTyped
    /\ RequestIsOne /\ UnitHolds /\ ReleasesAreLogged /\ ResultsAnswer

\* What a step of the door may do.
McpFollows ==
    /\ McpTyped' /\ ReplyHoldsRow'
    /\ log \subseteq log' /\ (topic \subseteq log => topic' \subseteq log')
    /\ \A e \in Execs :
        /\ Early(e)' => Early(e)
        /\ Asked(e)' => Asked(e) \/ (Early(e) /\ ~Early(e)')
        /\ Sanctioned(e)' => Sanctioned(e) \/ row[e].state = "live"

LEMMA DoorRecords ==
    /\ Exec!Mcp!NoRow \in Exec!Mcp!Rows /\ Exec!Mcp!NoRow.state = "absent"
    /\ Exec!Mcp!NoTx \in Exec!Mcp!Transactions /\ Exec!Mcp!NoTx.phase = "none"
    /\ \A k \in Exec!Mcp!Kinds, e \in Execs : Exec!Mcp!Msg(k, e) \in Exec!Mcp!Messages
    /\ now \in Nat => Exec!Mcp!Inserted \in Exec!Mcp!Rows /\ Exec!Mcp!Inserted.state = "live"
<1>1. (CHOOSE p \in Pods : TRUE) \in Pods
  BY ExecAssumption
<1> QED
  BY <1>1, ExecAssumption DEF Exec!Mcp!NoRow, Exec!Mcp!Rows, Exec!Mcp!NoTx, Exec!Mcp!Transactions, Exec!Mcp!Msg, Exec!Mcp!Messages,
     Exec!Mcp!Kinds, Exec!Mcp!Inserted

\* Every step of the door is one.
LEMMA DoorFollows ==
    ASSUME McpTyped, ReplyHoldsRow,
           \/ \E e \in Execs : Exec!Mcp!CallStep(e) \/ Exec!Mcp!WatchdogStep(e) \/ Exec!Mcp!AckSend(e)
                   \/ Exec!Mcp!AckCommit(e) \/ Exec!Mcp!AckRollback(e) \/ Exec!Mcp!ResultComplete(e)
                   \/ Exec!Mcp!ResultCommit(e) \/ \E p \in Pods : Exec!Mcp!AckOpen(p, e)
           \/ Exec!Mcp!Collect \/ Exec!Mcp!Tick
    PROVE  McpFollows
<1> USE ExecAssumption, DoorRecords DEF McpTyped, ReplyHoldsRow, McpFollows, Early, Asked, Sanctioned
<1>1. ASSUME NEW e \in Execs , NEW p \in Pods, Exec!Mcp!Execute(p, e) PROVE McpFollows
  BY <1>1 DEF Exec!Mcp!Execute, Exec!Mcp!CallStates
<1>2. ASSUME NEW e \in Execs, Exec!Mcp!SetupFails(e) PROVE McpFollows
  BY <1>2 DEF Exec!Mcp!SetupFails, Exec!Mcp!CallStates
<1>3. ASSUME NEW e \in Execs, Exec!Mcp!PublishRequest(e) PROVE McpFollows
  BY <1>3 DEF Exec!Mcp!PublishRequest, Exec!Mcp!Publish, Exec!Mcp!CallStates, Exec!Mcp!Kinds, Exec!Mcp!Msg
<1>4. ASSUME NEW e \in Execs, Exec!Mcp!Return(e) PROVE McpFollows
  BY <1>4 DEF Exec!Mcp!Return, Exec!Mcp!CallStates
<1>5. ASSUME NEW e \in Execs, Exec!Mcp!Disconnect(e) PROVE McpFollows
  BY <1>5 DEF Exec!Mcp!Disconnect, Exec!Mcp!CallStates
<1>6. ASSUME NEW e \in Execs, Exec!Mcp!CleanupFails(e) PROVE McpFollows
  BY <1>6 DEF Exec!Mcp!CleanupFails, Exec!Mcp!CallStates
<1>7. ASSUME NEW e \in Execs, Exec!Mcp!CleanupFindsResult(e) PROVE McpFollows
  BY <1>7 DEF Exec!Mcp!CleanupFindsResult, Exec!Mcp!CallStates
<1>8. ASSUME NEW e \in Execs, Exec!Mcp!WatchdogObserves(e) PROVE McpFollows
  BY <1>8 DEF Exec!Mcp!WatchdogObserves
<1>9. ASSUME NEW e \in Execs, Exec!Mcp!WatchdogGivesUp(e) PROVE McpFollows
  BY <1>9 DEF Exec!Mcp!WatchdogGivesUp
<1>10. ASSUME NEW e \in Execs, NEW who \in {"watchdog", "cancel"}, Exec!Mcp!Expire(e, who) PROVE McpFollows
  BY <1>10 DEF Exec!Mcp!Expire, Exec!Mcp!RowFree, Exec!Mcp!Rows
<1>11. ASSUME NEW e \in Execs, Exec!Mcp!ExpireReturns(e) PROVE McpFollows
  BY <1>11 DEF Exec!Mcp!ExpireReturns, Exec!Mcp!Publish, Exec!Mcp!Kinds, Exec!Mcp!Msg, Exec!Mcp!CallStates
<1>12. ASSUME NEW e \in Execs, Exec!Mcp!AckSend(e) PROVE McpFollows
  BY <1>12 DEF Exec!Mcp!AckSend, Exec!Mcp!Publish, Exec!Mcp!Kinds, Exec!Mcp!Msg, Exec!Mcp!Transactions
<1>13. ASSUME NEW e \in Execs, Exec!Mcp!AckCommit(e) PROVE McpFollows
  <2>1. tx[e].phase = "sent" /\ UNCHANGED <<now, call, topic, log>> /\ tx' = [tx EXCEPT ![e] = Exec!Mcp!NoTx]
    BY <1>13 DEF Exec!Mcp!AckCommit
  <2>2. PICK r : /\ row' = [row EXCEPT ![e] = r]
                 /\ \/ tx[e].verdict = "reset" /\ r = Exec!Mcp!NoRow
                    \/ r = [row[e] EXCEPT !.deadline = tx[e].deadline, !.acked = TRUE]
    BY <1>13 DEF Exec!Mcp!AckCommit
  <2>3. tx[e] \in Exec!Mcp!Transactions /\ row[e] \in Exec!Mcp!Rows
    OBVIOUS
  <2>4. r \in Exec!Mcp!Rows /\ (tx[e].verdict = "reply" => r.state = row[e].state)
    BY <2>2, <2>3 DEF Exec!Mcp!Rows, Exec!Mcp!Transactions
  <2>5. McpTyped' /\ ReplyHoldsRow'
    BY <2>1, <2>2, <2>4
  <2> QED
    BY <2>1, <2>5
<1>14. ASSUME NEW e \in Execs, Exec!Mcp!AckRollback(e) PROVE McpFollows
  BY <1>14 DEF Exec!Mcp!AckRollback, Exec!Mcp!Transactions
<1>15. ASSUME NEW e \in Execs, Exec!Mcp!ResultComplete(e) PROVE McpFollows
  BY <1>15 DEF Exec!Mcp!ResultComplete
<1>16. ASSUME NEW e \in Execs, Exec!Mcp!ResultCommit(e) PROVE McpFollows
  BY <1>16 DEF Exec!Mcp!ResultCommit, Exec!Mcp!RowFree
<1>17. ASSUME NEW e \in Execs, NEW p \in Pods, Exec!Mcp!AckOpen(p, e) PROVE McpFollows
  BY <1>17 DEF Exec!Mcp!AckOpen, Exec!Mcp!RowFree, Exec!Mcp!Late, Exec!Mcp!Rows, Exec!Mcp!Transactions
<1>18. CASE Exec!Mcp!Collect
  BY <1>18 DEF Exec!Mcp!Collect, Exec!Mcp!RowFree
<1>19. CASE Exec!Mcp!Tick
  BY <1>19 DEF Exec!Mcp!Tick
<1> HIDE DEF McpTyped, ReplyHoldsRow, McpFollows
<1> QED
  BY <1>1, <1>2, <1>3, <1>4, <1>5, <1>6, <1>7, <1>8, <1>9, <1>10, <1>11, <1>12, <1>13, <1>14, <1>15, <1>16, <1>17, <1>18, <1>19 DEF Exec!Mcp!CallStep, Exec!Mcp!WatchdogStep

LEMMA ExecInit == Exec!Init => ExecInv
<1> SUFFICES ASSUME Exec!Init PROVE ExecInv
  OBVIOUS
<1> USE ExecAssumption, DoorRecords DEF Exec!Init, Exec!Mcp!Init, Exec!Mgr!Init, Exec!Ipc!Init
<1>1. McpTyped /\ ReplyHoldsRow
  BY DEF McpTyped, ReplyHoldsRow, Exec!Mcp!CallStates
<1>2. TasksTyped /\ HistoryTyped
  BY DEF TasksTyped, HistoryTyped
<1>3. UnitTyped /\ UnitHolds
  <2>1. (CHOOSE i \in Idents : TRUE) \in Idents
    OBVIOUS
  <2> QED
    BY <2>1 DEF UnitTyped, UnitHolds, Exec!Ipc!NoUnit, Exec!Ipc!NoSlot, Exec!Ipc!SomeIdent
<1>4. RequestIsOne /\ ReleasesAreLogged /\ ResultsAnswer
  BY DEF RequestIsOne, RequestAt, ReleasesAreLogged, ResultsAnswer, Early, Asked, Carried, Forwarded, Answered, Sanctioned,
     Exec!Ipc!NoUnit, Exec!Ipc!NoSlot
<1> QED
  BY <1>1, <1>2, <1>3, <1>4 DEF ExecInv

\* What the rest of the path sees of the manager's step.
MgrFollows ==
    /\ TasksTyped'
    /\ \A e \in Execs :
        /\ Carried(e)' => Carried(e)
        /\ \A t, u \in tasks' : Carries(t, e) /\ Carries(u, e) => t = u
        /\ Forwarded(e)' => Forwarded(e) \/ (Carried(e) /\ ~Carried(e)')
        /\ [kind |-> "ack-reply", exec |-> e] \in toSandbox' => [kind |-> "ack-reply", exec |-> e] \in toSandbox
        /\ [kind |-> "result", exec |-> e] \in toMcp' => [kind |-> "result", exec |-> e] \in toMcp

\* A task of the manager forwards its request only as it ends.
LEMMA TaskFollows ==
    ASSUME TasksTyped, \A e \in Execs : \A t, u \in tasks : Carries(t, e) /\ Carries(u, e) => t = u,
           \/ \E t \in tasks : Exec!Mgr!TaskStep(t)
           \/ Exec!Mgr!WorkerClaims \/ Exec!Mgr!WorkerEnds \/ Exec!Mgr!ManagerRestart \/ Exec!Mgr!StatusChanges
    PROVE  MgrFollows
<1> USE DEF TasksTyped, MgrFollows
<1>1. CASE UNCHANGED <<tasks, gens, toSandbox, toMcp>>
  BY <1>1 DEF Carried, Carries, Forwarded
<1>2. CASE Exec!Mgr!ManagerRestart
  BY <1>2 DEF Exec!Mgr!ManagerRestart, Carried, Carries, Forwarded
<1>3. ASSUME NEW t \in tasks, Exec!Mgr!TaskAdmit(t) PROVE MgrFollows
  <2>1. t \in TaskRecords /\ [t EXCEPT !.stage = "minting"] \in TaskRecords /\ t.stage = "waiting"
        /\ [t EXCEPT !.stage = "minting"].exec = t.exec
    BY <1>3 DEF Exec!Mgr!TaskAdmit, TaskRecords, Exec!Mgr!Stages
  <2>2. PICK u : u = [t EXCEPT !.stage = "minting"]
    OBVIOUS
  <2>3. tasks' = (tasks \ {t}) \cup {u} /\ UNCHANGED <<gens, toSandbox, toMcp>>
    BY <1>3, <2>2 DEF Exec!Mgr!TaskAdmit, Exec!Mgr!Advance
  <2>4. TasksTyped'
    BY <2>1, <2>2, <2>3
  <2>5. \A v \in tasks', e \in Execs : Carries(v, e) => v \in tasks \/ (v = u /\ Carries(t, e))
    BY <2>1, <2>2, <2>3 DEF Carries
  <2>6. t \notin tasks' \/ t = u
    BY <2>3
  <2> HIDE DEF TasksTyped
  <2> QED
    BY <2>1, <2>3, <2>4, <2>5, <2>6 DEF Carried, Carries, Forwarded
<1>4. ASSUME NEW t \in tasks, tasks' = tasks \ {t}, UNCHANGED <<gens, toSandbox>>,
             \/ UNCHANGED toMcp
             \/ toMcp' = toMcp \cup {[kind |-> "failure", exec |-> t.exec]}
      PROVE  MgrFollows
  <2>1. [kind |-> "failure", exec |-> t.exec] \in Exec!Mgr!McpMessages
    BY DEF TaskRecords, Exec!Mgr!McpMessages
  <2> QED
    BY <1>4, <2>1 DEF Carried, Carries, Forwarded
<1>5. ASSUME NEW t \in tasks, t.stage = "minting", UNCHANGED <<gens, toMcp>>,
             toSandbox' \in {toSandbox, toSandbox \cup {[kind |-> "request", exec |-> t.exec]}},
             tasks' = tasks \ {t}
      PROVE  MgrFollows
  <2>1. [kind |-> "request", exec |-> t.exec] \in Exec!Mgr!SandboxMessages /\ t.exec \in Execs
    BY DEF TaskRecords, Exec!Mgr!SandboxMessages
  <2> QED
    BY <1>5, <2>1 DEF Carried, Carries, Forwarded
<1>6. ASSUME NEW t \in tasks, t.stage \in {"waiting", "minting"}, UNCHANGED <<gens, toMcp>>,
             toSandbox' \in {toSandbox, toSandbox \cup {[kind |-> "request", exec |-> t.exec]}},
             Exec!Mgr!Advance(t, "failing")
      PROVE  MgrFollows
  <2>1. [kind |-> "request", exec |-> t.exec] \in Exec!Mgr!SandboxMessages /\ t.exec \in Execs
    BY DEF TaskRecords, Exec!Mgr!SandboxMessages
  <2>2. [t EXCEPT !.stage = "failing"] \in TaskRecords /\ [t EXCEPT !.stage = "failing"].stage = "failing"
    BY DEF TaskRecords, Exec!Mgr!Stages
  <2>3. PICK u : u = [t EXCEPT !.stage = "failing"]
    OBVIOUS
  <2>4. tasks' = (tasks \ {t}) \cup {u}
    BY <1>6, <2>3 DEF Exec!Mgr!Advance
  <2>5. TasksTyped'
    BY <1>6, <2>1, <2>2, <2>3, <2>4
  <2>6. t \notin tasks' /\ \A v \in tasks', e \in Execs : Carries(v, e) => v \in tasks
    BY <1>6, <2>2, <2>3, <2>4 DEF Carries
  <2>7. Carries(t, t.exec)
    BY <1>6 DEF Carries
  <2> HIDE DEF TasksTyped
  <2> QED
    BY <1>6, <2>1, <2>5, <2>6, <2>7 DEF Carried, Forwarded
<1>7. ASSUME NEW t \in tasks, Exec!Mgr!TaskForward(t) PROVE MgrFollows
  BY <1>7, <1>5 DEF Exec!Mgr!TaskForward, Exec!Mgr!End
<1>8. ASSUME NEW t \in tasks, Exec!Mgr!TaskRaises(t) PROVE MgrFollows
  <2> HIDE DEF MgrFollows
  <2>1. toSandbox' = toSandbox \/ (t.stage = "minting" /\ toSandbox' = toSandbox \cup {[kind |-> "request", exec |-> t.exec]})
    BY <1>8 DEF Exec!Mgr!TaskRaises
  <2>2. Exec!Mgr!Advance(t, "failing") \/ (tasks' = tasks \ {t})
    BY <1>8 DEF Exec!Mgr!TaskRaises, Exec!Mgr!End
  <2>3. t.stage \in {"waiting", "minting"} /\ UNCHANGED <<gens, toMcp>>
    BY <1>8 DEF Exec!Mgr!TaskRaises
  <2> QED
    BY <2>1, <2>2, <2>3, <1>4, <1>5, <1>6
<1>9. ASSUME NEW t \in tasks, Exec!Mgr!TaskReportsFailure(t) PROVE MgrFollows
  BY <1>9, <1>4 DEF Exec!Mgr!TaskReportsFailure, Exec!Mgr!End
<1>10. ASSUME NEW t \in tasks, Exec!Mgr!TaskLeaves(t) PROVE MgrFollows
  BY <1>10, <1>4 DEF Exec!Mgr!TaskLeaves, Exec!Mgr!End
<1> HIDE DEF MgrFollows
<1> QED
  BY <1>1, <1>2, <1>3, <1>7, <1>8, <1>9, <1>10 DEF Exec!Mgr!TaskStep, Exec!Mgr!TaskProvision, Exec!Mgr!WorkerClaims,
     Exec!Mgr!WorkerEnds, Exec!Mgr!StatusChanges

\* accept takes a request into a task, and passes a control on.
LEMMA AcceptFollows ==
    ASSUME TasksTyped, NEW m \in topic, topic \subseteq Exec!Mcp!Messages,
           IF m.kind = "request" THEN Exec!Mgr!AcceptRequest(m.exec) ELSE Exec!Mgr!AcceptControl(m.kind, m.exec),
           m.kind = "request" => ~Carried(m.exec)
    PROVE  /\ TasksTyped' /\ m.exec \in Execs /\ toMcp' = toMcp
           /\ m.kind # "request" => tasks' = tasks
           /\ \A e \in Execs :
               /\ Carried(e)' => Carried(e) \/ (m.kind = "request" /\ m.exec = e)
               /\ (\A t, u \in tasks : Carries(t, e) /\ Carries(u, e) => t = u)
                  => \A t, u \in tasks' : Carries(t, e) /\ Carries(u, e) => t = u
               /\ Forwarded(e)' => Forwarded(e)
               /\ [kind |-> "ack-reply", exec |-> e] \in toSandbox' =>
                  [kind |-> "ack-reply", exec |-> e] \in toSandbox \/ m = [kind |-> "ack-reply", exec |-> e]
<1>1. m \in Exec!Mcp!Messages /\ m.kind \in {"request", "abort", "ack-reply", "ack-reset"} /\ m.exec \in Execs
  BY DEF Exec!Mcp!Messages, Exec!Mcp!Kinds
<1>2. CASE m.kind = "request"
  <2>1. PICK u : u = [exec |-> m.exec, gen |-> gens[m.exec] + 1, stage |-> "waiting"]
    OBVIOUS
  <2>2. tasks' = tasks \cup {u} /\ UNCHANGED <<toSandbox, toMcp>> /\ gens' = [gens EXCEPT ![m.exec] = @ + 1]
    BY <1>2, <2>1 DEF Exec!Mgr!AcceptRequest
  <2>3. u \in TaskRecords /\ u.exec = m.exec
    BY <1>1, <2>1 DEF TaskRecords, Exec!Mgr!Stages, TasksTyped
  <2>4. TasksTyped'
    BY <1>1, <2>2, <2>3 DEF TasksTyped
  <2> QED
    BY <1>1, <1>2, <2>2, <2>3, <2>4 DEF Carried, Carries, Forwarded
<1>3. CASE m.kind # "request"
  <2>1. UNCHANGED <<tasks, gens, toMcp>> /\ toSandbox' \in {toSandbox, toSandbox \cup {m}}
    <3>1. m = [kind |-> m.kind, exec |-> m.exec]
      BY <1>1 DEF Exec!Mcp!Messages
    <3> QED
      BY <1>3, <3>1 DEF Exec!Mgr!AcceptControl
  <2>2. m \in Exec!Mgr!SandboxMessages
    BY <1>1 DEF Exec!Mcp!Messages, Exec!Mgr!SandboxMessages
  <2>3. TasksTyped'
    BY <2>1, <2>2 DEF TasksTyped
  <2>4. \A e \in Execs : m # [kind |-> "request", exec |-> e]
    BY <1>3
  <2> QED
    BY <1>1, <1>3, <2>1, <2>3, <2>4 DEF Carried, Carries, Forwarded
<1> QED
  BY <1>2, <1>3

\* What the rest of the path sees of the executor's step.
IpcFollows ==
    /\ UnitTyped' /\ UnitHolds' /\ starts' \in [Execs -> Nat] /\ toSandbox' \subseteq toSandbox
    /\ \A e \in Execs :
        /\ current'.exec = e => \/ current.exec = e /\ (current.executing => current'.executing)
                                \/ Forwarded(e) /\ ~Forwarded(e)'
        /\ \/ starts'[e] = starts[e]
           \/ /\ starts'[e] = starts[e] + 1 /\ current.exec = e /\ ~current.executing /\ current'.executing
              /\ [kind |-> "ack-reply", exec |-> e] \in toSandbox
        /\ running' = e => Answered(e)'
        /\ last'.result /\ last'.exec = e => Answered(e)
        /\ [kind |-> "result", exec |-> e] \in replies' => Answered(e)

\* A step of the sandbox's executor leaves the invariant,
LEMMA IpcKeeps ==
    ASSUME ExecInv, IpcFollows,
           UNCHANGED <<now, row, tx, call, topic, log, tasks, gens, toMcp, verdict>>
    PROVE  ExecInv'
<1> USE DEF ExecInv, IpcFollows
<1>1. McpTyped' /\ ReplyHoldsRow' /\ TasksTyped' /\ HistoryTyped'
  BY DEF McpTyped, ReplyHoldsRow, TasksTyped, HistoryTyped
<1>2. \A e \in Execs : Early(e)' = Early(e) /\ Asked(e)' = Asked(e) /\ Carried(e)' = Carried(e)
                       /\ (Forwarded(e)' => Forwarded(e)) /\ Sanctioned(e)' = Sanctioned(e)
  BY DEF Early, Asked, Carried, Carries, Forwarded, Sanctioned
<1>3. \A e \in Execs : starts[e] \in Nat /\ starts'[e] \in Nat /\ (Answered(e) => Answered(e)')
  <2> SUFFICES ASSUME NEW e \in Execs
               PROVE  starts[e] \in Nat /\ starts'[e] \in Nat /\ (Answered(e) => Answered(e)')
    OBVIOUS
  <2>1. starts[e] \in Nat /\ starts'[e] \in Nat /\ (starts'[e] = starts[e] \/ starts'[e] = starts[e] + 1)
    BY DEF HistoryTyped
  <2> HIDE DEF ExecInv, IpcFollows
  <2> QED
    BY <2>1 DEF Answered
<1>4. \A e \in Execs : (\A t, u \in tasks : Carries(t, e) /\ Carries(u, e) => t = u)' =
                       (\A t, u \in tasks : Carries(t, e) /\ Carries(u, e) => t = u)
  BY DEF Carries
<1>5. RequestIsOne'
  <2> SUFFICES ASSUME NEW e \in Execs PROVE RequestAt(e)'
    BY DEF RequestIsOne
  <2> HIDE DEF ExecInv, IpcFollows
  <2>1. RequestIsOne
    BY DEF ExecInv
  <2>2. /\ current'.exec = e => \/ current.exec = e /\ (current.executing => current'.executing)
                                \/ Forwarded(e) /\ ~Forwarded(e)'
        /\ \/ starts'[e] = starts[e]
           \/ /\ starts'[e] = starts[e] + 1 /\ current.exec = e /\ ~current.executing /\ current'.executing
    BY DEF IpcFollows
  <2> QED
    BY <1>2, <1>3, <1>4, <2>1, <2>2 DEF RequestIsOne, RequestAt
<1>6. ReleasesAreLogged'
  BY <1>2, <1>3 DEF ReleasesAreLogged
<1>7. ResultsAnswer'
  BY <1>3 DEF ResultsAnswer
<1> QED
  BY <1>1, <1>5, <1>6, <1>7

\* be it one of its own tasks,
LEMMA UnitAlone ==
    ASSUME ExecInv, UNCHANGED <<starts, toSandbox>>,
           Exec!Ipc!StartupPrepared \/ Exec!Ipc!StartupReady \/ Exec!Ipc!AckTimeout \/ Exec!Ipc!ExecuteEnds \/ Exec!Ipc!Restart
    PROVE  IpcFollows
<1> USE DEF ExecInv, IpcFollows, UnitTyped, UnitHolds, HistoryTyped, ResultsAnswer
<1>1. (CHOOSE i \in Idents : TRUE) \in Idents
  BY ExecAssumption
<1>2. CASE Exec!Ipc!StartupPrepared \/ Exec!Ipc!StartupReady
  <2>1. UNCHANGED <<current, last, running, replies, starts, toSandbox>>
    BY <1>2 DEF Exec!Ipc!StartupPrepared, Exec!Ipc!StartupReady, Exec!Ipc!guestVars, Exec!Ipc!slotVars, Exec!Ipc!outVars
  <2> QED
    BY <2>1 DEF Answered
<1>3. CASE Exec!Ipc!AckTimeout
  BY <1>1, <1>3, ExecAssumption DEF Exec!Ipc!AckTimeout, Exec!Ipc!DropUnit, Exec!Ipc!Remember, Exec!Ipc!NoUnit, Exec!Ipc!SomeIdent,
     Exec!Ipc!guestVars, Exec!Ipc!outVars, Answered
<1>4. CASE Exec!Ipc!ExecuteEnds
  <2>1. running # None /\ running' = None /\ last' = [exec |-> running, ident |-> current.ident, result |-> TRUE]
        /\ current' = Exec!Ipc!NoUnit /\ replies' \in {replies, replies \cup {Exec!Ipc!Reply("result", running)}}
    BY <1>4 DEF Exec!Ipc!ExecuteEnds, Exec!Ipc!Remember, Exec!Ipc!Send, Exec!Ipc!outVars
  <2>2. Exec!Ipc!Reply("result", running) \in Exec!Ipc!Replies
    BY <2>1 DEF Exec!Ipc!Reply, Exec!Ipc!Replies
  <2> QED
    BY <1>1, <2>1, <2>2, ExecAssumption DEF Exec!Ipc!NoUnit, Exec!Ipc!SomeIdent, Exec!Ipc!Reply, Answered
<1>5. CASE Exec!Ipc!Restart
  BY <1>1, <1>5, ExecAssumption DEF Exec!Ipc!Restart, Exec!Ipc!NoUnit, Exec!Ipc!NoSlot, Exec!Ipc!SomeIdent, Answered
<1> QED
  BY <1>2, <1>3, <1>4, <1>5

\* or the handling of a message.
LEMMA UnitHandles ==
    ASSUME ExecInv, NEW m \in toSandbox, NEW i \in Idents, Exec!IpcHandles(m, i),
           starts' = IF Exec!Started(m) THEN [starts EXCEPT ![m.exec] = @ + 1] ELSE starts,
           toSandbox' \in Exec!Consume(toSandbox, m)
    PROVE  IpcFollows
<1> USE DEF ExecInv, IpcFollows, UnitTyped, UnitHolds, HistoryTyped, ResultsAnswer
<1>1. /\ m.exec \in Execs /\ m.exec # None /\ m = [kind |-> m.kind, exec |-> m.exec]
      /\ m.kind \in {"request", "ack-reply", "ack-reset", "abort"} /\ toSandbox' \subseteq toSandbox
      /\ \A k \in {"acknowledge", "result"} : Exec!Ipc!Reply(k, m.exec) \in Exec!Ipc!Replies
  BY ExecAssumption DEF TasksTyped, Exec!Mgr!SandboxMessages, Exec!Consume, Exec!Ipc!Reply, Exec!Ipc!Replies
<1>2. m.kind = "request" => Forwarded(m.exec) /\ ~Forwarded(m.exec)'
  BY <1>1, RequestsAppearOnce DEF Forwarded, Exec!Consume
<1>3. ~Exec!Started(m) => UNCHANGED starts
  OBVIOUS
<1>4. ASSUME Exec!Ipc!Redeliver(m.exec, i) PROVE IpcFollows
  <2>1. UNCHANGED <<current, last, running>> /\ last.exec = m.exec /\ last.result
        /\ replies' = replies \cup {Exec!Ipc!Reply("result", m.exec)}
    BY <1>4 DEF Exec!Ipc!Redeliver, Exec!Ipc!Send, Exec!Ipc!guestVars
  <2>2. running # m.exec /\ UNCHANGED starts
    BY <1>1, <1>3, <2>1 DEF Exec!Started
  <2> QED
    BY <1>1, <2>1, <2>2 DEF Exec!Ipc!Reply, Answered
<1>5. ASSUME m.kind = "request", Exec!Ipc!AcceptRequest(m.exec, i) PROVE IpcFollows
  <2>1. UNCHANGED running /\ current.exec = None /\ last.exec # m.exec
    BY <1>5 DEF Exec!Ipc!AcceptRequest, Exec!Ipc!guestVars, Exec!Ipc!Fresh
  <2>2. UNCHANGED starts
    BY <1>3, <1>5, <2>1 DEF Exec!Started
  <2>3. \/ /\ replies' = replies \cup {Exec!Ipc!Reply("acknowledge", m.exec)} /\ UNCHANGED last
           /\ current' = [exec |-> m.exec, ident |-> i, executing |-> FALSE, abort |-> FALSE]
        \/ UNCHANGED <<current, replies>> /\ last' = [exec |-> m.exec, ident |-> i, result |-> FALSE]
    BY <1>5 DEF Exec!Ipc!AcceptRequest, Exec!Ipc!Send, Exec!Ipc!Remember, Exec!Ipc!outVars
  <2>4. ASSUME UNCHANGED last, replies' = replies \cup {Exec!Ipc!Reply("acknowledge", m.exec)},
               current' = [exec |-> m.exec, ident |-> i, executing |-> FALSE, abort |-> FALSE]
        PROVE  IpcFollows
    BY <1>1, <1>2, <1>5, <2>1, <2>2, <2>4 DEF Exec!Ipc!Reply, Answered
  <2>5. ASSUME UNCHANGED <<current, replies>>, last' = [exec |-> m.exec, ident |-> i, result |-> FALSE]
        PROVE  IpcFollows
    BY <1>1, <2>1, <2>2, <2>5 DEF Answered
  <2> QED
    BY <2>3, <2>4, <2>5
<1>6. ASSUME m.kind = "request", Exec!Ipc!RejectOversize(m.exec, i) PROVE IpcFollows
  <2>1. UNCHANGED <<running, current>> /\ current.exec = None /\ m.exec \in Oversize
        /\ last' = [exec |-> m.exec, ident |-> i, result |-> TRUE]
        /\ replies' \in {replies, replies \cup {Exec!Ipc!Reply("result", m.exec)}}
    BY <1>6 DEF Exec!Ipc!RejectOversize, Exec!Ipc!guestVars, Exec!Ipc!Remember, Exec!Ipc!Send, Exec!Ipc!outVars
  <2>2. UNCHANGED starts
    BY <1>3, <1>6, <2>1 DEF Exec!Started
  <2> QED
    BY <1>1, <2>1, <2>2 DEF Exec!Ipc!Reply, Answered
<1>7. ASSUME m.kind = "request", Exec!Ipc!Reacknowledge(m.exec, i) PROVE IpcFollows
  <2>1. UNCHANGED <<running, current, last>> /\ replies' = replies \cup {Exec!Ipc!Reply("acknowledge", m.exec)}
    BY <1>7 DEF Exec!Ipc!Reacknowledge, Exec!Ipc!guestVars, Exec!Ipc!slotVars, Exec!Ipc!Send
  <2>2. UNCHANGED starts
    BY <1>3, <1>7, <2>1 DEF Exec!Started
  <2> QED
    BY <1>1, <2>1, <2>2 DEF Exec!Ipc!Reply, Answered
<1>8. ASSUME m.kind = "ack-reply", Exec!Ipc!AcceptAckReply(m.exec, i) PROVE IpcFollows
  <2>1. UNCHANGED <<replies, last>> /\ current.exec = m.exec /\ ~current.executing /\ running' = m.exec
        /\ current' = [current EXCEPT !.executing = TRUE]
    BY <1>8 DEF Exec!Ipc!AcceptAckReply, Exec!Ipc!Holds, Exec!Ipc!outVars
  <2>2. starts' = [starts EXCEPT ![m.exec] = starts[m.exec] + 1]
    BY <1>8, <2>1 DEF Exec!Started
  <2>3. current'.exec = m.exec /\ current'.executing /\ current' \in [exec : Execs \cup {None}, ident : Idents, executing : BOOLEAN, abort : BOOLEAN]
    BY <2>1
  <2>4. starts' \in [Execs -> Nat] /\ starts'[m.exec] = starts[m.exec] + 1 /\ starts[m.exec] \in Nat
        /\ \A e \in Execs : e # m.exec => starts'[e] = starts[e]
    BY <1>1, <2>2
  <2> QED
    BY <1>1, <1>8, <2>1, <2>3, <2>4 DEF Answered
<1>9. ASSUME m.kind \in {"ack-reset", "abort"}, Exec!Ipc!DropWaiting(m.exec, i) PROVE IpcFollows
  <2>1. UNCHANGED <<replies, running>> /\ current.exec = m.exec /\ ~current.executing
        /\ current' = Exec!Ipc!NoUnit /\ last' = [exec |-> m.exec, ident |-> current.ident, result |-> FALSE]
    BY <1>9 DEF Exec!Ipc!DropWaiting, Exec!Ipc!Holds, Exec!Ipc!DropUnit, Exec!Ipc!Remember, Exec!Ipc!guestVars, Exec!Ipc!outVars
  <2>2. UNCHANGED starts
    BY <1>3, <1>9, <2>1 DEF Exec!Started
  <2>3. (CHOOSE k \in Idents : TRUE) \in Idents
    OBVIOUS
  <2>4. running = None /\ current'.exec = None /\ current' \in [exec : Execs \cup {None}, ident : Idents, executing : BOOLEAN, abort : BOOLEAN]
    BY <2>1, <2>3, ExecAssumption DEF Exec!Ipc!NoUnit, Exec!Ipc!SomeIdent
  <2>5. last' \in [exec : Execs \cup {None}, ident : Idents, result : BOOLEAN] /\ ~last'.result /\ last'.exec = m.exec
    BY <1>1, <2>1
  <2> QED
    BY <1>1, <2>1, <2>2, <2>4, <2>5, ExecAssumption DEF Answered
<1>10. ASSUME m.kind = "abort", Exec!Ipc!AbortExecuting(m.exec, i) PROVE IpcFollows
  <2>1. UNCHANGED <<replies, running, last>> /\ current' = [current EXCEPT !.abort = TRUE]
    BY <1>10 DEF Exec!Ipc!AbortExecuting, Exec!Ipc!guestVars, Exec!Ipc!outVars
  <2>2. UNCHANGED starts
    BY <1>3, <1>10, <2>1 DEF Exec!Started
  <2> QED
    BY <1>1, <2>1, <2>2 DEF Answered
<1> HIDE DEF ExecInv, IpcFollows, UnitTyped, UnitHolds, HistoryTyped, ResultsAnswer
<1> QED
  BY <1>4, <1>5, <1>6, <1>7, <1>8, <1>9, <1>10 DEF Exec!IpcHandles

\* A step of the door leaves the invariant, whatever it consumes of toMcp.
LEMMA McpKeeps ==
    ASSUME ExecInv, McpFollows, toMcp' \subseteq toMcp,
           UNCHANGED <<tasks, gens, toSandbox, replies, current, last, running, starts>>,
           \/ UNCHANGED verdict
           \/ \E m \in toMcp : /\ m.kind \in {"result", "failure"}
                               /\ verdict' = [verdict EXCEPT ![m.exec] = m.kind]
    PROVE  ExecInv'
<1>1. TasksTyped' /\ UnitTyped' /\ UnitHolds' /\ topic' \subseteq log' /\ McpTyped' /\ ReplyHoldsRow'
  BY DEF ExecInv, TasksTyped, UnitTyped, UnitHolds, McpFollows, ReleasesAreLogged
<1>2. \A e \in Execs : /\ (Early(e)' => Early(e)) /\ (Asked(e)' => Asked(e) \/ (Early(e) /\ ~Early(e)'))
                       /\ Carried(e)' = Carried(e) /\ Forwarded(e)' = Forwarded(e) /\ Answered(e)' = Answered(e)
                       /\ (Sanctioned(e) => Sanctioned(e)')
                       /\ ([kind |-> "result", exec |-> e] \in toMcp' => [kind |-> "result", exec |-> e] \in toMcp)
  BY DEF McpFollows, Carried, Carries, Forwarded, Answered, Sanctioned
<1>3. HistoryTyped' /\ \A e \in Execs : verdict'[e] = "result" => Answered(e)
  <2>1. CASE UNCHANGED verdict
    BY <2>1 DEF ExecInv, HistoryTyped, ResultsAnswer
  <2>2. ASSUME NEW m \in toMcp, m.kind \in {"result", "failure"}, verdict' = [verdict EXCEPT ![m.exec] = m.kind]
        PROVE  HistoryTyped' /\ \A e \in Execs : verdict'[e] = "result" => Answered(e)
    <3>1. m.exec \in Execs /\ m = [kind |-> m.kind, exec |-> m.exec]
      BY DEF ExecInv, TasksTyped, Exec!Mgr!McpMessages
    <3> QED
      BY <2>2, <3>1 DEF ExecInv, HistoryTyped, ResultsAnswer
  <2> QED
    BY <2>1, <2>2
<1>4. \A e \in Execs : (\A t, u \in tasks : Carries(t, e) /\ Carries(u, e) => t = u)' =
                       (\A t, u \in tasks : Carries(t, e) /\ Carries(u, e) => t = u)
  BY DEF Carries
<1>5. RequestIsOne'
  BY <1>2, <1>4 DEF ExecInv, RequestIsOne, RequestAt
<1>6. ReleasesAreLogged' /\ ResultsAnswer'
  BY <1>1, <1>2, <1>3 DEF ExecInv, ReleasesAreLogged, ResultsAnswer
<1> QED
  BY <1>1, <1>3, <1>5, <1>6 DEF ExecInv

LEMMA MgrKeeps ==
    ASSUME ExecInv, MgrFollows,
           UNCHANGED <<now, row, tx, call, topic, log, replies, current, last, running, starts, verdict>>
    PROVE  ExecInv'
<1>1. McpTyped' /\ ReplyHoldsRow' /\ TasksTyped' /\ UnitTyped' /\ HistoryTyped' /\ UnitHolds'
  BY DEF ExecInv, MgrFollows, McpTyped, ReplyHoldsRow, UnitTyped, HistoryTyped, UnitHolds
<1>2. \A e \in Execs : Early(e)' = Early(e) /\ Asked(e)' = Asked(e) /\ Answered(e)' = Answered(e) /\ Sanctioned(e)' = Sanctioned(e)
  BY DEF Early, Asked, Answered, Sanctioned
<1>3. \A e \in Execs : (\A t, u \in tasks : Carries(t, e) /\ Carries(u, e) => t = u)' =
                       \A t, u \in tasks' : Carries(t, e) /\ Carries(u, e) => t = u
  BY DEF Carries
<1>4. RequestIsOne'
  BY <1>2, <1>3 DEF ExecInv, MgrFollows, RequestIsOne, RequestAt
<1>5. ReleasesAreLogged' /\ ResultsAnswer'
  BY <1>2 DEF ExecInv, MgrFollows, ReleasesAreLogged, ResultsAnswer
<1> QED
  BY <1>1, <1>4, <1>5 DEF ExecInv

\* The manager takes a request off the topic, so that it carries it alone.
LEMMA RequestKeeps == ASSUME ExecInv, Exec!MgrRequest PROVE ExecInv' /\ UNCHANGED <<row, log, starts>>
<1>1. PICK m \in topic :
        /\ IF m.kind = "request" THEN Exec!Mgr!AcceptRequest(m.exec) ELSE Exec!Mgr!AcceptControl(m.kind, m.exec)
        /\ topic' \in Exec!Consume(topic, m)
        /\ UNCHANGED <<now, row, tx, call, log, replies, current, last, running, starts, verdict>>
  BY DEF Exec!MgrRequest, Exec!mcpRest, Exec!ipcVars, Exec!ipcRest, Exec!history
<1>2. topic \subseteq Exec!Mcp!Messages /\ m.exec \in Execs /\ m = [kind |-> m.kind, exec |-> m.exec]
  BY DEF ExecInv, McpTyped, Exec!Mcp!Messages
<1>3. m.kind = "request" => Asked(m.exec) /\ ~Asked(m.exec)'
  BY <1>1, <1>2, RequestsAppearOnce DEF Asked, Exec!Mcp!Msg, Exec!Consume
<1>4. m.kind = "request" => ~Carried(m.exec)
  BY <1>2, <1>3 DEF ExecInv, RequestIsOne, RequestAt
<1>5. /\ TasksTyped' /\ toMcp' = toMcp
      /\ \A e \in Execs :
               /\ Carried(e)' => Carried(e) \/ (m.kind = "request" /\ m.exec = e)
               /\ (\A t, u \in tasks : Carries(t, e) /\ Carries(u, e) => t = u)
                  => \A t, u \in tasks' : Carries(t, e) /\ Carries(u, e) => t = u
               /\ Forwarded(e)' => Forwarded(e)
               /\ [kind |-> "ack-reply", exec |-> e] \in toSandbox' =>
                  [kind |-> "ack-reply", exec |-> e] \in toSandbox \/ m = [kind |-> "ack-reply", exec |-> e]
  BY <1>1, <1>2, <1>4, AcceptFollows DEF ExecInv
<1>6. topic' \subseteq topic
  BY <1>1 DEF Exec!Consume
<1>7. McpTyped' /\ ReplyHoldsRow' /\ UnitTyped' /\ HistoryTyped' /\ UnitHolds'
  BY <1>1, <1>6 DEF ExecInv, McpTyped, ReplyHoldsRow, UnitTyped, HistoryTyped, UnitHolds
<1>8. \A e \in Execs : Early(e)' = Early(e) /\ (Asked(e)' => Asked(e)) /\ Answered(e)' = Answered(e) /\ Sanctioned(e)' = Sanctioned(e)
  BY <1>1, <1>6 DEF Early, Asked, Answered, Sanctioned
<1>9. \A e \in Execs : (\A t, u \in tasks : Carries(t, e) /\ Carries(u, e) => t = u)' =
                       \A t, u \in tasks' : Carries(t, e) /\ Carries(u, e) => t = u
  BY DEF Carries
<1>10. RequestIsOne'
  BY <1>1, <1>3, <1>5, <1>8, <1>9 DEF ExecInv, RequestIsOne, RequestAt
<1>11. ReleasesAreLogged'
  <2>1. \A e \in Execs : m = [kind |-> "ack-reply", exec |-> e] => Sanctioned(e)
    BY DEF ExecInv, ReleasesAreLogged, Sanctioned, Exec!Mcp!Msg
  <2> QED
    BY <1>1, <1>5, <1>6, <1>8, <2>1 DEF ExecInv, ReleasesAreLogged
<1>12. ResultsAnswer'
  BY <1>1, <1>5, <1>8 DEF ExecInv, ResultsAnswer
<1> QED
  BY <1>1, <1>5, <1>7, <1>10, <1>11, <1>12 DEF ExecInv

\* No step of the path duplicates a request, or releases a call given up before.
LEMMA ExecNext == ASSUME ExecInv, Exec!Next PROVE ExecInv' /\ Exec!GivenUpStays
<1> DEFINE Stays == ExecInv' /\ Exec!GivenUpStays
<1>1. ASSUME UNCHANGED <<row, log, starts>>, ExecInv' PROVE Stays
  BY <1>1 DEF Exec!GivenUpStays
<1>2. ASSUME McpFollows, UNCHANGED starts, ExecInv' PROVE Stays
  BY <1>2 DEF Exec!GivenUpStays, McpFollows, Sanctioned
<1>3. McpTyped /\ ReplyHoldsRow
  BY DEF ExecInv
<1>4. CASE Exec!McpAlone
  <2>1. McpFollows
    BY <1>3, <1>4, DoorFollows DEF Exec!McpAlone
  <2>2. UNCHANGED <<tasks, gens, toSandbox, toMcp, replies, current, last, running, starts, verdict>>
    BY <1>4 DEF Exec!McpAlone, Exec!mgrVars, Exec!mgrCore, Exec!ipcVars, Exec!ipcRest, Exec!history
  <2> QED
    BY <1>2, <2>1, <2>2, McpKeeps
<1>5. CASE Exec!McpAcknowledged
  <2>1. PICK m \in toMcp, p \in Pods : Exec!Mcp!AckOpen(p, m.exec) /\ toMcp' \in Exec!Consume(toMcp, m)
          /\ UNCHANGED <<tasks, gens, toSandbox, replies, current, last, running, starts, verdict>>
    BY <1>5 DEF Exec!McpAcknowledged, Exec!mgrCore, Exec!ipcVars, Exec!ipcRest, Exec!history
  <2>2. m.exec \in Execs /\ toMcp' \subseteq toMcp
    BY <2>1 DEF ExecInv, TasksTyped, Exec!Mgr!McpMessages, Exec!Consume
  <2>3. McpFollows
    BY <1>3, <2>1, <2>2, DoorFollows
  <2> QED
    BY <1>2, <2>1, <2>2, <2>3, McpKeeps
<1>6. CASE Exec!McpResult
  <2>1. PICK m \in toMcp : Exec!Mcp!ResultCommit(m.exec) /\ toMcp' \in Exec!Consume(toMcp, m)
          /\ m.kind \in {"result", "failure"} /\ verdict' = [verdict EXCEPT ![m.exec] = m.kind]
          /\ UNCHANGED <<tasks, gens, toSandbox, replies, current, last, running, starts>>
    BY <1>6 DEF Exec!McpResult, Exec!mgrCore, Exec!ipcVars, Exec!ipcRest
  <2>2. m.exec \in Execs /\ toMcp' \subseteq toMcp
    BY <2>1 DEF ExecInv, TasksTyped, Exec!Mgr!McpMessages, Exec!Consume
  <2>3. McpFollows
    BY <1>3, <2>1, <2>2, DoorFollows
  <2> QED
    BY <1>2, <2>1, <2>2, <2>3, McpKeeps
<1>7. CASE Exec!MgrAlone
  <2>1. MgrFollows
    BY <1>7, TaskFollows DEF Exec!MgrAlone, ExecInv, RequestIsOne, RequestAt
  <2>2. UNCHANGED <<now, row, tx, call, topic, log, replies, current, last, running, starts, verdict>>
    BY <1>7 DEF Exec!MgrAlone, Exec!mcpVars, Exec!mcpRest, Exec!ipcVars, Exec!ipcRest, Exec!history
  <2> QED
    BY <1>1, <2>1, <2>2, MgrKeeps
<1>8. CASE Exec!MgrRequest
  BY <1>1, <1>8, RequestKeeps
<1>9. CASE Exec!MgrReply
  <2>1. PICK m \in replies : toMcp' = toMcp \cup {[kind |-> m.kind, exec |-> m.exec]} /\ replies' \in Exec!Consume(replies, m)
          /\ UNCHANGED <<now, row, tx, call, topic, log, tasks, gens, toSandbox, current, last, running, starts, verdict>>
    BY <1>9 DEF Exec!MgrReply, Exec!Mgr!PassReply, Exec!mcpVars, Exec!mcpRest, Exec!ipcRest, Exec!history
  <2>2. /\ m \in Exec!Mgr!McpMessages /\ m = [kind |-> m.kind, exec |-> m.exec] /\ replies' \subseteq replies
        /\ toMcp' = toMcp \cup {m}
    BY <2>1 DEF ExecInv, UnitTyped, Exec!Ipc!Replies, Exec!Mgr!McpMessages, Exec!Consume
  <2>3. TasksTyped' /\ UnitTyped' /\ McpTyped' /\ ReplyHoldsRow' /\ HistoryTyped' /\ UnitHolds'
    BY <2>1, <2>2 DEF ExecInv, TasksTyped, UnitTyped, McpTyped, ReplyHoldsRow, HistoryTyped, UnitHolds
  <2>4. RequestIsOne' /\ ReleasesAreLogged'
    BY <2>1 DEF ExecInv, RequestIsOne, RequestAt, Early, Asked, Carried, Carries, Forwarded, ReleasesAreLogged, Sanctioned
  <2>5. ResultsAnswer'
    BY <2>1, <2>2 DEF ExecInv, ResultsAnswer, Answered
  <2> QED
    BY <1>1, <2>1, <2>3, <2>4, <2>5 DEF ExecInv
<1>10. CASE Exec!IpcAlone
  <2>1. UNCHANGED <<now, row, tx, call, topic, log, tasks, gens, toMcp, toSandbox, verdict, starts>>
    BY <1>10 DEF Exec!IpcAlone, Exec!mcpVars, Exec!mcpRest, Exec!mgrVars, Exec!mgrCore, Exec!history
  <2>2. IpcFollows
    BY <1>10, <2>1, UnitAlone DEF Exec!IpcAlone
  <2> QED
    BY <1>1, <2>1, <2>2, IpcKeeps
<1>11. CASE Exec!IpcMessage
  <2>1. PICK m \in toSandbox, i \in Idents :
          /\ Exec!IpcHandles(m, i) /\ toSandbox' \in Exec!Consume(toSandbox, m)
          /\ starts' = IF Exec!Started(m) THEN [starts EXCEPT ![m.exec] = @ + 1] ELSE starts
          /\ UNCHANGED <<now, row, tx, call, topic, log, tasks, gens, toMcp, verdict>>
    BY <1>11 DEF Exec!IpcMessage, Exec!mcpVars, Exec!mcpRest, Exec!mgrCore
  <2>2. IpcFollows
    BY <2>1, UnitHandles
  <2>3. ExecInv'
    BY <2>1, <2>2, IpcKeeps
  <2>4. Exec!GivenUpStays
    BY <2>1, <2>2 DEF Exec!GivenUpStays, ExecInv, ReleasesAreLogged, Sanctioned, IpcFollows
  <2> QED
    BY <2>3, <2>4
<1>12. CASE Exec!Lose
  <2>1. /\ UNCHANGED <<now, row, tx, call, log, tasks, gens, current, last, running, starts, verdict>>
        /\ topic' \subseteq topic /\ toSandbox' \subseteq toSandbox /\ toMcp' \subseteq toMcp /\ replies' \subseteq replies
    BY <1>12 DEF Exec!Lose, Exec!mcpRest, Exec!ipcRest, Exec!mgrCore, Exec!history
  <2>2. TasksTyped' /\ UnitTyped' /\ McpTyped' /\ ReplyHoldsRow' /\ HistoryTyped' /\ UnitHolds'
    BY <2>1 DEF ExecInv, TasksTyped, UnitTyped, McpTyped, ReplyHoldsRow, HistoryTyped, UnitHolds
  <2>3. RequestIsOne'
    BY <2>1 DEF ExecInv, RequestIsOne, RequestAt, Early, Asked, Carried, Carries, Forwarded
  <2>4. ReleasesAreLogged' /\ ResultsAnswer'
    BY <2>1 DEF ExecInv, ReleasesAreLogged, Sanctioned, ResultsAnswer, Answered
  <2> QED
    BY <1>1, <2>1, <2>2, <2>3, <2>4 DEF ExecInv
<1> QED
  BY <1>4, <1>5, <1>6, <1>7, <1>8, <1>9, <1>10, <1>11, <1>12 DEF Exec!Next

\* What the invariant is for.
LEMMA ExecHolds == ExecInv => Exec!AtMostOneStart /\ Exec!StartsOnlyReleased /\ Exec!ResultMeansStarted
<1> SUFFICES ASSUME ExecInv PROVE Exec!AtMostOneStart /\ Exec!StartsOnlyReleased /\ Exec!ResultMeansStarted
  OBVIOUS
<1>1. \A e \in Execs : starts[e] \in Nat /\ (starts[e] # 0 => starts[e] = 1 /\ Sanctioned(e))
                       /\ (verdict[e] = "result" => starts[e] # 0 \/ e \in Oversize)
  BY DEF ExecInv, HistoryTyped, RequestIsOne, RequestAt, ReleasesAreLogged, ResultsAnswer, Answered
<1> QED
  BY <1>1 DEF Sanctioned, Exec!AtMostOneStart, Exec!StartsOnlyReleased, Exec!ResultMeansStarted

-----------------------------------------------------------------------------
(***************************************************************************)
(* EgressIdentity: an answer keeps its keys, and a crash leaves a state    *)
(* that opens.                                                             *)
(***************************************************************************)

EchNames == {Identity!EchName(k) : k \in 1..MaxEch}
MappedNames == {Identity!Mapped(u, g) : u \in UpKeys, g \in 1..MaxKeyGen}
Stages == {"absent", "prepared", "published", "active", "retiring", "retired"}
Horizons == 0..(IdentityTime + 1)
EchBodies == [names : SUBSET EchNames, current : EchNames]
Leavers == [name : MappedNames, end : Nat]
ZoneBodies == [current : SUBSET MappedNames, retiring : SUBSET Leavers, clock : Nat]
Plans == [previous : Nat, current : SUBSET MappedNames, retiring : SUBSET Leavers,
    overlap : SUBSET MappedNames, now : 0..IdentityTime]
Answers == [deps : SUBSET Identity!Names, until : Horizons, plan : Plans]
Chain == {"publish", "activate", "journal", "overlap", "tail"}
Ops == Chain \cup {"none", "generate", "stages", "collect", "retire"}

Publication(p) ==
    /\ p.kind \in {"root", "ech", "zone", "dns"} /\ p.seq \in 0..(MaxSeq + 1)
    /\ p.deps \subseteq Identity!Names /\ p.until \in Horizons
    /\ p.kind = "ech" => p.body \in EchBodies /\ p.body.current \in p.body.names
    /\ p.kind = "zone" => p.body \in ZoneBodies
PubsTyped == \A p \in pubs : Publication(p)
IdentityTyped ==
    /\ keys \in [Identity!Names -> Stages]
    /\ PubsTyped
    /\ ech \in EchBodies \cup {Identity!NoEch}
    /\ jobs \in [Jobs -> Answers]
    /\ task \in [op : Ops, job : Jobs \cup {0}, todo : SUBSET Identity!Names]
    /\ identityNow \in 0..IdentityTime

\* A journal has one newest record.
OneOfEach(kind) == \A p, q \in Identity!Heads(kind) : p.seq = q.seq => p = q
JournalsInOrder == OneOfEach("ech") /\ OneOfEach("zone")

\* The first initialisation comes before everything else.
Begun == Identity!Heads("ech") # {}
RootComesFirst ==
    /\ keys[Identity!Root] \in {"absent", "active"}
    /\ keys[Identity!Root] = "absent" => ech = Identity!NoEch /\ pubs = {}
    /\ keys[Identity!Root] # "absent" => Identity!Heads("root") # {}
    /\ ~Begun => Identity!Heads("dns") = {}

\* What a head names is held: an ECH key stays so until a later head drops it.
Held(n) == keys[n] \in {"published", "active", "retiring"}
Staged(n) == keys[n] \in {"active", "retiring"}
HeadsHold ==
    /\ Begun => \A n \in Identity!Head("ech").body.names : Held(n)
    /\ \A n \in Identity!Journal.current : Identity!Key(n)

\* So is what a live answer depends on, and of its ECH keys the head knows.
Lasts(p) == p.until >= identityNow
Backed(d) == Identity!Key(d) /\ (d \in EchNames => d \in Identity!Head("ech").body.names)
AnswersBacked == \A p \in Identity!Heads("dns") : Lasts(p) => \A d \in p.deps : Backed(d)
StoreSound == JournalsInOrder /\ RootComesFirst /\ HeadsHold /\ AnswersBacked

\* The installed context is that of the head, but before the first there is none.
NoJobs == \A j \in Jobs : jobs[j] = Identity!NoJob
ContextIsHead ==
    Identity!Running =>
        IF Begun
        THEN /\ ech = Identity!Head("ech").body
             /\ task.op # "stages" => \A n \in ech.names : Staged(n)
        ELSE task.op = "generate" /\ ech.names = {} /\ NoJobs
DownIsIdle == ~Identity!Running => task = Identity!Idle /\ NoJobs

\* A dropped key that waits for its removal: no live answer depends on it.
Unneeded(n) == \A p \in pubs : n \in p.deps => p.until < identityNow
Dropped(n) == n \in EchNames \ ech.names /\ Staged(n) /\ Unneeded(n)
TaskSound ==
    /\ task.op \in Chain => task.job \in Jobs
    /\ task.op = "generate" => task.todo \subseteq EchNames
    /\ task.op = "stages" => task.todo = ech.names
    /\ task.op = "retire" => \A n \in task.todo : Dropped(n)
    /\ task.op = "overlap" =>
        /\ task.todo \subseteq MappedNames
        /\ Identity!Heads("zone") # {} /\ Identity!Journal.current = jobs[task.job].plan.current

\* An ECH key a candidate answer depends on is installed, or the answer will be denied.
Waiting(d) == task.op = "retire" /\ d \in task.todo
JobsSound ==
    \A j \in Jobs :
        /\ \A d \in jobs[j].deps \cap EchNames : d \in ech.names \/ keys[d] = "retired" \/ Waiting(d)
        /\ \A e \in jobs[j].plan.retiring : e.name \notin jobs[j].plan.current

IdentityInv ==
    /\ IdentityTyped /\ StoreSound /\ ContextIsHead /\ DownIsIdle /\ TaskSound /\ JobsSound

LEMMA NamesApart ==
  /\ Identity!Names = {Identity!Root} \cup EchNames \cup MappedNames
  /\ Identity!Root[1] = "root"
  /\ \A d \in EchNames : d[1] = "ech" /\ d # <<>>
  /\ \A d \in MappedNames : d[1] = "dnssec"
<1>1. Identity!Names = {Identity!Root} \cup EchNames \cup MappedNames
  BY DEF Identity!Names, EchNames, MappedNames
<1>2. Identity!Root[1] = "root"
  BY DEF Identity!Root
<1>3. \A d \in EchNames : d[1] = "ech" /\ d # <<>>
  BY DEF EchNames, Identity!EchName
<1>4. \A d \in MappedNames : d[1] = "dnssec"
  BY DEF MappedNames, Identity!Mapped
<1> QED
  BY <1>1, <1>2, <1>3, <1>4

\* The three kinds of names do not meet.
LEMMA KindsDiffer ==
  /\ \A d \in EchNames : d # Identity!Root /\ d \notin MappedNames /\ d \in Identity!Names
  /\ \A d \in MappedNames : d # Identity!Root /\ d \notin EchNames /\ d \in Identity!Names
  /\ \A d \in Identity!Names : d[1] = "ech" <=> d \in EchNames
  /\ Identity!Root \in Identity!Names
  BY NamesApart

LEMMA RunningIsTyped == ech \in EchBodies \cup {Identity!NoEch} => (Identity!Running <=> ech \in EchBodies)
<1>1. Identity!NoEch \notin EchBodies
  BY NamesApart DEF Identity!NoEch, EchBodies
<1> QED
  BY <1>1 DEF Identity!Running

\* The newest record of a journal.
LEMMA NewestExists ==
  ASSUME NEW H, H # {}, \A q \in H : q.seq \in 0..(MaxSeq + 1)
  PROVE  \E p \in H : \A q \in H : q.seq <= p.seq
<1>1. PICK S : S = {q.seq : q \in H}
  OBVIOUS
<1>2. S \in SUBSET Nat /\ S # {} /\ MaxSeq + 1 \in Nat /\ \A x \in S : x <= MaxSeq + 1
  BY <1>1, IdentityAssumption
<1>3. PICK x \in S : \A y \in S : y <= x
  BY <1>2, GreatestExists
<1> QED
  BY <1>1, <1>3

LEMMA HeadIsNewest ==
  ASSUME PubsTyped, NEW kind, Identity!Heads(kind) # {}
  PROVE  /\ Identity!Head(kind) \in Identity!Heads(kind)
         /\ \A q \in Identity!Heads(kind) : q.seq <= Identity!Head(kind).seq
<1>1. \A q \in Identity!Heads(kind) : q.seq \in 0..(MaxSeq + 1)
  BY DEF PubsTyped, Publication, Identity!Heads
<1>2. \E p \in Identity!Heads(kind) : \A q \in Identity!Heads(kind) : q.seq <= p.seq
  BY <1>1, NewestExists
<1> QED
  BY <1>2 DEF Identity!Head

LEMMA NewestIsHead ==
  ASSUME NEW H, NEW p \in H, \A q \in H : q.seq \in Nat /\ q.seq <= p.seq,
         \A q, r \in H : q.seq = r.seq => q = r
  PROVE  p = CHOOSE r \in H : \A q \in H : q.seq <= r.seq
<1>1. PICK c : c = CHOOSE r \in H : \A q \in H : q.seq <= r.seq
  OBVIOUS
<1>2. c \in H /\ \A q \in H : q.seq <= c.seq
  BY <1>1
<1>3. c.seq = p.seq
  BY <1>2
<1> QED
  BY <1>1, <1>2, <1>3

LEMMA SeqTyped == ASSUME PubsTyped, NEW kind PROVE Identity!Seq(kind) \in 0..(MaxSeq + 1)
<1>1. CASE Identity!Heads(kind) = {}
  BY <1>1, IdentityAssumption DEF Identity!Seq
<1>2. CASE Identity!Heads(kind) # {}
  <2>1. Identity!Head(kind) \in pubs
    BY <1>2, HeadIsNewest DEF Identity!Heads
  <2> QED
    BY <1>2, <2>1 DEF Identity!Seq, PubsTyped, Publication
<1> QED
  BY <1>1, <1>2

\* What a commit appends is the head of its journal, and no other journal's.
LEMMA CommitIsHead ==
  ASSUME PubsTyped, NEW kind, OneOfEach(kind), NEW r, r.kind = kind, r.seq = Identity!Seq(kind) + 1,
         pubs' = pubs \cup {r}
  PROVE  /\ Identity!Heads(kind)' = Identity!Heads(kind) \cup {r}
         /\ Identity!Head(kind)' = r /\ OneOfEach(kind)'
<1>1. Identity!Heads(kind)' = Identity!Heads(kind) \cup {r}
  BY DEF Identity!Heads
<1>2. PICK s : s = Identity!Seq(kind)
  OBVIOUS
<1>3. s \in Nat /\ \A q \in Identity!Heads(kind) : q.seq \in Nat /\ q.seq <= s
  <2>1. s \in Nat /\ \A q \in Identity!Heads(kind) : q.seq \in Nat
    BY <1>2, SeqTyped, IdentityAssumption DEF PubsTyped, Publication, Identity!Heads
  <2>2. \A q \in Identity!Heads(kind) : q.seq <= s
    BY <1>2, HeadIsNewest DEF Identity!Seq
  <2> QED
    BY <2>1, <2>2
<1>4. PICK H : H = Identity!Heads(kind) \cup {r}
  OBVIOUS
<1>5. \A q \in H : q.seq \in Nat /\ q.seq <= r.seq
  BY <1>2, <1>3, <1>4
<1>6. \A p, q \in H : p.seq = q.seq => p = q
  <2>1. \A q \in Identity!Heads(kind) : q.seq # r.seq
    BY <1>2, <1>3
  <2> QED
    BY <1>4, <2>1 DEF OneOfEach
<1>7. r = CHOOSE p \in H : \A q \in H : q.seq <= p.seq
  BY <1>4, <1>5, <1>6, NewestIsHead
<1>8. Identity!Head(kind)' = CHOOSE p \in H : \A q \in H : q.seq <= p.seq
  BY <1>1, <1>4 DEF Identity!Head
<1>9. OneOfEach(kind)'
  BY <1>1, <1>4, <1>6 DEF OneOfEach
<1> QED
  BY <1>1, <1>7, <1>8, <1>9

LEMMA SameHeads ==
  ASSUME NEW kind, Identity!Heads(kind)' = Identity!Heads(kind)
  PROVE  /\ Identity!Head(kind)' = Identity!Head(kind) /\ Identity!Seq(kind)' = Identity!Seq(kind)
         /\ OneOfEach(kind) => OneOfEach(kind)'
<1>1. Identity!Head(kind)' = Identity!Head(kind)
  BY DEF Identity!Head
<1> QED
  BY <1>1 DEF Identity!Seq, OneOfEach

LEMMA OtherHeads ==
  ASSUME NEW kind, NEW r, r.kind # kind, pubs' = pubs \cup {r}
  PROVE  Identity!Heads(kind)' = Identity!Heads(kind)
  BY DEF Identity!Heads

\* A prune spares the head.
LEMMA PruneKeepsHead ==
  ASSUME PubsTyped, NEW kind, OneOfEach(kind), pubs' = Identity!Pruned(kind)
  PROVE  /\ pubs' \subseteq pubs /\ OneOfEach(kind)' /\ Identity!Head(kind)' = Identity!Head(kind)
         /\ Identity!Heads(kind) = {} <=> Identity!Heads(kind)' = {}
         /\ \A k : k # kind => Identity!Heads(k)' = Identity!Heads(k)
<1>1. pubs' \subseteq pubs /\ Identity!Heads(kind)' \subseteq Identity!Heads(kind)
  BY DEF Identity!Pruned, Identity!Heads
<1>2. \A k : k # kind => Identity!Heads(k)' = Identity!Heads(k)
  BY DEF Identity!Pruned, Identity!Heads
<1>3. OneOfEach(kind)'
  BY <1>1 DEF OneOfEach
<1>4. CASE Identity!Heads(kind) = {}
  <2>1. Identity!Heads(kind)' = Identity!Heads(kind)
    BY <1>1, <1>4
  <2> QED
    BY <1>1, <1>2, <1>3, <1>4, <2>1, SameHeads
<1>5. CASE Identity!Heads(kind) # {}
  <2>1. PICK h : h = Identity!Head(kind)
    OBVIOUS
  <2>2. h \in Identity!Heads(kind) /\ \A q \in Identity!Heads(kind) : q.seq <= h.seq
    BY <1>5, <2>1, HeadIsNewest
  <2>3. h \in Identity!Heads(kind)'
    BY <1>5, <2>1, <2>2 DEF Identity!Pruned, Identity!Heads, Identity!Seq
  <2>4. PICK H : H = Identity!Heads(kind)'
    OBVIOUS
  <2>5. \A q \in H : q.seq \in Nat /\ q.seq <= h.seq
    BY <1>1, <2>2, <2>4, IdentityAssumption DEF PubsTyped, Publication, Identity!Heads
  <2>6. \A q, r \in H : q.seq = r.seq => q = r
    BY <1>3, <2>4 DEF OneOfEach
  <2>7. h = CHOOSE r \in H : \A q \in H : q.seq <= r.seq
    BY <2>3, <2>4, <2>5, <2>6, NewestIsHead
  <2>8. Identity!Head(kind)' = CHOOSE r \in H : \A q \in H : q.seq <= r.seq
    BY <2>4 DEF Identity!Head
  <2> QED
    BY <1>1, <1>2, <1>3, <1>5, <2>1, <2>3, <2>7, <2>8
<1> QED
  BY <1>4, <1>5

\* The horizon of a key is past every publication that depends on it.
LEMMA HorizonBounds ==
  ASSUME PubsTyped, NEW n
  PROVE  /\ Identity!Horizon(n) \in Nat
         /\ \A p \in pubs : n \in p.deps => p.until \in Nat /\ p.until <= Identity!Horizon(n)
<1>1. PICK S : S = {p.until : p \in {q \in pubs : n \in q.deps}} \cup {0}
  OBVIOUS
<1>2. S \in SUBSET Nat /\ S # {} /\ IdentityTime + 1 \in Nat /\ \A x \in S : x <= IdentityTime + 1
  BY <1>1, IdentityAssumption DEF PubsTyped, Publication, Horizons
<1>3. \E x \in S : \A y \in S : y <= x
  BY <1>2, GreatestExists
<1>4. \E x \in S : \A y \in S : x >= y
  BY <1>2, <1>3
<1>5. Identity!Horizon(n) = CHOOSE x \in S : \A y \in S : x >= y
  BY <1>1 DEF Identity!Horizon, Identity!Max
<1>6. Identity!Horizon(n) \in S /\ \A y \in S : Identity!Horizon(n) >= y
  BY <1>4, <1>5
<1> QED
  BY <1>1, <1>2, <1>6

LEMMA JournalIsTyped == ASSUME PubsTyped PROVE Identity!Journal \in ZoneBodies
<1>1. CASE Identity!Heads("zone") = {}
  BY <1>1 DEF Identity!Journal, ZoneBodies
<1>2. CASE Identity!Heads("zone") # {}
  <2>1. Identity!Head("zone") \in pubs /\ Identity!Head("zone").kind = "zone"
    BY <1>2, HeadIsNewest DEF Identity!Heads
  <2> QED
    BY <1>2, <2>1 DEF Identity!Journal, PubsTyped, Publication
<1> QED
  BY <1>1, <1>2

LEMMA EchHeadIsTyped ==
  ASSUME PubsTyped, Begun
  PROVE  Identity!Head("ech").body \in EchBodies /\ Identity!Head("ech").body.current \in Identity!Head("ech").body.names
<1>1. Identity!Head("ech") \in pubs /\ Identity!Head("ech").kind = "ech"
  BY HeadIsNewest DEF Identity!Heads, Begun
<1> QED
  BY <1>1 DEF PubsTyped, Publication

\* A transaction on key rows: each stage goes on, or an unneeded key is removed.
Keeps(n) ==
    /\ Identity!Key(n) => Identity!Key(n)'
    /\ Held(n) => Held(n)'
    /\ Staged(n) => Staged(n)'
    /\ keys[n] = "retired" => keys'[n] = "retired"
Removed(n) ==
    /\ keys'[n] = "retired" /\ Unneeded(n)
    /\ Begun => n \notin Identity!Head("ech").body.names
    /\ n \notin Identity!Journal.current
KeysMove ==
    /\ keys' \in [Identity!Names -> Stages] /\ keys'[Identity!Root] = keys[Identity!Root]
    /\ \A n \in Identity!Names : Keeps(n) \/ Removed(n)

LEMMA SameKeysMove == ASSUME IdentityTyped, UNCHANGED keys PROVE KeysMove
  BY DEF IdentityTyped, KeysMove, Keeps, Identity!Key, Held, Staged

LEMMA AdvanceMoves ==
  ASSUME IdentityTyped, NEW n \in Identity!Names \ {Identity!Root}, keys[n] \in {"prepared", "published", "active"},
         keys' = Identity!Advanced(keys, n)
  PROVE  KeysMove /\ \A d \in Identity!Names : Keeps(d)
<1>1. PICK s : s = Identity!Following[keys[n]]
  OBVIOUS
<1>2. /\ keys[n] = "prepared" => s = "published"
      /\ keys[n] = "published" => s = "active"
      /\ keys[n] = "active" => s = "retiring"
  BY <1>1 DEF Identity!Following
<1>3. keys' = [keys EXCEPT ![n] = s]
  BY <1>1 DEF Identity!Advanced
<1>4. keys' \in [Identity!Names -> Stages] /\ \A d \in Identity!Names : keys'[d] = IF d = n THEN s ELSE keys[d]
  BY <1>2, <1>3 DEF IdentityTyped, Stages
<1>5. \A d \in Identity!Names : Keeps(d)
  BY <1>2, <1>4 DEF Keeps, Identity!Key, Held, Staged
<1> QED
  BY <1>4, <1>5, KindsDiffer DEF KeysMove

LEMMA PrepareMoves ==
  ASSUME IdentityTyped, NEW n \in Identity!Names \ {Identity!Root}, keys[n] = "absent",
         keys' = [keys EXCEPT ![n] = "prepared"]
  PROVE  KeysMove /\ \A d \in Identity!Names : Keeps(d)
<1>1. keys' \in [Identity!Names -> Stages]
      /\ \A d \in Identity!Names : keys'[d] = IF d = n THEN "prepared" ELSE keys[d]
  BY DEF IdentityTyped, Stages
<1>2. \A d \in Identity!Names : Keeps(d)
  BY <1>1 DEF Keeps, Identity!Key, Held, Staged
<1> QED
  BY <1>1, <1>2, KindsDiffer DEF KeysMove

LEMMA RetireMoves ==
  ASSUME IdentityTyped, NEW n \in Identity!Names \ {Identity!Root}, Unneeded(n),
         Begun => n \notin Identity!Head("ech").body.names, n \notin Identity!Journal.current,
         keys' = [keys EXCEPT ![n] = "retired"]
  PROVE  KeysMove
<1>1. keys' \in [Identity!Names -> Stages]
      /\ \A d \in Identity!Names : keys'[d] = IF d = n THEN "retired" ELSE keys[d]
  BY DEF IdentityTyped, Stages
<1>2. \A d \in Identity!Names : d # n => Keeps(d)
  BY <1>1 DEF Keeps, Identity!Key, Held, Staged
<1>3. Removed(n)
  BY <1>1 DEF Removed
<1> QED
  BY <1>1, <1>2, <1>3, KindsDiffer DEF KeysMove

LEMMA JournalStays ==
  ASSUME Identity!Heads("zone") = {} <=> Identity!Heads("zone")' = {},
         Identity!Head("zone")' = Identity!Head("zone")
  PROVE  Identity!Journal' = Identity!Journal
  BY DEF Identity!Journal

\* Of the key rows alone, nothing that is sound is lost.
LEMMA KeysMoveKeeps ==
  ASSUME IdentityTyped, StoreSound, KeysMove, UNCHANGED <<pubs, ech, identityNow>>
  PROVE  /\ StoreSound' /\ Begun' = Begun /\ Identity!Head("ech")' = Identity!Head("ech")
         /\ Identity!Heads("zone")' = Identity!Heads("zone") /\ Identity!Journal' = Identity!Journal
         /\ \A n \in Identity!Names : Staged(n) /\ Begun /\ n \in Identity!Head("ech").body.names => Staged(n)'
<1>1. \A k : Identity!Heads(k)' = Identity!Heads(k)
  BY DEF Identity!Heads
<1>2. /\ Identity!Head("ech")' = Identity!Head("ech") /\ Identity!Head("zone")' = Identity!Head("zone")
      /\ JournalsInOrder'
  BY <1>1, SameHeads DEF StoreSound, JournalsInOrder
<1>3. Identity!Journal' = Identity!Journal /\ Begun' = Begun
  BY <1>1, <1>2, JournalStays DEF Begun
<1>4. RootComesFirst'
  BY <1>1, <1>3 DEF RootComesFirst, StoreSound, KeysMove
<1>5. Begun => Identity!Head("ech").body.names \subseteq Identity!Names
  BY EchHeadIsTyped, KindsDiffer DEF IdentityTyped, EchBodies
<1>6. Identity!Journal.current \subseteq Identity!Names
  BY JournalIsTyped, KindsDiffer DEF IdentityTyped, ZoneBodies
<1>7. HeadsHold'
  <2>1. Begun => \A n \in Identity!Head("ech").body.names : Held(n)'
    BY <1>5 DEF KeysMove, Keeps, Removed, StoreSound, HeadsHold
  <2>2. \A n \in Identity!Journal.current : Identity!Key(n)'
    BY <1>6 DEF KeysMove, Keeps, Removed, StoreSound, HeadsHold
  <2> QED
    BY <1>2, <1>3, <2>1, <2>2 DEF HeadsHold, Held, Identity!Key
<1>8. AnswersBacked'
  <2>1. SUFFICES ASSUME NEW p \in Identity!Heads("dns"), Lasts(p), NEW d \in p.deps PROVE Backed(d)'
    BY <1>1 DEF AnswersBacked, Lasts
  <2>2. p \in pubs /\ d \in Identity!Names /\ Backed(d)
    BY <2>1 DEF Identity!Heads, IdentityTyped, PubsTyped, Publication, StoreSound, AnswersBacked
  <2>3. ~Unneeded(d)
    BY <2>1, <2>2, IdentityAssumption
       DEF Unneeded, Lasts, IdentityTyped, PubsTyped, Publication, Horizons
  <2>4. Keeps(d)
    BY <2>2, <2>3 DEF KeysMove, Removed
  <2> QED
    BY <1>2, <2>2, <2>4 DEF Keeps, Backed
<1>9. \A n \in Identity!Names : Staged(n) /\ Begun /\ n \in Identity!Head("ech").body.names => Staged(n)'
  BY DEF KeysMove, Keeps, Removed
<1> QED
  BY <1>1, <1>2, <1>3, <1>4, <1>7, <1>8, <1>9 DEF StoreSound

\* Publications that go, heads excepted, and time that passes.
Shrunk ==
    /\ pubs' \subseteq pubs /\ UNCHANGED <<keys, ech>>
    /\ identityNow' \in 0..IdentityTime /\ identityNow <= identityNow'
    /\ Identity!Heads("root")' = Identity!Heads("root")
    /\ \A k \in {"ech", "zone"} :
        /\ OneOfEach(k)' /\ Identity!Head(k)' = Identity!Head(k)
        /\ Identity!Heads(k) = {} <=> Identity!Heads(k)' = {}
LEMMA ShrinkKeeps ==
  ASSUME IdentityTyped, StoreSound, Shrunk
  PROVE  /\ StoreSound' /\ PubsTyped' /\ Begun' = Begun /\ Identity!Head("ech")' = Identity!Head("ech")
         /\ Identity!Journal' = Identity!Journal
         /\ \A n : Staged(n)' <=> Staged(n)
         /\ \A n : Unneeded(n) => Unneeded(n)'
<1>1. PubsTyped'
  BY DEF Shrunk, IdentityTyped, PubsTyped, Publication
<1>2. Begun' = Begun /\ Identity!Head("ech")' = Identity!Head("ech") /\ JournalsInOrder'
  BY DEF Shrunk, Begun, JournalsInOrder
<1>3. Identity!Journal' = Identity!Journal
  BY JournalStays DEF Shrunk
<1>4. Identity!Heads("dns")' \subseteq Identity!Heads("dns")
  BY DEF Shrunk, Identity!Heads
<1>5. RootComesFirst'
  BY <1>2, <1>4 DEF RootComesFirst, StoreSound, Shrunk
<1>6. \A n : (Staged(n)' <=> Staged(n)) /\ (Held(n)' <=> Held(n)) /\ (Identity!Key(n)' <=> Identity!Key(n))
  BY DEF Shrunk, Staged, Held, Identity!Key
<1>7. HeadsHold'
  BY <1>2, <1>3, <1>6 DEF HeadsHold, StoreSound
<1>8. \A p \in pubs : p.until \in Int /\ identityNow \in Int /\ identityNow' \in Int /\ identityNow <= identityNow'
  BY IdentityAssumption DEF Shrunk, IdentityTyped, PubsTyped, Publication, Horizons
<1>9. AnswersBacked'
  <2>1. SUFFICES ASSUME NEW p \in Identity!Heads("dns")', Lasts(p)', NEW d \in p.deps PROVE Backed(d)'
    BY DEF AnswersBacked
  <2>2. p \in Identity!Heads("dns") /\ Lasts(p)
    BY <1>4, <1>8, <2>1 DEF Lasts, Identity!Heads
  <2>3. Backed(d)
    BY <2>2 DEF StoreSound, AnswersBacked
  <2> QED
    BY <1>2, <1>6, <2>3 DEF Backed
<1>10. \A n : Unneeded(n) => Unneeded(n)'
  BY <1>8 DEF Unneeded, Shrunk
<1> QED
  BY <1>1, <1>2, <1>3, <1>5, <1>6, <1>7, <1>9, <1>10 DEF StoreSound

\* Candidates go, or wait on.
LEMMA JobsKept ==
  ASSUME IdentityInv, jobs' \in [Jobs -> Answers], \A j \in Jobs : jobs'[j] \in {jobs[j], Identity!NoJob},
         \A d \in EchNames : keys[d] = "retired" => keys'[d] = "retired",
         \A d \in EchNames : d \in ech.names \/ Waiting(d) => d \in ech'.names \/ keys'[d] = "retired" \/ Waiting(d)'
  PROVE  JobsSound'
<1>1. SUFFICES ASSUME NEW j \in Jobs
        PROVE  /\ \A d \in jobs'[j].deps \cap EchNames : d \in ech'.names \/ keys'[d] = "retired" \/ Waiting(d)'
               /\ \A e \in jobs'[j].plan.retiring : e.name \notin jobs'[j].plan.current
  BY DEF JobsSound
<1>2. CASE jobs'[j] = jobs[j]
  BY <1>2 DEF IdentityInv, JobsSound
<1>3. CASE jobs'[j] = Identity!NoJob
  BY <1>3 DEF Identity!NoJob, Identity!NoPlan
<1> QED
  BY <1>2, <1>3

LEMMA NoJobTyped == Identity!NoJob \in Answers
  BY IdentityAssumption DEF Identity!NoJob, Identity!NoPlan, Answers, Plans, Horizons

-----------------------------------------------------------------------------
(***************************************************************************)
(* Each operation of the identities.                                       *)
(***************************************************************************)

Tasks == [op : Ops, job : Jobs \cup {0}, todo : SUBSET Identity!Names]

\* While the process runs past its first key.
LEMMA Installed ==
  ASSUME IdentityInv, Identity!Running, task.op # "generate"
  PROVE  /\ Begun /\ ech = Identity!Head("ech").body /\ ech \in EchBodies
         /\ ech.names \subseteq EchNames /\ ech.current \in ech.names
         /\ task.op # "stages" => \A n \in ech.names : Staged(n)
<1>1. Begun /\ ech = Identity!Head("ech").body
  BY DEF IdentityInv, ContextIsHead
<1>2. ech \in EchBodies /\ ech.current \in ech.names
  BY <1>1, EchHeadIsTyped DEF IdentityInv, IdentityTyped
<1> QED
  BY <1>1, <1>2 DEF IdentityInv, ContextIsHead, EchBodies

LEMMA IdleIsTyped ==
  /\ Identity!Idle \in Tasks /\ Identity!Idle.op = "none" /\ Identity!Idle.todo = {}
  BY DEF Tasks, Ops, Chain, Identity!Idle

LEMMA BusyRuns == ASSUME IdentityInv, task.op # "none" PROVE Identity!Running
  BY IdleIsTyped DEF IdentityInv, DownIsIdle

\* A step that moves keys while the stages of the installed keys are complete.
LEMMA KeysStep ==
  ASSUME IdentityInv, Identity!Running, task.op \notin {"stages", "generate"},
         KeysMove, UNCHANGED <<pubs, ech, identityNow>>,
         task' \in Tasks, task'.op # "stages", jobs' \in [Jobs -> Answers], JobsSound', TaskSound'
  PROVE  IdentityInv'
<1>1. /\ StoreSound' /\ Begun' = Begun /\ Identity!Head("ech")' = Identity!Head("ech")
      /\ \A n \in Identity!Names : Staged(n) /\ Begun /\ n \in Identity!Head("ech").body.names => Staged(n)'
  BY KeysMoveKeeps DEF IdentityInv
<1>2. /\ Begun /\ ech = Identity!Head("ech").body /\ ech \in EchBodies
      /\ ech.names \subseteq EchNames /\ \A n \in ech.names : Staged(n)
  BY Installed
<1>3. \A n \in ech.names : Staged(n)'
  BY <1>1, <1>2, KindsDiffer
<1>4. IdentityTyped'
  BY DEF IdentityInv, IdentityTyped, PubsTyped, KeysMove, Tasks
<1>5. Identity!Running'
  BY DEF Identity!Running
<1>6. ContextIsHead'
  BY <1>1, <1>2, <1>3 DEF ContextIsHead, Staged
<1> QED
  BY <1>1, <1>4, <1>5, <1>6 DEF IdentityInv, DownIsIdle

LEMMA RestageKeeps == ASSUME IdentityInv, Identity!Restage PROVE IdentityInv'
<1>0. task.op = "stages" /\ UNCHANGED <<pubs, ech, jobs, identityNow>>
  BY DEF Identity!Restage
<1>1. Identity!Running
  BY <1>0, BusyRuns
<1>2. /\ Begun /\ ech = Identity!Head("ech").body /\ ech \in EchBodies
      /\ ech.names \subseteq EchNames /\ task.todo = ech.names
  BY <1>0, <1>1, Installed DEF IdentityInv, TaskSound
<1>3. PICK behind : behind = {n \in task.todo : Identity!Behind(n)}
  OBVIOUS
<1>4. CASE behind = {}
  <2>1. task' = Identity!Idle /\ UNCHANGED keys
    BY <1>3, <1>4 DEF Identity!Restage
  <2>2. KeysMove
    BY <2>1, SameKeysMove DEF IdentityInv
  <2>3. StoreSound' /\ Begun' = Begun /\ Identity!Head("ech")' = Identity!Head("ech")
    BY <1>0, <2>2, KeysMoveKeeps DEF IdentityInv
  <2>4. \A n \in ech.names : Held(n) /\ ~Identity!Behind(n)
    BY <1>2, <1>3, <1>4 DEF IdentityInv, StoreSound, HeadsHold
  <2>5. \A n \in ech.names : Staged(n)
    BY <2>4 DEF Held, Staged, Identity!Behind
  <2>6. ContextIsHead'
    BY <1>0, <1>2, <2>1, <2>3, <2>5 DEF ContextIsHead, Staged
  <2>7. IdentityTyped' /\ DownIsIdle'
    BY <1>0, <1>1, <2>1, IdleIsTyped DEF IdentityInv, IdentityTyped, PubsTyped, DownIsIdle, Identity!Running, Tasks
  <2>8. TaskSound'
    BY <2>1, IdleIsTyped DEF TaskSound, Chain
  <2>9. JobsSound'
    BY <1>0, <2>1 DEF IdentityInv, JobsSound, Waiting
  <2> QED
    BY <2>3, <2>6, <2>7, <2>8, <2>9 DEF IdentityInv
<1>5. CASE behind # {}
  <2>1. PICK n \in behind : keys' = Identity!Advanced(keys, n) /\ task' = task
    BY <1>3, <1>5 DEF Identity!Restage, Identity!First
  <2>2. n \in EchNames /\ keys[n] \in {"published", "active"}
    BY <1>2, <1>3, <2>1 DEF Identity!Behind
  <2>3. KeysMove /\ \A d \in Identity!Names : Keeps(d)
    BY <2>1, <2>2, AdvanceMoves, KindsDiffer DEF IdentityInv
  <2>4. StoreSound' /\ Begun' = Begun /\ Identity!Head("ech")' = Identity!Head("ech")
    BY <1>0, <2>3, KeysMoveKeeps DEF IdentityInv
  <2>5. ContextIsHead'
    BY <1>0, <1>2, <2>1, <2>4 DEF ContextIsHead
  <2>6. IdentityTyped' /\ DownIsIdle'
    BY <1>0, <1>1, <2>1, <2>3 DEF IdentityInv, IdentityTyped, PubsTyped, DownIsIdle, Identity!Running, KeysMove
  <2>7. TaskSound'
    BY <1>0, <1>2, <2>1 DEF TaskSound, Chain
  <2>8. JobsSound'
    <3>1. \A d \in EchNames : keys[d] = "retired" => keys'[d] = "retired"
      BY <2>3, KindsDiffer DEF Keeps
    <3> QED
      BY <1>0, <2>1, <3>1 DEF IdentityInv, JobsSound, Waiting
  <2> QED
    BY <2>4, <2>5, <2>6, <2>7, <2>8 DEF IdentityInv
<1> QED
  BY <1>4, <1>5

LEMMA CrashKeeps == ASSUME IdentityInv, Identity!Crash PROVE IdentityInv'
<1>0. /\ ech' = Identity!NoEch /\ task' = Identity!Idle /\ jobs' = [j \in Jobs |-> Identity!NoJob]
      /\ UNCHANGED <<keys, pubs, identityNow>>
  BY DEF Identity!Crash, Identity!store
<1>1. \A k : Identity!Heads(k)' = Identity!Heads(k)
  BY <1>0 DEF Identity!Heads
<1>2. /\ Identity!Head("ech")' = Identity!Head("ech") /\ Identity!Head("zone")' = Identity!Head("zone")
      /\ JournalsInOrder' /\ Begun' = Begun
  BY <1>1, SameHeads DEF IdentityInv, StoreSound, JournalsInOrder, Begun
<1>3. Identity!Journal' = Identity!Journal
  BY <1>1, <1>2, JournalStays
<1>4. StoreSound'
  BY <1>0, <1>1, <1>2, <1>3 DEF IdentityInv, StoreSound, RootComesFirst, HeadsHold, AnswersBacked, Held, Lasts, Backed,
     Identity!Key
<1>5. IdentityTyped'
  BY <1>0, IdleIsTyped, NoJobTyped DEF IdentityInv, IdentityTyped, PubsTyped, Tasks
<1>6. ContextIsHead' /\ DownIsIdle'
  BY <1>0 DEF ContextIsHead, DownIsIdle, Identity!Running, NoJobs
<1>7. TaskSound'
  BY <1>0, IdleIsTyped DEF TaskSound, Chain
<1>8. JobsSound'
  BY <1>0 DEF JobsSound, Identity!NoJob, Identity!NoPlan
<1> QED
  BY <1>4, <1>5, <1>6, <1>7, <1>8 DEF IdentityInv

LEMMA InitializeKeeps == ASSUME IdentityInv, Identity!Initialize PROVE IdentityInv'
<1>1. PICK r : r = [kind |-> "root", seq |-> 1, body |-> {Identity!Root}, deps |-> {Identity!Root},
                    until |-> IdentityTime + 1]
  OBVIOUS
<1>2. /\ ~Identity!Running /\ keys[Identity!Root] = "absent" /\ keys' = [keys EXCEPT ![Identity!Root] = "active"]
      /\ pubs' = pubs \cup {r} /\ ech' = [names |-> {}, current |-> Identity!EchName(1)]
      /\ task' = [op |-> "generate", job |-> 0, todo |-> {Identity!EchName(1)}]
      /\ UNCHANGED <<jobs, identityNow>>
  BY <1>1 DEF Identity!Initialize, Identity!Commit, Identity!Life
<1>3. pubs = {} /\ pubs' = {r} /\ NoJobs
  BY <1>2 DEF IdentityInv, StoreSound, RootComesFirst, DownIsIdle
<1>4. Identity!EchName(1) \in EchNames
  BY IdentityAssumption DEF EchNames
<1>5. Publication(r)
  <2>1. 1 \in 0..(MaxSeq + 1) /\ IdentityTime + 1 \in 0..(IdentityTime + 1)
    BY IdentityAssumption
  <2> QED
    BY <1>1, <2>1, KindsDiffer DEF Publication, Horizons
<1>6. /\ keys' \in [Identity!Names -> Stages] /\ keys'[Identity!Root] = "active"
      /\ \A d \in Identity!Names : d # Identity!Root => keys'[d] = keys[d]
  BY <1>2, KindsDiffer DEF IdentityInv, IdentityTyped, Stages
<1>7. IdentityTyped'
  <2>1. ech' \in EchBodies
    BY <1>2, <1>4 DEF EchBodies
  <2>2. task' \in Tasks
    BY <1>2, <1>4, KindsDiffer DEF Tasks, Ops
  <2> QED
    BY <1>2, <1>3, <1>5, <1>6, <2>1, <2>2 DEF IdentityInv, IdentityTyped, PubsTyped, Publication, Tasks
<1>8. /\ Identity!Heads("ech")' = {} /\ Identity!Heads("zone")' = {} /\ Identity!Heads("dns")' = {}
      /\ Identity!Heads("root")' # {}
  BY <1>1, <1>3 DEF Identity!Heads
<1>9. StoreSound'
  <2>1. Identity!Journal'.current = {}
    BY <1>8 DEF Identity!Journal
  <2> QED
    BY <1>6, <1>8, <2>1 DEF StoreSound, JournalsInOrder, OneOfEach, RootComesFirst, HeadsHold, AnswersBacked, Begun
<1>10. ContextIsHead' /\ DownIsIdle'
  <2>1. Identity!Running'
    BY <1>2, <1>7, RunningIsTyped, <1>4 DEF EchBodies, IdentityTyped, Identity!Running, Identity!NoEch, Identity!EchName
  <2>2. ~Begun' /\ NoJobs'
    BY <1>2, <1>3, <1>8 DEF Begun, NoJobs
  <2> QED
    BY <1>2, <2>1, <2>2 DEF ContextIsHead, DownIsIdle
<1>11. TaskSound'
  BY <1>2, <1>4 DEF TaskSound, Chain
<1>12. JobsSound'
  BY <1>2, <1>3 DEF NoJobs, JobsSound, Identity!NoJob, Identity!NoPlan
<1> QED
  BY <1>7, <1>9, <1>10, <1>11, <1>12 DEF IdentityInv

LEMMA RecoverKeeps == ASSUME IdentityInv, Identity!Recover PROVE IdentityInv'
<1>0. /\ ~Identity!Running /\ Begun /\ UNCHANGED <<keys, pubs, jobs, identityNow>>
      /\ ech' = Identity!Head("ech").body
      /\ task' = [op |-> "stages", job |-> 0, todo |-> Identity!Head("ech").body.names]
      /\ keys[Identity!Root] # "absent"
  BY DEF Identity!Recover, Identity!Recoverable, Identity!store, Begun
<1>1. Identity!Head("ech").body \in EchBodies /\ NoJobs
  BY <1>0, EchHeadIsTyped DEF IdentityInv, IdentityTyped, DownIsIdle
<1>2. \A k : Identity!Heads(k)' = Identity!Heads(k)
  BY <1>0 DEF Identity!Heads
<1>3. /\ Identity!Head("ech")' = Identity!Head("ech") /\ Identity!Head("zone")' = Identity!Head("zone")
      /\ JournalsInOrder' /\ Begun' = Begun
  BY <1>2, SameHeads DEF IdentityInv, StoreSound, JournalsInOrder, Begun
<1>4. Identity!Journal' = Identity!Journal
  BY <1>2, <1>3, JournalStays
<1>5. StoreSound'
  BY <1>0, <1>2, <1>3, <1>4 DEF IdentityInv, StoreSound, RootComesFirst, HeadsHold, AnswersBacked, Held, Lasts, Backed,
     Identity!Key
<1>6. IdentityTyped'
  <2>1. task' \in Tasks
    BY <1>0, <1>1, KindsDiffer DEF Tasks, Ops, EchBodies
  <2> QED
    BY <1>0, <1>1, <2>1 DEF IdentityInv, IdentityTyped, PubsTyped, Tasks
<1>7. ContextIsHead'
  BY <1>0, <1>3 DEF ContextIsHead
<1>8. DownIsIdle'
  BY <1>0, <1>1, <1>6, RunningIsTyped, NamesApart DEF DownIsIdle, Identity!Running, EchBodies, Identity!NoEch
<1>9. TaskSound'
  BY <1>0 DEF TaskSound, Chain
<1>10. JobsSound'
  BY <1>0, <1>1 DEF NoJobs, JobsSound, Identity!NoJob, Identity!NoPlan
<1> QED
  BY <1>5, <1>6, <1>7, <1>8, <1>9, <1>10 DEF IdentityInv

\* A free process is idle; what starts or ends then moves no key.
LEMMA FreeStep ==
  ASSUME IdentityInv, Identity!Free, UNCHANGED <<keys, pubs, ech, identityNow>>,
         task' \in Tasks, task'.op \in {"none", "generate", "publish"},
         task'.op = "publish" => task'.job \in Jobs, task'.op = "generate" => task'.todo \subseteq EchNames,
         jobs' \in [Jobs -> Answers], \A j \in Jobs : jobs'[j] \in {jobs[j], Identity!NoJob}
  PROVE  IdentityInv'
<1>1. Identity!Running /\ task.op = "none" /\ task.todo = {}
  BY IdleIsTyped DEF Identity!Free
<1>2. KeysMove
  BY SameKeysMove DEF IdentityInv
<1>3. JobsSound'
  BY <1>1, JobsKept DEF Waiting
<1>4. TaskSound'
  BY DEF TaskSound, Chain
<1> QED
  BY <1>1, <1>2, <1>3, <1>4, KeysStep

LEMMA RotateKeeps == ASSUME IdentityInv, Identity!Rotate PROVE IdentityInv'
<1>1. PICK k \in 1..MaxEch : task' = [op |-> "generate", job |-> 0, todo |-> {Identity!EchName(k)}]
  BY DEF Identity!Rotate
<1>2. Identity!EchName(k) \in EchNames
  BY DEF EchNames
<1>3. task' \in Tasks /\ task'.op = "generate" /\ task'.todo \subseteq EchNames
  BY <1>1, <1>2, KindsDiffer DEF Tasks, Ops
<1>4. Identity!Free /\ UNCHANGED <<keys, pubs, ech, jobs, identityNow>>
  BY DEF Identity!Rotate, Identity!store
<1>5. jobs' \in [Jobs -> Answers]
  BY <1>4 DEF IdentityInv, IdentityTyped
<1> QED
  BY <1>3, <1>4, <1>5, FreeStep

LEMMA AbandonKeeps == ASSUME IdentityInv, NEW j \in Jobs, Identity!Abandon(j) PROVE IdentityInv'
<1>1. Identity!Free /\ UNCHANGED <<keys, pubs, ech, task, identityNow>> /\ jobs' = [jobs EXCEPT ![j] = Identity!NoJob]
  BY DEF Identity!Abandon, Identity!store
<1>2. jobs' \in [Jobs -> Answers] /\ \A i \in Jobs : jobs'[i] \in {jobs[i], Identity!NoJob}
  BY <1>1, NoJobTyped DEF IdentityInv, IdentityTyped
<1>3. task' \in Tasks /\ task'.op = "none"
  BY <1>1, IdleIsTyped DEF Identity!Free
<1> QED
  BY <1>1, <1>2, <1>3, FreeStep

LEMMA CheckedKeeps == ASSUME IdentityInv, NEW j \in Jobs, Identity!Checked(j) PROVE IdentityInv'
<1>1. Identity!Free /\ UNCHANGED <<keys, pubs, ech, jobs, identityNow>>
      /\ task' = [op |-> "publish", job |-> j, todo |-> {}]
  BY DEF Identity!Checked, Identity!store
<1>2. task' \in Tasks /\ task'.op = "publish" /\ task'.job \in Jobs
  BY <1>1 DEF Tasks, Ops, Chain
<1>3. jobs' \in [Jobs -> Answers]
  BY <1>1 DEF IdentityInv, IdentityTyped
<1> QED
  BY <1>1, <1>2, <1>3, FreeStep

LEMMA UpstreamKeeps == ASSUME IdentityInv, Identity!UpstreamRotates PROVE IdentityInv'
<1>1. Identity!Free /\ UNCHANGED <<keys, pubs, ech, jobs, task, identityNow>>
  BY DEF Identity!UpstreamRotates, Identity!store
<1>2. task' \in Tasks /\ task'.op = "none" /\ jobs' \in [Jobs -> Answers]
  BY <1>1, IdleIsTyped DEF IdentityInv, IdentityTyped, Identity!Free
<1> QED
  BY <1>1, <1>2, FreeStep

LEMMA GenerateKeeps == ASSUME IdentityInv, Identity!Generate PROVE IdentityInv'
<1>0. /\ task.op = "generate" /\ UNCHANGED <<jobs, identityNow>>
      /\ task.todo \subseteq EchNames /\ Identity!Running /\ ech \in EchBodies
  BY BusyRuns, RunningIsTyped DEF Identity!Generate, IdentityInv, IdentityTyped, TaskSound
<1>1. PICK n \in task.todo :
        \/ /\ keys[n] = "absent" /\ keys' = [keys EXCEPT ![n] = "prepared"]
           /\ UNCHANGED <<pubs, ech, task>>
        \/ /\ keys[n] = "prepared" /\ keys' = Identity!Advanced(keys, n)
           /\ UNCHANGED <<pubs, ech, task>>
        \/ /\ keys[n] = "published" /\ Identity!Seq("ech") < MaxSeq
           /\ LET body == [names |-> ech.names \cup {n}, current |-> n] IN
                /\ pubs' = Identity!Commit("ech", Identity!Seq("ech") + 1, body, body.names, identityNow + Identity!Handshake)
                /\ ech' = body
                /\ task' = [op |-> "stages", job |-> 0, todo |-> body.names]
           /\ keys' = keys
  BY DEF Identity!Generate
<1>2. n \in EchNames /\ n \in Identity!Names \ {Identity!Root}
  BY <1>0, KindsDiffer
<1>3. ASSUME keys[n] \in {"absent", "prepared"} PROVE IdentityInv'
  <2>1. KeysMove /\ (\A d \in Identity!Names : Keeps(d)) /\ UNCHANGED <<pubs, ech, task, jobs, identityNow>>
    BY <1>0, <1>1, <1>2, <1>3, AdvanceMoves, PrepareMoves DEF IdentityInv
  <2>2. /\ StoreSound' /\ Begun' = Begun /\ Identity!Head("ech")' = Identity!Head("ech")
        /\ \A d \in Identity!Names : Staged(d) /\ Begun /\ d \in Identity!Head("ech").body.names => Staged(d)'
    BY <2>1, KeysMoveKeeps DEF IdentityInv
  <2>3. IdentityTyped'
    BY <2>1 DEF IdentityInv, IdentityTyped, PubsTyped, KeysMove
  <2>4. ContextIsHead'
    <3>1. CASE Begun
      <4>1. ech = Identity!Head("ech").body /\ ech.names \subseteq Identity!Names /\ \A d \in ech.names : Staged(d)
        BY <1>0, <3>1, KindsDiffer DEF IdentityInv, ContextIsHead, EchBodies
      <4>2. \A d \in ech.names : Staged(d)'
        BY <2>2, <3>1, <4>1
      <4> QED
        BY <2>1, <2>2, <3>1, <4>1, <4>2 DEF ContextIsHead, Staged
    <3>2. CASE ~Begun
      BY <1>0, <2>1, <2>2, <3>2 DEF IdentityInv, ContextIsHead, NoJobs
    <3> QED
      BY <3>1, <3>2
  <2>5. DownIsIdle'
    BY <1>0, <2>1 DEF DownIsIdle, Identity!Running
  <2>6. TaskSound'
    BY <1>0, <2>1 DEF TaskSound, Chain
  <2>7. JobsSound'
    <3>1. \A d \in EchNames : keys[d] = "retired" => keys'[d] = "retired"
      BY <2>1, KindsDiffer DEF Keeps
    <3> QED
      BY <2>1, <3>1 DEF IdentityInv, JobsSound, Waiting
  <2> QED
    BY <2>2, <2>3, <2>4, <2>5, <2>6, <2>7 DEF IdentityInv
<1>4. ASSUME keys[n] = "published" PROVE IdentityInv'
  <2>1. PICK body : body = [names |-> ech.names \cup {n}, current |-> n]
    OBVIOUS
  <2>2. PICK r : r = [kind |-> "ech", seq |-> Identity!Seq("ech") + 1, body |-> body, deps |-> body.names,
                      until |-> identityNow + 1]
    OBVIOUS
  <2>3. /\ Identity!Seq("ech") < MaxSeq /\ pubs' = pubs \cup {r} /\ ech' = body /\ UNCHANGED keys
        /\ task' = [op |-> "stages", job |-> 0, todo |-> body.names]
    BY <1>1, <1>4, <2>1, <2>2 DEF Identity!Commit, Identity!Handshake
  <2>4. body \in EchBodies /\ body.current \in body.names /\ body.names \subseteq Identity!Names
    BY <1>0, <1>2, <2>1, KindsDiffer DEF EchBodies
  <2>5. Publication(r)
    <3>1. Identity!Seq("ech") + 1 \in 0..(MaxSeq + 1) /\ identityNow + 1 \in Horizons
      BY <2>3, SeqTyped, IdentityAssumption DEF IdentityInv, IdentityTyped, Horizons
    <3> QED
      BY <2>2, <2>4, <3>1 DEF Publication
  <2>6. Identity!Heads("ech")' = Identity!Heads("ech") \cup {r} /\ Identity!Head("ech")' = r /\ OneOfEach("ech")'
    BY <2>2, <2>3, CommitIsHead DEF IdentityInv, IdentityTyped, StoreSound, JournalsInOrder
  <2>7. \A k \in {"root", "zone", "dns"} : Identity!Heads(k)' = Identity!Heads(k)
    BY <2>2, <2>3, OtherHeads
  <2>8. Identity!Head("zone")' = Identity!Head("zone") /\ OneOfEach("zone")'
    BY <2>7, SameHeads DEF IdentityInv, StoreSound, JournalsInOrder
  <2>9. Identity!Journal' = Identity!Journal /\ Begun' /\ r.body = body
    BY <2>2, <2>6, <2>7, <2>8, JournalStays DEF Begun
  <2>10. StoreSound'
    <3>1. RootComesFirst'
      BY <1>0, <2>3, <2>7, <2>9 DEF IdentityInv, StoreSound, RootComesFirst, Identity!Running
    <3>2. \A d \in body.names : Held(d)'
      <4>1. \A d \in ech.names : Held(d)
        BY <1>0 DEF IdentityInv, StoreSound, HeadsHold, ContextIsHead
      <4> QED
        BY <1>4, <2>1, <2>3, <4>1 DEF Held
    <3>3. HeadsHold'
      BY <2>3, <2>6, <2>9, <3>2 DEF IdentityInv, StoreSound, HeadsHold, Identity!Key
    <3>4. AnswersBacked'
      <4>1. SUFFICES ASSUME NEW p \in Identity!Heads("dns"), Lasts(p), NEW d \in p.deps PROVE Backed(d)'
        BY <1>0, <2>7 DEF AnswersBacked, Lasts
      <4>2. Begun /\ Backed(d)
        BY <4>1 DEF IdentityInv, StoreSound, AnswersBacked, RootComesFirst
      <4>3. ech = Identity!Head("ech").body
        BY <1>0, <4>2 DEF IdentityInv, ContextIsHead
      <4> QED
        BY <2>1, <2>3, <2>6, <2>9, <4>2, <4>3 DEF Backed, Identity!Key
    <3> QED
      BY <2>6, <2>8, <3>1, <3>3, <3>4 DEF StoreSound, JournalsInOrder
  <2>11. IdentityTyped'
    <3>1. task' \in Tasks
      BY <2>3, <2>4 DEF Tasks, Ops
    <3> QED
      BY <1>0, <2>3, <2>4, <2>5, <3>1 DEF IdentityInv, IdentityTyped, PubsTyped, Publication, Tasks
  <2>12. ContextIsHead'
    BY <2>3, <2>6, <2>9 DEF ContextIsHead
  <2>13. DownIsIdle'
    BY <2>3, <2>4, NamesApart DEF DownIsIdle, Identity!Running, EchBodies, Identity!NoEch
  <2>14. TaskSound'
    BY <2>3 DEF TaskSound, Chain
  <2>15. JobsSound'
    <3>1. jobs' \in [Jobs -> Answers]
      BY <1>0 DEF IdentityInv, IdentityTyped
    <3>2. \A d \in EchNames : d \in ech.names \/ Waiting(d) => d \in ech'.names
      BY <1>0, <2>1, <2>3 DEF Waiting
    <3> QED
      BY <1>0, <2>3, <3>1, <3>2, JobsKept
  <2> QED
    BY <2>10, <2>11, <2>12, <2>13, <2>14, <2>15 DEF IdentityInv
<1> QED
  BY <1>1, <1>3, <1>4

LEMMA UnexpiredShrinks ==
  ASSUME IdentityInv, NEW t, pubs' = Identity!Unexpired(t), UNCHANGED <<keys, ech>>,
         identityNow' \in 0..IdentityTime, identityNow <= identityNow'
  PROVE  Shrunk
<1>1. pubs' \subseteq pubs /\ \A k \in {"root", "ech", "zone"} : Identity!Heads(k)' = Identity!Heads(k)
  BY DEF Identity!Unexpired, Identity!Heads
<1>2. \A k \in {"ech", "zone"} : OneOfEach(k)' /\ Identity!Head(k)' = Identity!Head(k)
  BY <1>1, SameHeads DEF IdentityInv, StoreSound, JournalsInOrder
<1> QED
  BY <1>1, <1>2 DEF Shrunk

LEMMA PrunedShrinks ==
  ASSUME IdentityInv, NEW kind \in {"ech", "zone"}, pubs' = Identity!Pruned(kind),
         UNCHANGED <<keys, ech, identityNow>>
  PROVE  Shrunk
<1>1. /\ pubs' \subseteq pubs /\ OneOfEach(kind)' /\ Identity!Head(kind)' = Identity!Head(kind)
      /\ Identity!Heads(kind) = {} <=> Identity!Heads(kind)' = {}
      /\ \A k : k # kind => Identity!Heads(k)' = Identity!Heads(k)
  BY PruneKeepsHead DEF IdentityInv, IdentityTyped, StoreSound, JournalsInOrder
<1>2. \A k \in {"ech", "zone"} : k # kind => OneOfEach(k)' /\ Identity!Head(k)' = Identity!Head(k)
  BY <1>1, SameHeads DEF IdentityInv, StoreSound, JournalsInOrder
<1>3. identityNow' \in 0..IdentityTime /\ identityNow <= identityNow'
  BY IdentityAssumption DEF IdentityInv, IdentityTyped
<1>4. Identity!Heads("root")' = Identity!Heads("root")
  BY <1>1
<1>5. \A k \in {"ech", "zone"} :
        /\ OneOfEach(k)' /\ Identity!Head(k)' = Identity!Head(k)
        /\ Identity!Heads(k) = {} <=> Identity!Heads(k)' = {}
  BY <1>1, <1>2
<1> QED
  BY <1>1, <1>3, <1>4, <1>5 DEF Shrunk

LEMMA ShrinkStep ==
  ASSUME IdentityInv, Identity!Running, task.op \notin {"stages", "generate"}, Shrunk,
         task' \in Tasks, task'.op # "stages", jobs' \in [Jobs -> Answers], JobsSound', TaskSound'
  PROVE  IdentityInv'
<1>1. /\ StoreSound' /\ PubsTyped' /\ Begun' = Begun /\ Identity!Head("ech")' = Identity!Head("ech")
      /\ \A n : Staged(n)' <=> Staged(n)
  BY ShrinkKeeps DEF IdentityInv
<1>2. Begun /\ ech = Identity!Head("ech").body /\ \A n \in ech.names : Staged(n)
  BY Installed
<1>3. UNCHANGED <<keys, ech>> /\ identityNow' \in 0..IdentityTime
  BY DEF Shrunk
<1>4. IdentityTyped'
  BY <1>1, <1>3 DEF IdentityInv, IdentityTyped, Tasks
<1>5. ContextIsHead'
  BY <1>1, <1>2, <1>3 DEF ContextIsHead
<1>6. DownIsIdle'
  BY <1>3 DEF DownIsIdle, Identity!Running
<1> QED
  BY <1>1, <1>4, <1>5, <1>6 DEF IdentityInv

LEMMA TickKeeps == ASSUME IdentityInv, Identity!Tick PROVE IdentityInv'
<1>0. /\ task = Identity!Idle /\ identityNow < IdentityTime /\ identityNow' = identityNow + 1
      /\ pubs' = Identity!Unexpired(identityNow + 1) /\ UNCHANGED <<keys, ech, jobs, task>>
  BY DEF Identity!Tick
<1>1. identityNow' \in 0..IdentityTime /\ identityNow <= identityNow'
  BY <1>0, IdentityAssumption DEF IdentityInv, IdentityTyped
<1>2. Shrunk
  BY <1>0, <1>1, UnexpiredShrinks
<1>3. /\ StoreSound' /\ PubsTyped' /\ Begun' = Begun /\ Identity!Head("ech")' = Identity!Head("ech")
      /\ \A n : Staged(n)' <=> Staged(n)
  BY <1>2, ShrinkKeeps DEF IdentityInv
<1>4. IdentityTyped'
  BY <1>0, <1>1, <1>3 DEF IdentityInv, IdentityTyped
<1>5. ContextIsHead' /\ DownIsIdle'
  BY <1>0, <1>3, IdleIsTyped DEF IdentityInv, ContextIsHead, DownIsIdle, Identity!Running, NoJobs
<1>6. TaskSound'
  BY <1>0, IdleIsTyped DEF TaskSound, Chain
<1>7. JobsSound'
  BY <1>0 DEF IdentityInv, JobsSound, Waiting
<1> QED
  BY <1>3, <1>4, <1>5, <1>6, <1>7 DEF IdentityInv

LEMMA TailKeeps == ASSUME IdentityInv, Identity!Tail PROVE IdentityInv'
<1>0. /\ task.op = "tail" /\ pubs' = Identity!Unexpired(identityNow) /\ UNCHANGED <<keys, ech, identityNow>>
      /\ task' = [op |-> "collect", job |-> 0, todo |-> {}]
      /\ jobs' = [jobs EXCEPT ![task.job] = Identity!NoJob]
  BY DEF Identity!Tail
<1>1. Shrunk
  <2>1. identityNow' \in 0..IdentityTime /\ identityNow <= identityNow'
    BY <1>0, IdentityAssumption DEF IdentityInv, IdentityTyped
  <2> QED
    BY <1>0, <2>1, UnexpiredShrinks
<1>2. jobs' \in [Jobs -> Answers] /\ \A j \in Jobs : jobs'[j] \in {jobs[j], Identity!NoJob}
  BY <1>0, NoJobTyped DEF IdentityInv, IdentityTyped
<1>3. task' \in Tasks
  BY <1>0 DEF Tasks, Ops
<1>4. JobsSound'
  BY <1>0, <1>2, JobsKept DEF Waiting
<1>5. TaskSound'
  BY <1>0 DEF TaskSound, Chain
<1>6. Identity!Running
  BY <1>0, BusyRuns
<1> QED
  BY <1>0, <1>1, <1>2, <1>3, <1>4, <1>5, <1>6, ShrinkStep

\* ECHLifecycle.collect: the new head keeps what a live answer depends on.
LEMMA CollectKeeps == ASSUME IdentityInv, Identity!TailCollect PROVE IdentityInv'
<1>0. task.op = "collect" /\ UNCHANGED <<keys, jobs, identityNow>> /\ Identity!Collect
  BY DEF Identity!TailCollect
<1>1. /\ Identity!Running /\ Begun /\ ech = Identity!Head("ech").body /\ ech \in EchBodies
      /\ ech.names \subseteq EchNames /\ ech.current \in ech.names /\ \A n \in ech.names : Staged(n)
  BY <1>0, BusyRuns, Installed
<1>2. PICK C : C = Identity!Collectable
  OBVIOUS
<1>3. C \subseteq ech.names /\ ech.current \notin C /\ \A n \in C : Unneeded(n)
  <2>1. \A n \in C : n \in ech.names /\ n # ech.current /\ Identity!Horizon(n) < identityNow
    BY <1>2 DEF Identity!Collectable
  <2>2. ASSUME NEW n \in C, NEW p \in pubs, n \in p.deps PROVE p.until < identityNow
    <3>1. /\ Identity!Horizon(n) \in Nat /\ p.until \in Nat /\ p.until <= Identity!Horizon(n)
          /\ identityNow \in Nat
      BY <2>2, HorizonBounds, IdentityAssumption DEF IdentityInv, IdentityTyped
    <3> QED
      BY <2>1, <3>1
  <2> QED
    BY <2>1, <2>2 DEF Unneeded
<1>4. CASE C = {} \/ Identity!Seq("ech") >= MaxSeq
  <2>1. task' = Identity!Idle /\ UNCHANGED <<pubs, ech>>
    BY <1>0, <1>2, <1>4 DEF Identity!Collect
  <2>2. KeysMove
    BY <1>0, SameKeysMove DEF IdentityInv
  <2>3. jobs' \in [Jobs -> Answers]
    BY <1>0 DEF IdentityInv, IdentityTyped
  <2>4. JobsSound'
    BY <1>0, <2>1, <2>3, JobsKept DEF Waiting
  <2>5. TaskSound'
    BY <2>1, IdleIsTyped DEF TaskSound, Chain
  <2> QED
    BY <1>0, <1>1, <2>1, <2>2, <2>3, <2>4, <2>5, IdleIsTyped, KeysStep
<1>5. CASE ~(C = {} \/ Identity!Seq("ech") >= MaxSeq)
  <2>1. PICK body : body = [names |-> ech.names \ C, current |-> ech.current]
    OBVIOUS
  <2>2. Identity!Kept(ech) = body
    BY <1>1, <1>2, <2>1 DEF Identity!Kept, EchBodies
  <2>3. PICK r : r = [kind |-> "ech", seq |-> Identity!Seq("ech") + 1, body |-> body, deps |-> body.names,
                      until |-> identityNow + 1]
    OBVIOUS
  <2>4. /\ pubs' = pubs \cup {r} /\ ech' = body /\ task' = [op |-> "retire", job |-> 0, todo |-> C]
    BY <1>0, <1>2, <1>5, <2>2, <2>3 DEF Identity!Collect, Identity!Commit, Identity!Handshake
  <2>5. body \in EchBodies /\ body.current \in body.names /\ body.names \subseteq Identity!Names
    BY <1>1, <1>3, <2>1, KindsDiffer DEF EchBodies
  <2>6. Publication(r)
    <3>1. Identity!Seq("ech") + 1 \in 0..(MaxSeq + 1) /\ identityNow + 1 \in Horizons
      BY <1>5, SeqTyped, IdentityAssumption DEF IdentityInv, IdentityTyped, Horizons
    <3> QED
      BY <2>3, <2>5, <3>1 DEF Publication
  <2>7. Identity!Heads("ech")' = Identity!Heads("ech") \cup {r} /\ Identity!Head("ech")' = r /\ OneOfEach("ech")'
    BY <2>3, <2>4, CommitIsHead DEF IdentityInv, IdentityTyped, StoreSound, JournalsInOrder
  <2>8. \A k \in {"root", "zone", "dns"} : Identity!Heads(k)' = Identity!Heads(k)
    BY <2>3, <2>4, OtherHeads
  <2>9. Identity!Head("zone")' = Identity!Head("zone") /\ OneOfEach("zone")'
    BY <2>8, SameHeads DEF IdentityInv, StoreSound, JournalsInOrder
  <2>10. Identity!Journal' = Identity!Journal /\ Begun' /\ r.body = body
    BY <2>3, <2>7, <2>8, <2>9, JournalStays DEF Begun
  <2>11. StoreSound'
    <3>1. RootComesFirst'
      BY <1>0, <1>1, <2>4, <2>8, <2>10 DEF IdentityInv, StoreSound, RootComesFirst, Identity!Running
    <3>2. HeadsHold'
      <4>1. \A d \in body.names : Held(d)
        BY <1>1, <2>1 DEF IdentityInv, StoreSound, HeadsHold
      <4> QED
        BY <1>0, <2>7, <2>10, <4>1 DEF IdentityInv, StoreSound, HeadsHold, Identity!Key, Held
    <3>3. AnswersBacked'
      <4>1. SUFFICES ASSUME NEW p \in Identity!Heads("dns"), Lasts(p), NEW d \in p.deps PROVE Backed(d)'
        BY <1>0, <2>8 DEF AnswersBacked, Lasts
      <4>2. Backed(d)
        BY <4>1 DEF IdentityInv, StoreSound, AnswersBacked
      <4>3. d \notin C
        <5>1. p \in pubs /\ p.until \in Int /\ identityNow \in Int /\ identityNow <= p.until
          BY <4>1, IdentityAssumption
             DEF Lasts, Identity!Heads, IdentityInv, IdentityTyped, PubsTyped, Publication, Horizons
        <5> QED
          BY <1>3, <4>1, <5>1 DEF Unneeded
      <4> QED
        BY <1>0, <1>1, <2>1, <2>7, <2>10, <4>2, <4>3 DEF Backed, Identity!Key
    <3> QED
      BY <2>7, <2>9, <3>1, <3>2, <3>3 DEF StoreSound, JournalsInOrder
  <2>12. IdentityTyped'
    <3>1. task' \in Tasks
      BY <1>1, <1>3, <2>4, KindsDiffer DEF Tasks, Ops
    <3> QED
      BY <1>0, <2>4, <2>5, <2>6, <3>1 DEF IdentityInv, IdentityTyped, PubsTyped, Publication, Tasks
  <2>13. ContextIsHead'
    BY <1>0, <1>1, <2>1, <2>4, <2>7, <2>10 DEF ContextIsHead, Staged
  <2>14. DownIsIdle'
    BY <2>4, <2>5, NamesApart DEF DownIsIdle, Identity!Running, EchBodies, Identity!NoEch
  <2>15. TaskSound'
    <3>1. ASSUME NEW n \in C PROVE Dropped(n)'
      <4>1. n \in EchNames \ ech'.names /\ Staged(n)'
        BY <1>0, <1>1, <1>3, <2>1, <2>4 DEF Staged
      <4>2. Unneeded(n)'
        BY <1>0, <1>3, <2>1, <2>3, <2>4 DEF Unneeded
      <4> QED
        BY <4>1, <4>2 DEF Dropped
    <3> QED
      BY <2>4, <3>1 DEF TaskSound, Chain
  <2>16. JobsSound'
    <3>1. jobs' \in [Jobs -> Answers]
      BY <1>0 DEF IdentityInv, IdentityTyped
    <3>2. \A d \in EchNames : d \in ech.names \/ Waiting(d) => d \in ech'.names \/ Waiting(d)'
      BY <1>0, <2>1, <2>4 DEF Waiting
    <3> QED
      BY <1>0, <3>1, <3>2, JobsKept
  <2> QED
    BY <2>11, <2>12, <2>13, <2>14, <2>15, <2>16 DEF IdentityInv
<1> QED
  BY <1>4, <1>5

\* IdentityStore.retire: each key that was dropped can be removed.
LEMMA RetireKeeps == ASSUME IdentityInv, Identity!Retire PROVE IdentityInv'
<1>0. /\ task.op = "retire" /\ UNCHANGED <<ech, jobs, identityNow>> /\ Identity!Running /\ jobs' \in [Jobs -> Answers]
      /\ task.todo \subseteq Identity!Names
  BY BusyRuns DEF Identity!Retire, IdentityInv, IdentityTyped
<1>1. Begun /\ ech = Identity!Head("ech").body
  BY <1>0, Installed
<1>2. CASE task.todo = {}
  <2>1. task' = Identity!Idle /\ pubs' = Identity!Pruned("ech") /\ UNCHANGED keys
    BY <1>2 DEF Identity!Retire
  <2>2. Shrunk
    BY <1>0, <2>1, PrunedShrinks
  <2>3. JobsSound'
    BY <1>0, <1>2, <2>1, JobsKept DEF Waiting
  <2>4. TaskSound'
    BY <2>1, IdleIsTyped DEF TaskSound, Chain
  <2> QED
    BY <1>0, <2>1, <2>2, <2>3, <2>4, IdleIsTyped, ShrinkStep
<1>3. CASE task.todo # {}
  <2>1. PICK n \in task.todo :
          /\ pubs' = pubs
          /\ \/ /\ keys[n] = "active" /\ keys' = Identity!Advanced(keys, n) /\ task' = task
             \/ /\ Identity!Retirable(n) /\ keys' = [keys EXCEPT ![n] = "retired"]
                /\ task' = [task EXCEPT !.todo = @ \ {n}]
             \/ /\ keys[n] # "active" /\ ~Identity!Retirable(n)
                /\ task' = Identity!Idle /\ keys' = keys
    BY <1>3 DEF Identity!Retire, Identity!First
  <2>2. Dropped(n) /\ n \in EchNames
    BY <1>0, <2>1 DEF IdentityInv, TaskSound, Dropped
  <2>3. n \in Identity!Names \ {Identity!Root} /\ n \notin Identity!Journal.current
    <3>1. Identity!Journal.current \subseteq MappedNames
      BY JournalIsTyped DEF IdentityInv, IdentityTyped, ZoneBodies
    <3> QED
      BY <2>2, <3>1, KindsDiffer
  <2>4. keys[n] # "active" => Identity!Retirable(n)
    BY <2>2 DEF Dropped, Staged, Unneeded, Identity!Retirable
  <2>5. CASE keys[n] = "active"
    <3>1. keys' = Identity!Advanced(keys, n) /\ task' = task
      BY <2>1, <2>5 DEF Identity!Retirable
    <3>2. KeysMove /\ \A d \in Identity!Names : Keeps(d)
      BY <2>3, <2>5, <3>1, AdvanceMoves DEF IdentityInv
    <3>3. TaskSound'
      <4>1. \A d \in task.todo : Dropped(d)'
        BY <1>0, <2>1, <3>2 DEF IdentityInv, TaskSound, Dropped, Keeps, Unneeded
      <4> QED
        BY <1>0, <3>1, <4>1 DEF TaskSound, Chain
    <3>4. JobsSound'
      <4>1. \A d \in EchNames : keys[d] = "retired" => keys'[d] = "retired"
        BY <3>2, KindsDiffer DEF Keeps
      <4> QED
        BY <1>0, <3>1, <4>1, JobsKept DEF Waiting
    <3>5. task' \in Tasks /\ task'.op = "retire"
      BY <1>0, <3>1 DEF IdentityInv, IdentityTyped, Tasks
    <3> QED
      BY <1>0, <2>1, <3>2, <3>3, <3>4, <3>5, KeysStep
  <2>6. CASE keys[n] # "active"
    <3>1. keys' = [keys EXCEPT ![n] = "retired"] /\ task' = [task EXCEPT !.todo = @ \ {n}]
      BY <2>1, <2>4, <2>6
    <3>2. KeysMove
      BY <1>1, <2>2, <2>3, <3>1, RetireMoves DEF IdentityInv, Dropped
    <3>3. task' \in Tasks /\ task'.op = "retire" /\ task'.todo = task.todo \ {n}
      BY <1>0, <3>1 DEF IdentityInv, IdentityTyped, Tasks
    <3>4. \A d \in Identity!Names : keys'[d] = IF d = n THEN "retired" ELSE keys[d]
      BY <3>1 DEF IdentityInv, IdentityTyped
    <3>5. TaskSound'
      <4>1. \A d \in task.todo \ {n} : Dropped(d)'
        BY <1>0, <2>1, <3>4 DEF IdentityInv, TaskSound, Dropped, Staged, Unneeded
      <4> QED
        BY <3>3, <4>1 DEF TaskSound, Chain
    <3>6. JobsSound'
      <4>1. \A d \in EchNames : d = n \/ keys[d] = "retired" => keys'[d] = "retired"
        BY <3>4, KindsDiffer
      <4>2. \A d \in EchNames : d \in ech.names \/ Waiting(d) => d \in ech'.names \/ keys'[d] = "retired" \/ Waiting(d)'
        BY <1>0, <3>3, <4>1 DEF Waiting
      <4> QED
        BY <1>0, <4>1, <4>2, JobsKept
    <3> QED
      BY <1>0, <2>1, <3>2, <3>3, <3>5, <3>6, KeysStep
  <2> QED
    BY <2>5, <2>6
<1> QED
  BY <1>2, <1>3

\* DNSSECLifecycle.collect: what the journal lets go is needed by nothing.
LEMMA HealthKeeps == ASSUME IdentityInv, Identity!HealthCollect PROVE IdentityInv'
<1>0. /\ Identity!Free /\ UNCHANGED <<pubs, ech, jobs, identityNow>>
      /\ keys' = [n \in Identity!Names |-> IF n \in Identity!Ended THEN "retired" ELSE keys[n]]
      /\ task' = [op |-> "collect", job |-> 0, todo |-> {}]
  BY DEF Identity!HealthCollect
<1>1. Identity!Running /\ task.op = "none" /\ task.todo = {} /\ jobs' \in [Jobs -> Answers]
  BY <1>0, IdleIsTyped DEF Identity!Free, IdentityInv, IdentityTyped
<1>2. ASSUME NEW n \in Identity!Ended PROVE n \in MappedNames /\ Unneeded(n) /\ n \notin Identity!Journal.current
  <2>1. Identity!Horizon(n) < identityNow /\ n \notin Identity!Journal.current
    BY DEF Identity!Ended
  <2>2. n \in MappedNames
    BY JournalIsTyped DEF Identity!Ended, IdentityInv, IdentityTyped, ZoneBodies, Leavers
  <2>3. ASSUME NEW p \in pubs, n \in p.deps PROVE p.until < identityNow
    <3>1. /\ Identity!Horizon(n) \in Nat /\ p.until \in Nat /\ p.until <= Identity!Horizon(n)
          /\ identityNow \in Nat
      BY <2>3, HorizonBounds, IdentityAssumption DEF IdentityInv, IdentityTyped
    <3> QED
      BY <2>1, <3>1
  <2> QED
    BY <2>1, <2>2, <2>3 DEF Unneeded
<1>3. Begun => Identity!Head("ech").body.names \subseteq EchNames
  BY EchHeadIsTyped DEF IdentityInv, IdentityTyped, EchBodies
<1>4. KeysMove
  <2>1. keys' \in [Identity!Names -> Stages]
    BY <1>0 DEF IdentityInv, IdentityTyped, Stages
  <2>2. ASSUME NEW n \in Identity!Names PROVE Keeps(n) \/ Removed(n)
    <3>1. CASE n \in Identity!Ended
      BY <1>0, <1>2, <1>3, <3>1, KindsDiffer DEF Removed
    <3>2. CASE n \notin Identity!Ended
      BY <1>0, <3>2 DEF Keeps, Identity!Key, Held, Staged
    <3> QED
      BY <3>1, <3>2
  <2>3. keys'[Identity!Root] = keys[Identity!Root]
    BY <1>0, <1>2, KindsDiffer
  <2> QED
    BY <2>1, <2>2, <2>3 DEF KeysMove
<1>5. task' \in Tasks /\ TaskSound'
  BY <1>0 DEF Tasks, Ops, TaskSound, Chain
<1>6. JobsSound'
  <2>1. \A d \in EchNames : keys[d] = "retired" => keys'[d] = "retired"
    BY <1>0, KindsDiffer
  <2> QED
    BY <1>0, <1>1, <2>1, JobsKept DEF Waiting
<1> QED
  BY <1>0, <1>1, <1>4, <1>5, <1>6, KeysStep

\* What the task works on while an answer is published.
LEMMA JobInHand ==
  ASSUME IdentityInv, task.op \in Chain
  PROVE  /\ Identity!Running /\ Begun /\ ech = Identity!Head("ech").body /\ task.job \in Jobs
         /\ Identity!Job \in Answers /\ Identity!Job = jobs[task.job]
<1>1. Identity!Running /\ task.job \in Jobs
  BY BusyRuns DEF Chain, IdentityInv, TaskSound
<1>2. Begun /\ ech = Identity!Head("ech").body
  BY <1>1, Installed DEF Chain
<1> QED
  BY <1>1, <1>2 DEF IdentityInv, IdentityTyped, Identity!Job

\* An answer that is denied leaves nothing.
LEMMA DeniedKeeps ==
  ASSUME IdentityInv, task.op \in Chain, Identity!Denied, UNCHANGED <<keys, pubs, ech, identityNow>>
  PROVE  IdentityInv'
<1>1. task' = Identity!Idle /\ jobs' = [jobs EXCEPT ![task.job] = Identity!NoJob]
  BY DEF Identity!Denied
<1>2. jobs' \in [Jobs -> Answers] /\ \A j \in Jobs : jobs'[j] \in {jobs[j], Identity!NoJob}
  BY <1>1, NoJobTyped DEF IdentityInv, IdentityTyped
<1>3. JobsSound'
  BY <1>1, <1>2, JobsKept DEF Waiting, Chain
<1>4. TaskSound'
  BY <1>1, IdleIsTyped DEF TaskSound, Chain
<1>5. KeysMove
  BY SameKeysMove DEF IdentityInv
<1> QED
  BY <1>1, <1>2, <1>3, <1>4, <1>5, JobInHand, IdleIsTyped, KeysStep DEF Chain

\* A stage of a key moves on, and the task stays or goes on.
LEMMA ChainStep ==
  ASSUME IdentityInv, task.op \in Chain, KeysMove, \A d \in EchNames : keys[d] = "retired" => keys'[d] = "retired",
         UNCHANGED <<pubs, ech, jobs, identityNow>>,
         task' \in Tasks, task'.op \in Chain, task'.job = task.job,
         task'.op = "overlap" => task.op = "overlap" /\ task'.todo \subseteq task.todo
  PROVE  IdentityInv'
<1>1. Identity!Running /\ task.job \in Jobs
  BY JobInHand
<1>2. jobs' \in [Jobs -> Answers]
  BY DEF IdentityInv, IdentityTyped
<1>3. JobsSound'
  BY <1>2, JobsKept DEF Waiting, Chain
<1>4. Identity!Heads("zone")' = Identity!Heads("zone") /\ Identity!Journal' = Identity!Journal
  BY KeysMoveKeeps DEF IdentityInv
<1>5. TaskSound'
  BY <1>1, <1>4 DEF TaskSound, IdentityInv, Chain
<1> QED
  BY <1>1, <1>2, <1>3, <1>5, KeysStep DEF Chain

LEMMA StageStep ==
  ASSUME IdentityInv, task.op \in Chain, NEW n \in Identity!Names \ {Identity!Root},
         keys[n] \in {"prepared", "published", "active"}, keys' = Identity!Advanced(keys, n),
         UNCHANGED <<pubs, ech, jobs, task, identityNow>>
  PROVE  IdentityInv'
<1>1. KeysMove /\ \A d \in Identity!Names : Keeps(d)
  BY AdvanceMoves DEF IdentityInv
<1>2. \A d \in EchNames : keys[d] = "retired" => keys'[d] = "retired"
  BY <1>1, KindsDiffer DEF Keeps
<1>3. task' \in Tasks
  BY DEF IdentityInv, IdentityTyped, Tasks
<1> QED
  BY <1>1, <1>2, <1>3, ChainStep

LEMMA PublishKeeps == ASSUME IdentityInv, Identity!Publish PROVE IdentityInv'
<1>0. task.op = "publish" /\ task.op \in Chain /\ UNCHANGED <<ech, identityNow>>
  BY DEF Identity!Publish, Chain
<1>1. /\ Identity!Running /\ Begun /\ ech = Identity!Head("ech").body /\ task.job \in Jobs
      /\ Identity!Job \in Answers /\ Identity!Job = jobs[task.job]
  BY <1>0, JobInHand
<1>2. Identity!Job.deps \subseteq Identity!Names /\ Identity!Job.until \in Horizons
  BY <1>1 DEF Answers
<1>3. ASSUME NEW n \in Identity!Job.deps, keys[n] = "prepared", keys' = Identity!Advanced(keys, n),
             UNCHANGED <<pubs, task, jobs>>
      PROVE  IdentityInv'
  <2>1. n \in Identity!Names \ {Identity!Root}
    BY <1>2, <1>3 DEF IdentityInv, StoreSound, RootComesFirst
  <2> QED
    BY <1>0, <1>3, <2>1, StageStep
<1>4. ASSUME \A n \in Identity!Job.deps : keys[n] # "prepared" /\ Identity!Key(n),
             pubs' = Identity!Commit("dns", 0, {}, Identity!Job.deps, Identity!Job.until),
             task' = [task EXCEPT !.op = "activate"], UNCHANGED <<keys, jobs>>
      PROVE  IdentityInv'
  <2>1. PICK r : r = [kind |-> "dns", seq |-> 0, body |-> {}, deps |-> Identity!Job.deps, until |-> Identity!Job.until]
    OBVIOUS
  <2>2. pubs' = pubs \cup {r}
    BY <1>4, <2>1 DEF Identity!Commit
  <2>3. Publication(r)
    BY <1>2, <2>1, IdentityAssumption DEF Publication
  <2>4. /\ \A k \in {"root", "ech", "zone"} : Identity!Heads(k)' = Identity!Heads(k)
        /\ Identity!Heads("dns")' = Identity!Heads("dns") \cup {r}
    BY <2>1, <2>2 DEF Identity!Heads
  <2>5. /\ Identity!Head("ech")' = Identity!Head("ech") /\ Identity!Head("zone")' = Identity!Head("zone")
        /\ JournalsInOrder' /\ Begun' = Begun
    BY <2>4, SameHeads DEF IdentityInv, StoreSound, JournalsInOrder, Begun
  <2>6. Identity!Journal' = Identity!Journal
    BY <2>4, <2>5, JournalStays
  <2>7. task' \in Tasks /\ task'.op = "activate" /\ task'.job = task.job
    BY <1>4 DEF IdentityInv, IdentityTyped, Tasks, Ops, Chain
  <2>8. \A d \in r.deps : Backed(d)
    <3>1. \A d \in r.deps : Identity!Key(d)
      BY <1>4, <2>1
    <3>2. \A d \in r.deps : d \in EchNames => d \in ech.names
      BY <1>0, <1>1, <2>1, <3>1 DEF IdentityInv, JobsSound, Waiting, Identity!Key
    <3> QED
      BY <1>1, <3>1, <3>2 DEF Backed
  <2>9. AnswersBacked'
    <3>1. ASSUME NEW p \in Identity!Heads("dns") \cup {r}, Lasts(p), NEW d \in p.deps PROVE Backed(d)
      BY <2>8, <3>1 DEF IdentityInv, StoreSound, AnswersBacked
    <3> QED
      BY <1>0, <1>4, <2>4, <2>5, <3>1 DEF AnswersBacked, Lasts, Backed, Identity!Key
  <2>10. RootComesFirst' /\ HeadsHold'
    BY <1>0, <1>1, <1>4, <2>4, <2>5, <2>6
       DEF IdentityInv, StoreSound, RootComesFirst, HeadsHold, Held, Identity!Key, Identity!Running
  <2>11. IdentityTyped'
    BY <1>0, <1>4, <2>2, <2>3, <2>7 DEF IdentityInv, IdentityTyped, PubsTyped, Publication, Tasks
  <2>12. ContextIsHead' /\ DownIsIdle'
    BY <1>0, <1>1, <1>4, <2>5, <2>7 DEF IdentityInv, ContextIsHead, DownIsIdle, Identity!Running, Staged
  <2>13. TaskSound'
    BY <1>1, <2>7 DEF TaskSound, Chain
  <2>14. JobsSound'
    BY <1>0, <1>4, <2>7 DEF IdentityInv, JobsSound, Waiting
  <2> QED
    BY <2>5, <2>9, <2>10, <2>11, <2>12, <2>13, <2>14 DEF IdentityInv, StoreSound
<1>5. ASSUME Identity!Denied, UNCHANGED <<keys, pubs>> PROVE IdentityInv'
  BY <1>0, <1>5, DeniedKeeps
<1> QED
  BY <1>3, <1>4, <1>5 DEF Identity!Publish

LEMMA ActivateKeeps == ASSUME IdentityInv, Identity!Activate PROVE IdentityInv'
<1>0. task.op = "activate" /\ task.op \in Chain /\ UNCHANGED <<pubs, ech, jobs, identityNow>>
  BY DEF Identity!Activate, Chain
<1>1. Identity!Job.deps \subseteq Identity!Names
  BY <1>0, JobInHand DEF Answers
<1>2. PICK behind : behind = {n \in Identity!Job.deps : keys[n] = "published"}
  OBVIOUS
<1>3. CASE behind = {}
  <2>1. task' = [task EXCEPT !.op = "journal"] /\ UNCHANGED keys
    BY <1>2, <1>3 DEF Identity!Activate
  <2>2. task' \in Tasks /\ task'.op = "journal" /\ task'.job = task.job
    BY <2>1 DEF IdentityInv, IdentityTyped, Tasks, Ops, Chain
  <2>3. KeysMove
    BY <2>1, SameKeysMove DEF IdentityInv
  <2> QED
    BY <1>0, <2>1, <2>2, <2>3, ChainStep DEF Chain
<1>4. CASE behind # {}
  <2>1. PICK n \in behind : keys' = Identity!Advanced(keys, n) /\ task' = task
    BY <1>2, <1>4 DEF Identity!Activate, Identity!First
  <2>2. n \in Identity!Names \ {Identity!Root} /\ keys[n] = "published"
    BY <1>1, <1>2, <2>1 DEF IdentityInv, StoreSound, RootComesFirst
  <2> QED
    BY <1>0, <2>1, <2>2, StageStep
<1> QED
  BY <1>3, <1>4

LEMMA JournalKeeps == ASSUME IdentityInv, Identity!JournalCommit PROVE IdentityInv'
<1>0. task.op = "journal" /\ task.op \in Chain /\ UNCHANGED <<keys, ech, identityNow>>
  BY DEF Identity!JournalCommit, Chain
<1>1. /\ Identity!Running /\ Begun /\ ech = Identity!Head("ech").body /\ task.job \in Jobs
      /\ Identity!Job \in Answers /\ Identity!Job = jobs[task.job]
  BY <1>0, JobInHand
<1>2. PICK p : p = Identity!Job.plan
  OBVIOUS
<1>3. p \in Plans
  BY <1>1, <1>2 DEF Answers
<1>4. \/ task' = [task EXCEPT !.op = "tail"] /\ UNCHANGED <<pubs, jobs>>
      \/ Identity!Denied /\ pubs' = pubs
      \/ /\ Identity!Seq("zone") = p.previous /\ Identity!Committable(p.current \cup p.overlap)
         /\ ~(Identity!Seq("zone") >= MaxSeq)
         /\ pubs' = Identity!Commit("zone", p.previous + 1,
              [current |-> p.current, retiring |-> p.retiring \ Identity!Outlived(p), clock |-> p.now],
              p.current \cup p.overlap, p.now + 1)
         /\ task' = [task EXCEPT !.op = "overlap", !.todo = {e.name : e \in p.retiring}]
         /\ jobs' = jobs
  BY <1>2 DEF Identity!JournalCommit
<1>5. ASSUME task' = [task EXCEPT !.op = "tail"], UNCHANGED <<pubs, jobs>> PROVE IdentityInv'
  <2>1. task' \in Tasks /\ task'.op = "tail" /\ task'.job = task.job
    BY <1>5 DEF IdentityInv, IdentityTyped, Tasks, Ops, Chain
  <2>2. KeysMove
    BY <1>0, SameKeysMove DEF IdentityInv
  <2> QED
    BY <1>0, <1>5, <2>1, <2>2, ChainStep DEF Chain
<1>6. ASSUME Identity!Denied, pubs' = pubs PROVE IdentityInv'
  BY <1>0, <1>6, DeniedKeeps
<1>7. ASSUME Identity!Seq("zone") = p.previous, Identity!Committable(p.current \cup p.overlap),
             ~(Identity!Seq("zone") >= MaxSeq),
             pubs' = Identity!Commit("zone", p.previous + 1,
              [current |-> p.current, retiring |-> p.retiring \ Identity!Outlived(p), clock |-> p.now],
              p.current \cup p.overlap, p.now + 1),
             task' = [task EXCEPT !.op = "overlap", !.todo = {e.name : e \in p.retiring}], jobs' = jobs
      PROVE  IdentityInv'
  <2>1. PICK body : body = [current |-> p.current, retiring |-> p.retiring \ Identity!Outlived(p), clock |-> p.now]
    OBVIOUS
  <2>2. PICK r : r = [kind |-> "zone", seq |-> Identity!Seq("zone") + 1, body |-> body,
                      deps |-> p.current \cup p.overlap, until |-> p.now + 1]
    OBVIOUS
  <2>3. pubs' = pubs \cup {r}
    BY <1>7, <2>1, <2>2 DEF Identity!Commit
  <2>4. body \in ZoneBodies /\ r.body = body /\ body.current = p.current
    BY <1>3, <2>1, <2>2, IdentityAssumption DEF ZoneBodies, Plans
  <2>5. Publication(r)
    <3>1. Identity!Seq("zone") + 1 \in 0..(MaxSeq + 1) /\ p.now + 1 \in Horizons
      BY <1>3, <1>7, SeqTyped, IdentityAssumption DEF IdentityInv, IdentityTyped, Horizons, Plans
    <3>2. r.deps \subseteq Identity!Names
      BY <1>3, <2>2, KindsDiffer DEF Plans
    <3> QED
      BY <2>2, <2>4, <3>1, <3>2 DEF Publication
  <2>6. Identity!Heads("zone")' = Identity!Heads("zone") \cup {r} /\ Identity!Head("zone")' = r /\ OneOfEach("zone")'
    BY <2>2, <2>3, CommitIsHead DEF IdentityInv, IdentityTyped, StoreSound, JournalsInOrder
  <2>7. \A k \in {"root", "ech", "dns"} : Identity!Heads(k)' = Identity!Heads(k)
    BY <2>2, <2>3, OtherHeads
  <2>8. Identity!Head("ech")' = Identity!Head("ech") /\ OneOfEach("ech")' /\ Begun' = Begun
    BY <2>7, SameHeads DEF IdentityInv, StoreSound, JournalsInOrder, Begun
  <2>9. Identity!Journal' = body
    BY <2>4, <2>6 DEF Identity!Journal
  <2>10. StoreSound'
    <3>1. RootComesFirst'
      BY <1>0, <1>1, <2>7, <2>8 DEF IdentityInv, StoreSound, RootComesFirst, Identity!Running
    <3>2. \A n \in p.current : Identity!Key(n)
      BY <1>7 DEF Identity!Committable, Identity!Key
    <3>3. HeadsHold'
      BY <1>0, <2>4, <2>8, <2>9, <3>2 DEF IdentityInv, StoreSound, HeadsHold, Held, Identity!Key
    <3>4. AnswersBacked'
      BY <1>0, <2>7, <2>8 DEF IdentityInv, StoreSound, AnswersBacked, Lasts, Backed, Identity!Key
    <3> QED
      BY <2>6, <2>8, <3>1, <3>3, <3>4 DEF StoreSound, JournalsInOrder
  <2>11. PICK todo_ : todo_ = {e.name : e \in p.retiring}
    OBVIOUS
  <2>12. task' = [op |-> "overlap", job |-> task.job, todo |-> todo_] /\ todo_ \subseteq MappedNames
    <3>1. task = [op |-> task.op, job |-> task.job, todo |-> task.todo]
      BY DEF IdentityInv, IdentityTyped
    <3>2. task' = [op |-> "overlap", job |-> task.job, todo |-> todo_]
      BY <1>7, <2>11, <3>1
    <3> QED
      BY <1>3, <2>11, <3>2 DEF Plans, Leavers
  <2>13. task' \in Tasks
    BY <1>1, <2>12, KindsDiffer DEF Tasks, Ops, Chain
  <2>14. IdentityTyped'
    BY <1>0, <1>7, <2>3, <2>5, <2>13 DEF IdentityInv, IdentityTyped, PubsTyped, Publication, Tasks
  <2>15. ContextIsHead' /\ DownIsIdle'
    BY <1>0, <1>1, <1>7, <2>8, <2>12 DEF IdentityInv, ContextIsHead, DownIsIdle, Identity!Running, Staged
  <2>16. TaskSound'
    <3>1. task'.op = "overlap" /\ task'.job = task.job /\ task'.todo \subseteq MappedNames
      BY <2>12
    <3>2. Identity!Heads("zone")' # {} /\ Identity!Journal.current' = p.current
      BY <2>4, <2>6, <2>9
    <3>3. jobs'[task'.job].plan.current = p.current
      BY <1>1, <1>2, <1>7, <3>1
    <3> QED
      BY <1>1, <3>1, <3>2, <3>3 DEF TaskSound
  <2>17. JobsSound'
    BY <1>0, <1>7, <2>12 DEF IdentityInv, JobsSound, Waiting
  <2> QED
    BY <2>10, <2>14, <2>15, <2>16, <2>17 DEF IdentityInv
<1> QED
  BY <1>4, <1>5, <1>6, <1>7

LEMMA OverlapKeeps == ASSUME IdentityInv, Identity!Overlap PROVE IdentityInv'
<1>0. task.op = "overlap" /\ task.op \in Chain /\ UNCHANGED <<ech, identityNow>>
  BY DEF Identity!Overlap, Chain
<1>1. /\ Identity!Running /\ Begun /\ ech = Identity!Head("ech").body /\ ech \in EchBodies /\ task.job \in Jobs
      /\ Identity!Job \in Answers /\ Identity!Job = jobs[task.job]
  BY <1>0, JobInHand, RunningIsTyped DEF IdentityInv, IdentityTyped
<1>2. task.todo \subseteq MappedNames /\ Identity!Journal.current = Identity!Job.plan.current
  BY <1>0, <1>1 DEF IdentityInv, TaskSound
<1>3. CASE task.todo = {}
  <2>1. pubs' = Identity!Pruned("zone") /\ task' = [task EXCEPT !.op = "tail"] /\ UNCHANGED <<keys, jobs>>
    BY <1>3 DEF Identity!Overlap
  <2>2. Shrunk
    BY <1>0, <2>1, PrunedShrinks
  <2>3. task' \in Tasks /\ task'.op = "tail" /\ task'.job = task.job
    BY <2>1 DEF IdentityInv, IdentityTyped, Tasks, Ops, Chain
  <2>4. jobs' \in [Jobs -> Answers]
    BY <2>1 DEF IdentityInv, IdentityTyped
  <2>5. JobsSound'
    BY <1>0, <2>1, <2>3, <2>4, JobsKept DEF Waiting
  <2>6. TaskSound'
    BY <1>1, <2>3 DEF TaskSound, Chain
  <2> QED
    BY <1>0, <1>1, <2>2, <2>3, <2>4, <2>5, <2>6, ShrinkStep
<1>4. CASE task.todo # {}
  <2>1. PICK outlived : outlived = {e.name : e \in Identity!Outlived(Identity!Job.plan)}
    OBVIOUS
  <2>2. PICK n \in task.todo :
          /\ pubs' = pubs
          /\ \/ /\ keys[n] = "active" /\ keys' = Identity!Advanced(keys, n) /\ UNCHANGED <<task, jobs>>
             \/ /\ keys[n] # "active" /\ n \notin outlived
                /\ task' = [task EXCEPT !.todo = @ \ {n}] /\ UNCHANGED <<keys, jobs>>
             \/ /\ n \in outlived /\ Identity!Retirable(n)
                /\ keys' = [keys EXCEPT ![n] = "retired"]
                /\ task' = [task EXCEPT !.todo = @ \ {n}] /\ jobs' = jobs
             \/ /\ n \in outlived /\ keys[n] # "active" /\ ~Identity!Retirable(n)
                /\ Identity!Denied /\ keys' = keys
    BY <1>4, <2>1 DEF Identity!Overlap, Identity!First
  <2>3. n \in Identity!Names \ {Identity!Root} /\ n \in MappedNames /\ n \notin EchNames
    BY <1>2, <2>2, KindsDiffer
  <2>4. CASE keys[n] = "active" /\ keys' = Identity!Advanced(keys, n) /\ UNCHANGED <<task, jobs>>
    BY <1>0, <2>2, <2>3, <2>4, StageStep
  <2>5. CASE task' = [task EXCEPT !.todo = @ \ {n}] /\ UNCHANGED <<keys, jobs>>
    <3>1. task' \in Tasks /\ task'.op = "overlap" /\ task'.job = task.job /\ task'.todo \subseteq task.todo
      BY <1>0, <2>5 DEF IdentityInv, IdentityTyped, Tasks
    <3>2. KeysMove
      BY <2>5, SameKeysMove DEF IdentityInv
    <3> QED
      BY <1>0, <2>2, <2>5, <3>1, <3>2, ChainStep
  <2>6. CASE /\ n \in outlived /\ Identity!Retirable(n) /\ keys' = [keys EXCEPT ![n] = "retired"]
             /\ task' = [task EXCEPT !.todo = @ \ {n}] /\ jobs' = jobs
    <3>1. n \notin Identity!Journal.current
      BY <1>1, <1>2, <2>1, <2>6 DEF IdentityInv, JobsSound, Identity!Outlived
    <3>2. n \notin Identity!Head("ech").body.names
      BY <1>1, <2>3 DEF EchBodies
    <3>3. Unneeded(n)
      BY <2>6 DEF Unneeded, Identity!Retirable
    <3>4. KeysMove
      BY <2>3, <2>6, <3>1, <3>2, <3>3, RetireMoves DEF IdentityInv
    <3>5. task' \in Tasks /\ task'.op = "overlap" /\ task'.job = task.job /\ task'.todo \subseteq task.todo
      BY <1>0, <2>6 DEF IdentityInv, IdentityTyped, Tasks
    <3>6. \A d \in EchNames : keys[d] = "retired" => keys'[d] = "retired"
      BY <2>3, <2>6
    <3> QED
      BY <1>0, <2>2, <2>6, <3>4, <3>5, <3>6, ChainStep
  <2>7. CASE Identity!Denied /\ keys' = keys
    BY <1>0, <2>2, <2>7, DeniedKeeps
  <2> QED
    BY <2>2, <2>4, <2>5, <2>6, <2>7
<1> QED
  BY <1>3, <1>4

LEMMA GreaterOfTwo == ASSUME NEW a \in Nat, NEW b \in Nat PROVE Identity!Max({a, b}) \in Nat
<1>1. \E x \in {a, b} : \A y \in {a, b} : x >= y
  OBVIOUS
<1>2. Identity!Max({a, b}) \in {a, b}
  BY <1>1 DEF Identity!Max
<1> QED
  BY <1>2

\* The plan of an overlap keeps the keys of the zone apart.
LEMMA PlanIsSound ==
  ASSUME IdentityInv, NEW ks \in SUBSET MappedNames
  PROVE  /\ Identity!Plan(ks) \in Plans
         /\ \A e \in Identity!Plan(ks).retiring : e.name \notin Identity!Plan(ks).current
<1>1. PICK L : L = Identity!Leaving(ks)
  OBVIOUS
<1>2. Identity!Journal \in ZoneBodies
  BY JournalIsTyped DEF IdentityInv, IdentityTyped
<1>3. ASSUME NEW e \in L PROVE e \in Leavers /\ e.name \notin ks
  <2>1. \/ e \in Identity!Journal.retiring /\ e.name \notin ks
        \/ \E n \in Identity!Journal.current :
             n \notin ks /\ e = [name |-> n, end |-> Identity!Max({identityNow, Identity!Horizon(n)})]
    BY <1>1 DEF Identity!Leaving
  <2>2. CASE e \in Identity!Journal.retiring /\ e.name \notin ks
    BY <1>2, <2>2 DEF ZoneBodies
  <2>3. ASSUME NEW n \in Identity!Journal.current, n \notin ks,
               e = [name |-> n, end |-> Identity!Max({identityNow, Identity!Horizon(n)})]
        PROVE  e \in Leavers /\ e.name \notin ks
    <3>1. Identity!Max({identityNow, Identity!Horizon(n)}) \in Nat
      BY GreaterOfTwo, HorizonBounds, IdentityAssumption DEF IdentityInv, IdentityTyped
    <3>2. n \in MappedNames
      BY <1>2 DEF ZoneBodies
    <3> QED
      BY <2>3, <3>1, <3>2 DEF Leavers
  <2> QED
    BY <2>1, <2>2, <2>3
<1>4. PICK O : O = {e.name : e \in {f \in L : f.end >= identityNow}}
  OBVIOUS
<1>5. O \subseteq MappedNames
  BY <1>3, <1>4 DEF Leavers
<1>6. Identity!Plan(ks) =
        [previous |-> Identity!Seq("zone"), current |-> ks, retiring |-> L, now |-> identityNow, overlap |-> O]
  BY <1>1, <1>4 DEF Identity!Plan
<1>7. Identity!Seq("zone") \in Nat /\ identityNow \in 0..IdentityTime
  BY SeqTyped, IdentityAssumption DEF IdentityInv, IdentityTyped
<1> QED
  BY <1>3, <1>5, <1>6, <1>7 DEF Plans

LEMMA ConstructKeeps ==
  ASSUME IdentityInv, NEW j \in Jobs, NEW secure, NEW service, Identity!Construct(j, secure, service)
  PROVE  IdentityInv'
<1>1. PICK name : name = Identity!Observed(up)
  OBVIOUS
<1>2. PICK plan : plan = IF secure THEN Identity!Plan({name}) ELSE Identity!NoPlan
  OBVIOUS
<1>3. PICK deps : deps = {Identity!Root, name} \cup plan.overlap \cup (IF service THEN {ech.current} ELSE {})
  OBVIOUS
<1>4. /\ Identity!Free /\ name \in Identity!Names
      /\ keys' = IF keys[name] = "absent" THEN [keys EXCEPT ![name] = "prepared"] ELSE keys
      /\ jobs' = [jobs EXCEPT ![j] = [deps |-> deps, until |-> identityNow + 1, plan |-> plan]]
      /\ UNCHANGED <<pubs, ech, task, identityNow>>
  BY <1>1, <1>2, <1>3 DEF Identity!Construct, Identity!Life
<1>5. Identity!Running /\ task.op = "none" /\ task.todo = {} /\ task \in Tasks
  BY <1>4, IdleIsTyped DEF Identity!Free
<1>6. ech.current \in ech.names /\ ech.names \subseteq EchNames
  BY <1>5, Installed
<1>7. name \in MappedNames /\ name \in Identity!Names \ {Identity!Root} /\ name \notin EchNames
  <2>1. name[1] = "dnssec"
    BY <1>1 DEF Identity!Observed, Identity!Mapped
  <2> QED
    BY <1>4, <2>1, NamesApart
<1>8. plan \in Plans /\ \A e \in plan.retiring : e.name \notin plan.current
  <2>1. CASE secure
    BY <1>2, <1>7, <2>1, PlanIsSound
  <2>2. CASE ~secure
    BY <1>2, <2>2, IdentityAssumption DEF Identity!NoPlan, Plans
  <2> QED
    BY <2>1, <2>2
<1>9. PICK job : job = [deps |-> deps, until |-> identityNow + 1, plan |-> plan]
  OBVIOUS
<1>10. job \in Answers
  <2>1. deps \subseteq Identity!Names
    BY <1>3, <1>4, <1>6, <1>8, KindsDiffer DEF Plans
  <2>2. identityNow + 1 \in Horizons
    BY IdentityAssumption DEF IdentityInv, IdentityTyped, Horizons
  <2> QED
    BY <1>8, <1>9, <2>1, <2>2 DEF Answers
<1>11. jobs' \in [Jobs -> Answers] /\ jobs'[j] = job /\ \A i \in Jobs : i # j => jobs'[i] = jobs[i]
  BY <1>4, <1>9, <1>10 DEF IdentityInv, IdentityTyped
<1>12. KeysMove /\ \A d \in EchNames : keys'[d] = keys[d]
  <2>1. CASE keys[name] = "absent"
    <3>1. keys' = [keys EXCEPT ![name] = "prepared"]
      BY <1>4, <2>1
    <3>2. KeysMove
      BY <1>7, <2>1, <3>1, PrepareMoves DEF IdentityInv
    <3>3. \A d \in EchNames : keys'[d] = keys[d]
      BY <1>7, <3>1, KindsDiffer DEF IdentityInv, IdentityTyped
    <3> QED
      BY <3>2, <3>3
  <2>2. CASE keys[name] # "absent"
    BY <1>4, <2>2, SameKeysMove DEF IdentityInv
  <2> QED
    BY <2>1, <2>2
<1>13. JobsSound'
  <2>1. ASSUME NEW d \in deps \cap EchNames PROVE d \in ech.names
    BY <1>3, <1>6, <1>7, <1>8, KindsDiffer DEF Plans
  <2>2. ASSUME NEW i \in Jobs
        PROVE  /\ \A d \in jobs'[i].deps \cap EchNames : d \in ech'.names \/ keys'[d] = "retired" \/ Waiting(d)'
               /\ \A e \in jobs'[i].plan.retiring : e.name \notin jobs'[i].plan.current
    <3>1. CASE i = j
      <4>1. jobs'[i].deps = deps /\ jobs'[i].plan = plan
        BY <1>9, <1>11, <3>1
      <4> QED
        BY <1>4, <1>8, <2>1, <4>1
    <3>2. CASE i # j
      BY <1>4, <1>5, <1>11, <1>12, <3>2 DEF IdentityInv, JobsSound, Waiting
    <3> QED
      BY <3>1, <3>2
  <2> QED
    BY <2>2 DEF JobsSound
<1>14. TaskSound'
  BY <1>4, <1>5 DEF TaskSound, Chain
<1> QED
  BY <1>4, <1>5, <1>11, <1>12, <1>13, <1>14, KeysStep

LEMMA IdentityInit == Identity!Init => IdentityInv
<1> SUFFICES ASSUME Identity!Init PROVE IdentityInv
  OBVIOUS
<1>1. /\ keys = [n \in Identity!Names |-> "absent"] /\ pubs = {} /\ ech = Identity!NoEch
      /\ jobs = [j \in Jobs |-> Identity!NoJob] /\ task = Identity!Idle /\ identityNow = 1
  BY DEF Identity!Init
<1>2. \A k : Identity!Heads(k) = {}
  BY <1>1 DEF Identity!Heads
<1>3. IdentityTyped
  BY <1>1, IdleIsTyped, NoJobTyped, IdentityAssumption DEF IdentityTyped, PubsTyped, Stages, Tasks
<1>4. StoreSound
  <2>1. Identity!Journal.current = {}
    BY <1>2 DEF Identity!Journal
  <2>2. keys[Identity!Root] = "absent"
    BY <1>1, KindsDiffer
  <2> QED
    BY <1>1, <1>2, <2>1, <2>2
       DEF StoreSound, JournalsInOrder, OneOfEach, RootComesFirst, HeadsHold, AnswersBacked, Begun
<1>5. ContextIsHead /\ DownIsIdle
  BY <1>1 DEF ContextIsHead, DownIsIdle, Identity!Running, NoJobs
<1>6. TaskSound
  BY <1>1, IdleIsTyped DEF TaskSound, Chain
<1>7. JobsSound
  BY <1>1 DEF JobsSound, Identity!NoJob, Identity!NoPlan
<1> QED
  BY <1>3, <1>4, <1>5, <1>6, <1>7 DEF IdentityInv

LEMMA IdentityNext == IdentityInv /\ Identity!Next => IdentityInv'
<1> SUFFICES ASSUME IdentityInv, Identity!Next PROVE IdentityInv'
  OBVIOUS
<1> QED
  BY InitializeKeeps, RecoverKeeps, RestageKeeps, CrashKeeps, RotateKeeps, GenerateKeeps, RetireKeeps, AbandonKeeps,
     CheckedKeeps, ConstructKeeps, PublishKeeps, ActivateKeeps, JournalKeeps, OverlapKeeps, TailKeeps, CollectKeeps,
     HealthKeeps, UpstreamKeeps, TickKeeps DEF Identity!Next

LEMMA IdentityHolds == IdentityInv => Identity!IdentitiesDurable
<1> SUFFICES ASSUME IdentityInv PROVE Identity!IdentitiesDurable
  OBVIOUS
<1>1. Identity!AnswersStayBacked
  <2>1. SUFFICES ASSUME NEW p \in pubs, p.kind = "dns", Lasts(p), NEW d \in p.deps
          PROVE  /\ Identity!Key(d) /\ (d[1] = "ech" => d \in Identity!Head("ech").body.names)
                 /\ Identity!Running => (d[1] = "ech" => d \in ech.names)
    BY DEF Identity!AnswersStayBacked, Lasts
  <2>2. p \in Identity!Heads("dns")
    BY <2>1 DEF Identity!Heads
  <2>3. Backed(d) /\ Begun /\ d \in Identity!Names
    BY <2>1, <2>2
       DEF IdentityInv, StoreSound, AnswersBacked, RootComesFirst, IdentityTyped, PubsTyped, Publication
  <2>4. Identity!Running => ech = Identity!Head("ech").body
    BY <2>3 DEF IdentityInv, ContextIsHead
  <2> QED
    BY <2>3, <2>4, KindsDiffer DEF Backed
<1>2. Identity!RestartWorks
  <2>1. SUFFICES ASSUME Begun PROVE Identity!Recoverable /\ \A n \in Identity!Journal.current : Identity!Key(n)
    BY DEF Identity!RestartWorks, Begun
  <2>2. keys[Identity!Root] = "active" /\ Identity!Heads("root") # {}
    BY <2>1 DEF IdentityInv, StoreSound, RootComesFirst, Begun, Identity!Heads
  <2> QED
    BY <2>1, <2>2 DEF IdentityInv, StoreSound, HeadsHold, Held, Begun, Identity!Key, Identity!Recoverable
<1> QED
  BY <1>1, <1>2 DEF Identity!IdentitiesDurable

LEMMA IdentityStutters == ASSUME IdentityInv, UNCHANGED identityVars PROVE IdentityInv'
<1>1. UNCHANGED <<keys, pubs, ech, jobs, task, identityNow>>
  BY DEF identityVars
<1>2. \A k : Identity!Heads(k)' = Identity!Heads(k)
  BY <1>1 DEF Identity!Heads
<1>3. /\ Identity!Head("ech")' = Identity!Head("ech") /\ Identity!Head("zone")' = Identity!Head("zone")
      /\ JournalsInOrder' /\ Begun' = Begun
  BY <1>2, SameHeads DEF IdentityInv, StoreSound, JournalsInOrder, Begun
<1>4. Identity!Journal' = Identity!Journal
  BY <1>2, <1>3, JournalStays
<1>5. StoreSound'
  BY <1>1, <1>2, <1>3, <1>4 DEF IdentityInv, StoreSound, RootComesFirst, HeadsHold, AnswersBacked, Held, Lasts, Backed,
     Identity!Key
<1>6. IdentityTyped' /\ ContextIsHead' /\ DownIsIdle'
  BY <1>1, <1>3 DEF IdentityInv, IdentityTyped, PubsTyped, ContextIsHead, DownIsIdle, Identity!Running, NoJobs, Staged
<1>7. TaskSound' /\ JobsSound'
  BY <1>1, <1>2, <1>4 DEF IdentityInv, TaskSound, JobsSound, Waiting, Dropped, Staged, Unneeded
<1> QED
  BY <1>5, <1>6, <1>7 DEF IdentityInv

-----------------------------------------------------------------------------
(***************************************************************************)
(* Together.                                                               *)
(***************************************************************************)

AnyInv ==
    /\ part = "flows" => FlowsInv
    /\ part = "http2" => Http2Inv /\ ExchangesInv
    /\ part \in {"delivery", "overlap"} => DeliveryInv
    /\ part = "guest" => GuestInv
    /\ part = "exec" => ExecInv
    /\ part = "identity" => IdentityInv

LEMMA AnyInitHolds == AnyInit => AnyInv
<1> SUFFICES ASSUME AnyInit PROVE AnyInv
  OBVIOUS
<1>1. /\ part = "flows" => Flow!Init
      /\ part = "http2" => Init
      /\ part = "guest" => Guest!Init
      /\ part = "exec" => Exec!Init
      /\ part = "delivery" => Delivery!Init
      /\ part = "overlap" => Overlap!Init
      /\ part = "identity" => Identity!Init
  BY DEF AnyInit
<1> QED
  BY <1>1, IdentityInit, FlowsInit, Http2Init, ExchangesInit, GuestInit, ExecInit, DeliveryInit DEF AnyInv

\* What every step keeps, and what it may never do.
LEMMA AnyStep ==
    ASSUME AnyInv, AnyNext
    PROVE  /\ AnyInv'
           /\ part = "exec" => Exec!GivenUpStays
           /\ part \in {"delivery", "overlap"} => Delivery!NoRegress
           /\ part = "http2" => NoLateRequest
<1>1. CASE ExecMoves
  <2>1. part = "exec" /\ part' = part /\ Exec!Next
    BY <1>1 DEF ExecMoves
  <2>2. ExecInv' /\ Exec!GivenUpStays
    BY <2>1, ExecNext DEF AnyInv
  <2> QED
    BY <2>1, <2>2 DEF AnyInv
<1>2. CASE GuestMoves
  <2>1. part = "guest" /\ part' = part /\ Guest!Next
    BY <1>2 DEF GuestMoves
  <2>2. GuestInv'
    BY <2>1, GuestNext DEF AnyInv
  <2> QED
    BY <2>1, <2>2 DEF AnyInv
<1>3. CASE DeliveryMoves
  <2>1. part = "delivery" /\ part' = part /\ Delivery!Next
    BY <1>3 DEF DeliveryMoves
  <2>2. DeliveryInv' /\ Delivery!NoRegress
    BY <2>1, DeliveryIsStep, DeliveryNext DEF AnyInv
  <2> QED
    BY <2>1, <2>2 DEF AnyInv
<1>4. CASE OverlapMoves
  <2>1. part = "overlap" /\ part' = part /\ Overlap!Next
    BY <1>4 DEF OverlapMoves
  <2>2. DeliveryInv' /\ Delivery!NoRegress
    BY <2>1, OverlapIsDelivery, DeliveryNext DEF AnyInv
  <2> QED
    BY <2>1, <2>2 DEF AnyInv
<1>5. CASE IdentityMoves
  <2>1. part = "identity" /\ part' = part /\ Identity!Next
    BY <1>5 DEF IdentityMoves
  <2>2. IdentityInv'
    BY <2>1, IdentityNext DEF AnyInv
  <2> QED
    BY <2>1, <2>2 DEF AnyInv
<1>6. CASE Http2Moves
  <2>1. part = "http2" /\ part' = part /\ Next
    BY <1>6 DEF Http2Moves
  <2>2. Http2Inv' /\ ExchangesInv' /\ NoLateRequest
    BY <2>1, Http2Next, ExchangesNext DEF AnyInv
  <2> QED
    BY <2>1, <2>2 DEF AnyInv
<1>7. CASE FlowMoves
  <2>1. part = "flows" /\ part' = part /\ Flow!Next
    BY <1>7 DEF FlowMoves
  <2>2. FlowsInv'
    BY <2>1, FlowsNext DEF AnyInv
  <2> QED
    BY <2>1, <2>2 DEF AnyInv
<1> QED
  BY <1>1, <1>2, <1>3, <1>4, <1>5, <1>6, <1>7 DEF AnyNext

\* A stuttering step changes nothing.
LEMMA AnyStutters ==
    ASSUME AnyInv, UNCHANGED anyVars
    PROVE  /\ AnyInv'
           /\ part = "exec" => Exec!GivenUpStays
           /\ part \in {"delivery", "overlap"} => Delivery!NoRegress
           /\ part = "http2" => NoLateRequest
<1>a. UNCHANGED part /\ UNCHANGED execVars /\ UNCHANGED guestVars /\ UNCHANGED deliveryVars
      /\ UNCHANGED http2Vars /\ UNCHANGED flowsVars /\ UNCHANGED identityVars
  BY DEF anyVars
<1>1. FlowsInv => FlowsInv'
  BY <1>a DEF flowsVars, FlowsInv, FlowsTyped, FlowsOwned, Owned, UnderAccept, GuestsAreGone, Flow!NoGuest,
     SlotsHold, Flow!SlotsBounded, Flow!StopIsWhole
<1>2. Http2Inv => Http2Inv'
  BY <1>a DEF http2Vars, vars, queues, shutdown, Http2Inv, Http2Typed, WaitingIsUnmapped, Waits, DrainCancels
<1>10. Http2Inv /\ ExchangesInv => ExchangesInv'
  <2> SUFFICES ASSUME Http2Inv, ExchangesInv PROVE ExchangesInv'
    OBVIOUS
  <2>1. UNCHANGED <<ex, queues, routes, wire, drain, closing, closed, graceful, guest, sent>>
    BY <1>a DEF http2Vars, vars, shutdown
  <2>2. graceful \in BOOLEAN /\ guest \in [Streams -> GuestRecords]
    BY DEF ExchangesInv, SidesTyped
  <2> QED
    BY <2>1, <2>2, ExchangesStand
<1>3. DeliveryInv => DeliveryInv'
  BY <1>a DEF deliveryVars, DeliveryInv, DeliveryTyped, Watchers, RecordInOrder, HolderServes, ProcessesExist,
     AnswerIsTrue, LoopIsSound, Delivery!EvidenceIsTrue, Delivery!ObservedIsServed, Delivery!Live
<1>4. GuestInv => GuestInv'
  BY <1>a DEF guestVars, GuestInv, GuestTyped, NumbersAreSessions, CoroutineHolds, FileNamesTheTree, NoneAlive,
     GuestIsEmpty, TreeIsWorkedOn, Guest!OneTreeInGuest, Guest!Alive
<1>5. ExecInv => ExecInv'
  BY <1>a DEF execVars, ExecInv, McpTyped, ReplyHoldsRow, TasksTyped, UnitTyped, HistoryTyped, RequestIsOne, RequestAt,
     Early, Asked, Carried, Carries, Forwarded, Answered, Sanctioned, UnitHolds, ReleasesAreLogged, ResultsAnswer
<1>6. Exec!GivenUpStays
  BY <1>a DEF execVars, Exec!GivenUpStays
<1>7. Delivery!NoRegress
  BY <1>a DEF deliveryVars, Delivery!NoRegress
<1>8. NoLateRequest
  BY <1>a DEF http2Vars, vars, NoLateRequest
<1>9. IdentityInv => IdentityInv'
  BY <1>a, IdentityStutters
<1> QED
  BY <1>a, <1>1, <1>2, <1>3, <1>4, <1>5, <1>6, <1>7, <1>8, <1>9, <1>10 DEF AnyInv

LEMMA AnyInvariance == AnySpec => []AnyInv
<1>1. AnyInv /\ [AnyNext]_anyVars => AnyInv'
  BY AnyStep, AnyStutters
<1> QED
  BY <1>1, AnyInitHolds, PTL DEF AnySpec

\* The guest starts an execution at most once, only after the door released it, and a
\* caller gets a sandbox result only of an execution that ran or was refused for its
\* size: for any number of executions, restarts, losses and rolled back transactions,
\* provided no producer appends a request record twice (RequestsAppearOnce).
THEOREM ExecutionsStartOnce == AnySpec => []StartsOnce
<1>1. AnyInv => StartsOnce
  BY ExecHolds DEF AnyInv, StartsOnce
<1> QED
  BY <1>1, AnyInvariance, PTL

\* A call that timed out, was cancelled or failed before it was released is never
\* released and never started afterwards.
THEOREM GivenUpStaysGivenUp == AnySpec => GivenUpNeverStarts
<1>1. AnyInv /\ [AnyNext]_anyVars => [part = "exec" => Exec!GivenUpStays]_anyVars
  BY AnyStep
<1> QED
  BY <1>1, AnyInvariance, PTL DEF AnySpec, GivenUpNeverStarts

\* Cleanup and recovery kill no process that is not a session's tree, across crashes
\* of the IPC process and replacements of the Pod; trees do not meet in the guest; and
\* what survives its execution is recorded.
THEOREM GuestTreesAccounted == AnySpec => []TreesAccounted
<1>1. AnyInv => TreesAccounted
  BY GuestHolds DEF AnyInv, TreesAccounted
<1> QED
  BY <1>1, AnyInvariance, PTL

\* Installation evidence is about the egress process last observed, and a process that
\* was observed unconfigured is going to be served, with faults and with overlapping
\* health checks.
THEOREM EvidenceStands == AnySpec => []EvidenceIsTrue
<1>1. AnyInv => EvidenceIsTrue
  BY DEF AnyInv, EvidenceIsTrue, DeliveryInv
<1> QED
  BY <1>1, AnyInvariance, PTL

\* No egress process is given a revision below one already sent, across restarts of
\* either process and however records are repeated or reordered.
THEOREM RevisionsOnlyGrow == AnySpec => RevisionsNeverRegress
<1>1. AnyInv /\ [AnyNext]_anyVars => [(part \in {"delivery", "overlap"}) => Delivery!NoRegress]_anyVars
  BY AnyStep
<1> QED
  BY <1>1, AnyInvariance, PTL DEF AnySpec, RevisionsNeverRegress

\* After a drain began, by either end or by the manager, no request of the guest is
\* written to the origin.
THEOREM DrainsTakeNothing == AnySpec => DrainHolds
<1>1. AnyInv /\ [AnyNext]_anyVars => [part = "http2" => NoLateRequest]_anyVars
  BY AnyStep
<1> QED
  BY <1>1, AnyInvariance, PTL DEF AnySpec, DrainHolds

\* Every byte of DATA returns to its connection's window once, however its exchange
\* ends, and none is left when the connection is closed; a guest reads on a stream what
\* the origin answered to that stream's request, in order; and a connection that closes
\* gracefully left no exchange behind: for any number of streams, frames and events.
THEOREM ExchangesStaySound == AnySpec => []ExchangesHold
<1>1. AnyInv => ExchangesHold
  BY ExchangesAreSound DEF AnyInv, ExchangesHold
<1> QED
  BY <1>1, AnyInvariance, PTL

\* Whichever owner a flow fails, runs out of time or is cancelled under, the owners on its
\* stack release between them everything it holds; what is open belongs to a task with a
\* slot, the slots never exceed their number, a flow has at most one upstream, and a stop
\* that ends leaves no flow: for any number of flows, slots and requests.
THEOREM FlowsReleaseAll == AnySpec => []FlowsContained
<1>1. AnyInv => FlowsContained
  BY FlowsHold DEF AnyInv, FlowsContained
<1> QED
  BY <1>1, AnyInvariance, PTL

\* Until its horizon, what a guest was told keeps every private key it depends on, and
\* its ECH keys stay installed; a crash between any two transactions leaves a state that
\* the next process opens: for any number of queries in flight, keys, generations,
\* crashes and ticks of the clock.
THEOREM IdentitiesStayDurable == AnySpec => []IdentitiesDurable
<1>1. AnyInv => IdentitiesDurable
  BY IdentityHolds DEF AnyInv, IdentitiesDurable
<1> QED
  BY <1>1, AnyInvariance, PTL
=============================================================================
