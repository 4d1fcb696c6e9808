--------------------------- MODULE AdsSessionsProofs ---------------------------
(***************************************************************************)
(* Machine-checked safety of what ads keeps of a user: the runs of a chat  *)
(* session and their transcript, the turns it shares with the engine, the  *)
(* session of the browser; for any messages, orders, tombstones, requests  *)
(* and faults, and whatever outputs arrive.                                *)
(***************************************************************************)
EXTENDS MCAdsSessions, NaturalsInduction, WellFoundedInduction, TLAPS

\* A set of numbers that is not empty has a least member.
LEMMA LeastExists ==
  ASSUME NEW T \in SUBSET Nat, T # {}
  PROVE  \E x \in T : \A y \in T : x <= y
<1>1. PICK R : R = OpToRel(<, Nat)
  OBVIOUS
<1>2. IsWellFoundedOn(R, Nat)
  BY <1>1, NatLessThanWellFounded
<1>3. PICK x \in T : \A y \in T : ~ (<<y, x>> \in R)
  BY <1>2, WFMin
<1>4. \A i, j \in Nat : <<i, j>> \in R <=> i < j
  BY <1>1 DEF OpToRel
<1>5. ASSUME NEW y \in T PROVE x <= y
  <2>1. y \in Nat /\ x \in Nat /\ ~ (<<y, x>> \in R)
    BY <1>3
  <2>2. <<y, x>> \in R <=> y < x
    BY <1>4, <2>1
  <2> QED
    BY <2>1, <2>2
<1> QED
  BY <1>5

\* A set of numbers that is bounded and not empty has a greatest member.
LEMMA GreatestExists ==
  ASSUME NEW T \in SUBSET Nat, T # {}, NEW top \in Nat, \A x \in T : x <= top
  PROVE  \E x \in T : \A y \in T : y <= x
<1>0. PICK U : U = {j \in Nat : \A x \in T : x <= j}
  OBVIOUS
<1>1. PICK m \in U : \A j \in U : m <= j
  <2>1. U \in SUBSET Nat /\ top \in U
    BY <1>0
  <2> QED
    BY <2>1, LeastExists
<1>2. CASE m \in T
  BY <1>0, <1>1, <1>2
<1>3. CASE m \notin T
  <2>1. m # 0
    <3>1. PICK x \in T : TRUE
      OBVIOUS
    <3> QED
      BY <1>0, <1>1, <1>3, <3>1
  <2>2. m - 1 \in U
    BY <1>0, <1>1, <1>3, <2>1
  <2>3. m \in Nat
    BY <1>0, <1>1
  <2> QED
    BY <1>1, <2>2, <2>3
<1> QED
  BY <1>2, <1>3


\* The fields of a run.  How far the continuous prefix of a buffer reaches is left
\* open: what is proved does not depend on it.
Fields(r) == r = [status |-> r.status, watermark |-> r.watermark, last |-> r.last,
                  buffer |-> r.buffer, tomb |-> r.tomb]
RunShape ==
    /\ run = [m \in Msgs |-> run[m]]
    /\ \A m \in Msgs : Fields(run[m])

IInv == RunShape /\ FinishedIsComplete

-----------------------------------------------------------------------------
LEMMA InitInv == Init => IInv
  BY DEF Init, IInv, RunShape, Fields, NewRun, FinishedIsComplete

\* Unwinding leaves a broken run.
LEMMA BreakInv == ASSUME NEW m \in Msgs, IInv, Break(m) PROVE IInv'
  BY DEF IInv, RunShape, Fields, FinishedIsComplete, Break, Breakable, Unwind, NewRun

LEMMA StepInv == IInv /\ [Next]_adsVars => IInv'
<1> SUFFICES ASSUME IInv, [Next]_adsVars
             PROVE  IInv'
  OBVIOUS
<1> USE DEF IInv, RunShape, Fields, FinishedIsComplete
<1>1. CASE \E m \in Msgs : Send(m)
  BY <1>1 DEF Send
<1>2. CASE \E m \in Msgs : Acknowledge(m)
  BY <1>2 DEF Acknowledge
<1>3. CASE \E m \in Msgs, o \in Orders : Partial(m, o)
  <2> PICK m \in Msgs, o \in Orders : Partial(m, o)
    BY <1>3
  <2> DEFINE B == run[m].buffer \cup {o}
             v == Reach(run[m].watermark, B)
             t == Candidate(m, v)
             done == v # run[m].watermark /\ Complete(run[m].last, v)
  <2>1. run[m].status # "finished"
    BY DEF Partial, InFlight
  <2> DEFINE st == IF done THEN "finished" ELSE run[m].status
             new == [status |-> st, watermark |-> v, last |-> run[m].last, buffer |-> B, tomb |-> t]
  <2>2. run' = [run EXCEPT ![m] = new]
    BY DEF Partial
  <2>3. new.status = st /\ new.last = run[m].last /\ new.watermark = v /\ Fields(new)
    OBVIOUS
  <2> HIDE DEF B, v, t, done, st, new
  <2>4. run' = [n \in Msgs |-> IF n = m THEN new ELSE run[n]]
    BY <2>2
  <2>5. done => Complete(run[m].last, v)
    BY DEF done
  <2>6. run'[m].status = "finished" => run'[m].last # -1 /\ run'[m].watermark >= run'[m].last
    BY <2>1, <2>3, <2>4, <2>5 DEF Complete, st
  <2>7. QED
    BY <2>3, <2>4, <2>6
<1>4. CASE \E m \in Msgs, l \in -1..MaxOrder : Finish(m, l)
  <2> PICK m \in Msgs, l \in -1..MaxOrder : Finish(m, l)
    BY <1>4
  <2>1. CASE Break(m)
    BY <2>1, BreakInv
  <2>2. CASE ~Break(m)
    BY <2>2 DEF Finish, Complete
  <2>3. QED
    BY <2>1, <2>2
<1>5. CASE \E m \in Msgs : Error(m) \/ WatchUnwind(m)
  BY <1>5, BreakInv DEF Error, WatchUnwind
<1>6. CASE UNCHANGED run
  BY <1>6
<1>7. QED
  BY <1>1, <1>2, <1>3, <1>4, <1>5, <1>6
  DEF Next, OutputStep, LocalStep, adsVars, rowVars, Ping, SendProduce, AckProduce, TimePasses,
      WatchDue, WatchAbort, AdsRestart

\* A run is closed only with every delta up to the order its finish announced,
\* however deltas, finishes, errors and the watchdog interleave.
THEOREM FinishedIsCompleteHolds == Spec => []FinishedIsComplete
<1>1. IInv => FinishedIsComplete
  BY DEF IInv
<1>2. QED
  BY InitInv, StepInv, <1>1, PTL DEF Spec

\* A closed run's row is never touched again: neither a late output nor the
\* watchdog, whose list is older than the row, changes it.
THEOREM FinishedRowStays ==
    Spec => [][\A m \in Msgs : run[m].status = "finished" => run'[m] = run[m]]_adsVars
<1> DEFINE A == \A m \in Msgs : run[m].status = "finished" => run'[m] = run[m]
<1>1. IInv /\ [Next]_adsVars => [A]_adsVars
  <2> SUFFICES ASSUME IInv, Next, NEW m \in Msgs, run[m].status = "finished"
               PROVE  run'[m] = run[m]
    BY DEF A
  <2> USE DEF IInv, RunShape
  <2>1. CASE \E n \in Msgs : Send(n) \/ Acknowledge(n)
    BY <2>1 DEF Send, Acknowledge
  <2>2. CASE \E n \in Msgs, o \in Orders : Partial(n, o)
    BY <2>2 DEF Partial, InFlight
  <2>3. CASE \E n \in Msgs : Break(n)
    BY <2>3 DEF Break, Breakable, Unwind, InFlight
  <2>4. CASE \E n \in Msgs, l \in -1..MaxOrder : Finish(n, l) /\ ~Break(n)
    BY <2>4 DEF Finish, InFlight
  <2>5. CASE UNCHANGED run
    BY <2>5
  <2>6. QED
    BY <2>1, <2>2, <2>3, <2>4, <2>5
    DEF Next, OutputStep, LocalStep, rowVars, Ping, SendProduce, AckProduce, TimePasses,
        WatchDue, WatchAbort, WatchUnwind, Error, AdsRestart
<1>2. QED
  BY InitInv, StepInv, <1>1, PTL DEF Spec

-----------------------------------------------------------------------------
\* At most one run of a session is in flight.
OneInFlight == \A m, n \in Msgs : InFlight(m) /\ InFlight(n) => m = n

\* No output starts a run: what is in flight after a step was so before, unless sent.
LEMMA NoOutputStarts ==
    ASSUME IInv, Next, NEW m \in Msgs, ~Send(m), InFlight(m)'
    PROVE  InFlight(m)
<1> USE DEF IInv, RunShape, InFlight
<1>1. CASE \E n \in Msgs : Send(n)
  BY <1>1 DEF Send
<1>2. CASE \E n \in Msgs : Acknowledge(n)
  BY <1>2 DEF Acknowledge
<1>3. CASE \E n \in Msgs, o \in Orders : Partial(n, o)
  BY <1>3 DEF Partial
<1>4. CASE \E n \in Msgs : Break(n)
  BY <1>4 DEF Break, Breakable, Unwind, NewRun
<1>5. CASE \E n \in Msgs, l \in -1..MaxOrder : Finish(n, l) /\ ~Break(n)
  BY <1>5 DEF Finish
<1>6. CASE UNCHANGED run
  BY <1>6
<1>7. QED
  BY <1>1, <1>2, <1>3, <1>4, <1>5, <1>6
  DEF Next, OutputStep, LocalStep, rowVars, Ping, SendProduce, AckProduce, TimePasses,
      WatchDue, WatchAbort, WatchUnwind, Error, AdsRestart

\* A run is claimed only when no run is in flight.
LEMMA OneInFlightStep == IInv /\ OneInFlight /\ [Next]_adsVars => OneInFlight'
<1> SUFFICES ASSUME IInv, OneInFlight, Next, NEW m \in Msgs, NEW n \in Msgs,
                    InFlight(m)', InFlight(n)'
             PROVE  m = n
  BY DEF OneInFlight, InFlight, adsVars, rowVars
<1>1. CASE Send(m) /\ ~Send(n)
  BY <1>1, NoOutputStarts DEF Send, Unclaimed
<1>2. CASE Send(n) /\ ~Send(m)
  BY <1>2, NoOutputStarts DEF Send, Unclaimed
<1>3. CASE Send(m) /\ Send(n)
  BY <1>3 DEF Send, InFlight, Unclaimed, IInv, RunShape
<1>4. CASE ~Send(m) /\ ~Send(n)
  BY <1>4, NoOutputStarts DEF OneInFlight
<1>5. QED
  BY <1>1, <1>2, <1>3, <1>4

\* The claim of a send is the only thing that serialises the turns of a session:
\* a second one is in flight only after the first is finished or broken.
THEOREM OneRunInFlight == Spec => []OneInFlight
<1>1. Init => OneInFlight
  BY DEF Init, OneInFlight, InFlight, NewRun
<1>2. IInv /\ OneInFlight /\ [Next]_adsVars => OneInFlight'
  BY OneInFlightStep
<1>3. QED
  BY InitInv, StepInv, <1>1, <1>2, PTL DEF Spec

-----------------------------------------------------------------------------
(***************************************************************************)
(* The transcript: where each run has its entries.                         *)
(***************************************************************************)

Entries == Msgs \X (Orders \cup {-1})
At(m, before) ==
    /\ Block(m) = (before + 1)..(before + Shown(m))
    /\ \A k \in Block(m) : chain[k] = <<m, k - before - 2>>

ChainTyped ==
    /\ run \in [Msgs -> Runs]
    /\ \A m \in Msgs : /\ run[m].tomb <= run[m].watermark
                       /\ run[m].status = "new" => run[m].watermark = -1
    /\ chain \in Seq(Entries)
ChainInv ==
    /\ ChainTyped /\ TranscriptInOrder /\ TurnsDoNotMix /\ CommittedTombstoneStands /\ OneInFlight

\* A buffer reaches some last order after w.
LEMMA PrefixEnds ==
    ASSUME NEW N \in Nat, NEW w \in (0..N) \cup {-1}, NEW B \in SUBSET (0..N)
    PROVE  \E v \in w..N : (\A k \in (w + 1)..v : k \in B) /\ v + 1 \notin B
<1>1. w \in Int /\ -1 <= w /\ w <= N
  OBVIOUS
<1>2. PICK T : T = {x \in Nat : x \in (w + 1)..(N + 1) /\ x \notin B}
  OBVIOUS
<1>3. N + 1 \in T
  BY <1>1, <1>2
<1>4. PICK x \in T : \A y \in T : x <= y
  BY <1>2, <1>3, LeastExists
<1>5. x - 1 \in w..N /\ x \notin B /\ x \in Nat
  BY <1>1, <1>2, <1>4
<1>6. ASSUME NEW k \in (w + 1)..(x - 1) PROVE k \in B
  BY <1>1, <1>2, <1>4, <1>5
<1>7. QED
  BY <1>5, <1>6

LEMMA ReachFacts ==
    ASSUME NEW w \in Orders \cup {-1}, NEW B \in SUBSET Orders
    PROVE  Reach(w, B) \in w..MaxOrder /\ \A k \in (w + 1)..Reach(w, B) : k \in B
  BY PrefixEnds, AdsAssumption DEF Reach, Orders

\* The candidate is a tombstone that the prefix covers.
LEMMA CandidateFacts ==
    ASSUME NEW m \in Msgs, ChainTyped, NEW v \in run[m].watermark..MaxOrder
    PROVE  Candidate(m, v) \in Orders \cup {-1} /\ Candidate(m, v) <= v
<1>1. /\ run[m].watermark \in Orders \cup {-1} /\ run[m].tomb \in Orders \cup {-1}
      /\ run[m].tomb <= run[m].watermark /\ MaxOrder \in Nat /\ Tombs \subseteq Orders
  BY AdsAssumption DEF ChainTyped, Runs, Orders
<1>2. PICK fresh : fresh = {k \in Tombs : run[m].watermark < k /\ k <= v}
  OBVIOUS
<1>3. v \in Int /\ Tombs \subseteq Nat /\ \A x \in Tombs : x <= MaxOrder
  <2>1. run[m].watermark \in Int
    BY <1>1 DEF Orders
  <2>2. v \in Int
    BY <1>1, <2>1
  <2>3. \A x \in Orders : x \in Nat /\ x <= MaxOrder
    BY <1>1 DEF Orders
  <2>4. QED
    BY <1>1, <2>2, <2>3
<1>4. CASE fresh = {}
  <2>1. Candidate(m, v) = run[m].tomb
    BY <1>2, <1>4 DEF Candidate
  <2>2. run[m].watermark <= v /\ run[m].watermark \in Int /\ run[m].tomb \in Int
    BY <1>1, <1>3 DEF Orders
  <2>3. QED
    BY <1>1, <1>3, <2>1, <2>2
<1>5. CASE fresh # {}
  <2>1. fresh \in SUBSET Nat /\ \A x \in fresh : x <= MaxOrder
    BY <1>2, <1>3
  <2>2. \E k \in fresh : \A j \in fresh : j <= k
    BY <1>1, <1>5, <2>1, GreatestExists
  <2>3. Candidate(m, v) = CHOOSE k \in fresh : \A j \in fresh : j <= k
    BY <1>2, <1>5 DEF Candidate
  <2>4. Candidate(m, v) \in fresh
    BY <2>2, <2>3
  <2>5. QED
    BY <1>1, <1>2, <2>4
<1>6. QED
  BY <1>4, <1>5

\* A block that is there stays where it is, while others come and go after it.
LEMMA BlockKept ==
    ASSUME NEW m \in Msgs, NEW before \in 0..Len(chain), At(m, before), ChainTyped, chain' \in Seq(Entries),
           Shown(m)' = Shown(m), before + Shown(m) <= Len(chain'), before <= Len(chain'),
           \A k \in DOMAIN chain' : k \in DOMAIN chain => chain'[k] = chain[k],
           \A k \in DOMAIN chain' : k \notin DOMAIN chain => chain'[k][1] # m
    PROVE  before \in 0..Len(chain') /\ At(m, before)'
<1>1. Len(chain) \in Nat /\ Len(chain') \in Nat /\ Shown(m) \in Nat
  BY DEF ChainTyped, Shown, Runs, Orders
<1>2. Block(m)' = (before + 1)..(before + Shown(m))
  <2>1. ASSUME NEW k \in Block(m)' PROVE k \in Block(m)
    BY <2>1 DEF Block
  <2>2. ASSUME NEW k \in (before + 1)..(before + Shown(m)) PROVE k \in Block(m)'
    <3>1. k \in DOMAIN chain' /\ k \in Block(m)
      BY <1>1, <2>2 DEF At
    <3>2. QED
      BY <3>1 DEF Block
  <2>3. QED
    BY <2>1, <2>2 DEF At
<1>3. \A k \in Block(m)' : chain'[k] = <<m, k - before - 2>>
  BY <1>1, <1>2 DEF At, Block
<1>4. QED
  BY <1>1, <1>2, <1>3 DEF At

\* The turn in flight is the last of the transcript.
LEMMA InFlightLast ==
    ASSUME ChainInv, NEW m \in Msgs, InFlight(m), NEW before \in 0..Len(chain), At(m, before)
    PROVE  before + run[m].watermark + 2 = Len(chain)
<1>1. Shown(m) = run[m].watermark + 2 /\ run[m].watermark \in Int /\ run[m].watermark >= -1
  BY DEF Shown, ChainInv, ChainTyped, Runs, Orders
<1>2. Len(chain) \in Nat /\ DOMAIN chain = 1..Len(chain)
  BY DEF ChainInv, ChainTyped
<1>3. before + 1 \in Block(m) /\ before + run[m].watermark + 2 \in Block(m)
  BY <1>1, <1>2 DEF At
<1>4. before + 1 \in DOMAIN chain /\ chain[before + 1][1] = m
  BY <1>3 DEF Block
<1>5. chain[Len(chain)][1] = m
  BY <1>4 DEF ChainInv, TurnsDoNotMix
<1>6. Len(chain) \in Block(m)
  BY <1>2, <1>4, <1>5 DEF Block
<1>7. Len(chain) <= before + run[m].watermark + 2
  BY <1>1, <1>2, <1>6 DEF At
<1>8. before + run[m].watermark + 2 <= Len(chain)
  BY <1>2, <1>3 DEF Block
<1>9. QED
  BY <1>1, <1>2, <1>7, <1>8

\* A step that moves no block.
LEMMA BlocksStand ==
    ASSUME ChainInv, chain' = chain, \A n \in Msgs : Shown(n)' = Shown(n) /\ (InFlight(n)' => InFlight(n))
    PROVE  TranscriptInOrder' /\ TurnsDoNotMix'
<1>1. TranscriptInOrder'
  BY DEF ChainInv, TranscriptInOrder, Block
<1>2. \A k \in DOMAIN chain : chain[k][1] \in Msgs
  BY DEF ChainInv, ChainTyped, Entries
<1>3. TurnsDoNotMix'
  BY <1>2 DEF ChainInv, TurnsDoNotMix
<1>4. QED
  BY <1>1, <1>3

LEMMA AcknowledgeChain ==
    ASSUME ChainInv, NEW m \in Msgs, Acknowledge(m)
    PROVE  ChainTyped' /\ TranscriptInOrder' /\ TurnsDoNotMix' /\ CommittedTombstoneStands'
<1>1. /\ run[m].status = "pending" /\ run' = [run EXCEPT ![m].status = "running"]
      /\ chain' = chain /\ committed' = committed
  BY DEF Acknowledge
<1>2. ChainTyped'
  BY <1>1 DEF ChainInv, ChainTyped, Runs, Statuses
<1>3. \A n \in Msgs : Shown(n)' = Shown(n) /\ (InFlight(n)' => InFlight(n))
  BY <1>1 DEF ChainInv, ChainTyped, Runs, Shown, InFlight
<1>4. CommittedTombstoneStands'
  BY <1>1 DEF ChainInv, ChainTyped, CommittedTombstoneStands, Runs
<1>5. QED
  BY <1>1, <1>2, <1>3, <1>4, BlocksStand

LEMMA SendChain ==
    ASSUME ChainInv, NEW m \in Msgs, Send(m)
    PROVE  ChainTyped' /\ TranscriptInOrder' /\ TurnsDoNotMix' /\ CommittedTombstoneStands'
<1>1. /\ run[m].status = "new" /\ \A n \in Msgs : ~InFlight(n)
      /\ run' = [run EXCEPT ![m].status = "pending"]
      /\ chain' = Append(chain, <<m, -1>>) /\ committed' = committed
  BY DEF Send, Unclaimed
<1>2. ChainTyped'
  <2>1. run' \in [Msgs -> Runs]
    BY <1>1 DEF ChainInv, ChainTyped, Runs, Statuses
  <2>2. <<m, -1>> \in Entries
    BY DEF Entries
  <2>3. chain' \in Seq(Entries)
    BY <1>1, <2>2 DEF ChainInv, ChainTyped
  <2>4. \A n \in Msgs : /\ run'[n].tomb = run[n].tomb /\ run'[n].watermark = run[n].watermark
                        /\ run'[n].status = "new" => run[n].status = "new"
    BY <1>1 DEF ChainInv, ChainTyped, Runs
  <2>5. QED
    BY <2>1, <2>3, <2>4 DEF ChainInv, ChainTyped
<1>3. /\ Len(chain) \in Nat /\ Len(chain') = Len(chain) + 1
      /\ DOMAIN chain = 1..Len(chain) /\ DOMAIN chain' = 1..(Len(chain) + 1)
      /\ chain'[Len(chain) + 1] = <<m, -1>>
      /\ \A k \in 1..Len(chain) : chain'[k] = chain[k]
  BY <1>1 DEF ChainInv, ChainTyped
<1>4. /\ Shown(m) = 0 /\ Shown(m)' = 1
      /\ \A n \in Msgs \ {m} : Shown(n)' = Shown(n) /\ ~InFlight(n)'
  BY <1>1 DEF ChainInv, ChainTyped, Runs, Shown, InFlight
<1>5. ASSUME NEW n \in Msgs
      PROVE  \E before \in 0..Len(chain') : At(n, before)'
  <2>1. PICK before \in 0..Len(chain) : At(n, before)
    BY DEF ChainInv, TranscriptInOrder, At
  <2>2. CASE n = m
    <3>1. Block(m) = {}
      BY <1>4, <2>1, <2>2 DEF At
    <3>2. Block(m)' = {Len(chain) + 1}
      BY <1>3, <3>1 DEF Block
    <3>3. PICK b \in Nat : b = Len(chain)
      BY <1>3
    <3>4. At(m, b)' /\ b \in 0..Len(chain')
      BY <1>3, <1>4, <3>2, <3>3 DEF At
    <3>5. QED
      BY <2>2, <3>4
  <2>3. CASE n # m
    <3>1. before + Shown(n) <= Len(chain)
      <4>1. Shown(n) \in Nat
        BY DEF ChainInv, ChainTyped, Shown, Runs, Orders
      <4>2. Shown(n) # 0 => before + Shown(n) \in Block(n)
        BY <1>3, <2>1, <4>1 DEF At
      <4>3. Shown(n) # 0 => before + Shown(n) \in DOMAIN chain
        BY <4>2 DEF Block
      <4>4. QED
        BY <1>3, <4>1, <4>3
    <3>2. Shown(n) \in Nat
      BY DEF ChainInv, ChainTyped, Shown, Runs, Orders
    <3>3. before + Shown(n) <= Len(chain') /\ before <= Len(chain')
      BY <1>3, <3>1, <3>2
    <3>4. \A k \in DOMAIN chain' : k \notin DOMAIN chain => chain'[k][1] # n
      BY <1>3, <2>3
    <3>5. before \in 0..Len(chain') /\ At(n, before)'
      BY <1>2, <1>3, <1>4, <2>1, <2>3, <3>3, <3>4, BlockKept DEF ChainInv, ChainTyped
    <3>6. QED
      BY <3>5
  <2>4. QED
    BY <2>2, <2>3
<1>6. TranscriptInOrder'
  BY <1>5 DEF TranscriptInOrder, At
<1>7. TurnsDoNotMix'
  <2>1. \A k \in DOMAIN chain' : chain'[k][1] \in Msgs
    BY <1>2 DEF ChainTyped, Entries
  <2>2. chain'[Len(chain')][1] = m
    BY <1>3
  <2>3. QED
    BY <1>4, <2>1, <2>2 DEF TurnsDoNotMix
<1>8. CommittedTombstoneStands'
  BY <1>1, <1>3 DEF ChainInv, ChainTyped, CommittedTombstoneStands, Runs
<1>9. QED
  BY <1>2, <1>6, <1>7, <1>8

LEMMA BreakChain ==
    ASSUME ChainInv, NEW m \in Msgs, InFlight(m), Break(m), committed' = committed
    PROVE  ChainTyped' /\ TranscriptInOrder' /\ TurnsDoNotMix' /\ CommittedTombstoneStands'
<1>1. /\ chain' = SubSeq(chain, 1, UserEntry(m) - 1)
      /\ run' = [run EXCEPT ![m] = [NewRun EXCEPT !.status = "broken"]]
  BY DEF Break, Breakable, Unwind
<1>2. PICK before \in 0..Len(chain) : At(m, before)
  BY DEF ChainInv, TranscriptInOrder, At
<1>3. /\ before + run[m].watermark + 2 = Len(chain)
      /\ Shown(m) = run[m].watermark + 2 /\ run[m].watermark \in Int /\ run[m].watermark >= -1
      /\ Len(chain) \in Nat /\ DOMAIN chain = 1..Len(chain)
  BY <1>2, InFlightLast DEF Shown, ChainInv, ChainTyped, Runs, Orders
<1>4. UserEntry(m) = before + 1
  <2>1. before + 1 \in DOMAIN chain /\ chain[before + 1] = <<m, -1>>
    BY <1>2, <1>3 DEF At, Block
  <2>2. ASSUME NEW k \in DOMAIN chain, chain[k] = <<m, -1>> PROVE k = before + 1
    <3>1. k \in Block(m)
      BY <2>2 DEF Block
    <3>2. k - before - 2 = -1 /\ k \in Int
      BY <1>2, <1>3, <2>2, <3>1 DEF At
    <3>3. QED
      BY <3>2
  <2>3. QED
    BY <2>1, <2>2 DEF UserEntry
<1>5. /\ chain' = SubSeq(chain, 1, before) /\ chain' \in Seq(Entries)
      /\ Len(chain') = before /\ DOMAIN chain' = 1..before
      /\ \A k \in 1..before : chain'[k] = chain[k]
  <2>1. chain' = SubSeq(chain, 1, before)
    BY <1>1, <1>4, <1>2
  <2>2. chain \in Seq(Entries) /\ before \in 0..Len(chain)
    BY <1>2 DEF ChainInv, ChainTyped
  <2>3. QED
    BY <2>1, <2>2
<1>6. run' \in [Msgs -> Runs] /\ run'[m].status = "broken" /\ run'[m].watermark = -1 /\ run'[m].tomb = -1
  <2>1. PICK r : r = [NewRun EXCEPT !.status = "broken"]
    OBVIOUS
  <2>2. r = [status |-> "broken", watermark |-> -1, last |-> -1, buffer |-> {}, tomb |-> -1]
    BY <2>1 DEF NewRun
  <2>3. r \in Runs
    BY <2>2, AdsAssumption DEF Runs, Statuses, Orders
  <2>4. run' = [run EXCEPT ![m] = r]
    BY <1>1, <2>1
  <2>5. QED
    BY <2>2, <2>3, <2>4 DEF ChainInv, ChainTyped
<1>7. \A n \in Msgs \ {m} : run'[n] = run[n]
  BY <1>1
<1>8. ChainTyped'
  BY <1>5, <1>6, <1>7 DEF ChainInv, ChainTyped
<1>9. Shown(m)' = 0 /\ \A n \in Msgs \ {m} : Shown(n)' = Shown(n) /\ ~InFlight(n)'
  BY <1>6, <1>7 DEF Shown, InFlight, ChainInv, OneInFlight
<1>10. ASSUME NEW n \in Msgs
       PROVE  \E b \in 0..Len(chain') : At(n, b)'
  <2>1. PICK b \in 0..Len(chain) : At(n, b)
    BY DEF ChainInv, TranscriptInOrder, At
  <2>2. Shown(n) \in Nat
    BY DEF ChainInv, ChainTyped, Shown, Runs, Orders
  <2>3. CASE Shown(n)' = 0
    <3>1. Block(n)' = {}
      <4>1. CASE n = m
        <5>1. ASSUME NEW k \in Block(m)' PROVE FALSE
          <6>1. k \in 1..before /\ k \in Block(m)
            BY <1>3, <1>5, <5>1 DEF Block
          <6>2. QED
            BY <1>2, <6>1 DEF At
        <5>2. QED
          BY <4>1, <5>1
      <4>2. CASE n # m
        <5>1. Block(n) = {}
          BY <1>9, <2>1, <2>3, <4>2 DEF At
        <5>2. QED
          BY <1>3, <1>5, <5>1 DEF Block
      <4>3. QED
        BY <4>1, <4>2
    <3>2. At(n, 0)' /\ 0 \in 0..Len(chain')
      BY <1>5, <2>3, <3>1 DEF At
    <3>3. QED
      BY <3>2
  <2>4. CASE Shown(n)' # 0
    <3>1. n # m /\ Shown(n)' = Shown(n)
      BY <1>9, <2>4
    <3>2. b + Shown(n) \in Block(n)
      BY <2>1, <2>2, <2>4, <3>1 DEF At
    <3>3. b + Shown(n) \in DOMAIN chain /\ b + Shown(n) \notin Block(m)
      BY <3>1, <3>2 DEF Block
    <3>4. b + Shown(n) <= before
      BY <1>2, <1>3, <2>1, <2>2, <3>3 DEF At
    <3>5. b <= Len(chain') /\ b + Shown(n) <= Len(chain')
      BY <1>5, <2>1, <2>2, <3>4
    <3>6. \A k \in DOMAIN chain' : k \in DOMAIN chain /\ chain'[k] = chain[k]
      BY <1>3, <1>5
    <3>7. b \in 0..Len(chain') /\ At(n, b)'
      BY <1>5, <2>1, <3>1, <3>5, <3>6, BlockKept DEF ChainInv
    <3>8. QED
      BY <3>7
  <2>5. QED
    BY <2>3, <2>4
<1>11. TranscriptInOrder'
  BY <1>10 DEF TranscriptInOrder, At
<1>12. TurnsDoNotMix'
  <2>1. \A n \in Msgs : ~InFlight(n)'
    BY <1>6, <1>9 DEF InFlight
  <2>2. \A k \in DOMAIN chain' : chain'[k][1] \in Msgs
    BY <1>8 DEF ChainTyped, Entries
  <2>3. QED
    BY <2>1, <2>2 DEF TurnsDoNotMix
<1>13. CommittedTombstoneStands'
  <2>1. SUFFICES ASSUME committed # None
                 PROVE  /\ run'[committed[1]].status = "finished"
                        /\ \E k \in DOMAIN chain' : chain'[k] = committed
    BY DEF CommittedTombstoneStands
  <2>2. PICK k \in DOMAIN chain : chain[k] = committed
    BY <2>1 DEF ChainInv, CommittedTombstoneStands
  <2>3. committed[1] \in Msgs /\ run[committed[1]].status = "finished"
    BY <2>1, <2>2 DEF ChainInv, ChainTyped, CommittedTombstoneStands, Entries
  <2>4. committed[1] # m
    BY <2>3 DEF InFlight
  <2>5. k \notin Block(m)
    BY <2>2, <2>4 DEF Block
  <2>6. k \in 1..before
    BY <1>2, <1>3, <2>2, <2>5 DEF At
  <2>7. QED
    BY <1>5, <1>7, <2>2, <2>3, <2>4, <2>6
<1>14. QED
  BY <1>8, <1>11, <1>12, <1>13

\* A run finishes with the candidate it covers.
LEMMA CommitStands ==
    ASSUME NEW m \in Msgs, NEW t \in Orders \cup {-1}, CommittedTombstoneStands, ChainTyped,
           CommitTomb(m, t), run' \in [Msgs -> Runs], run'[m].status = "finished",
           \A n \in Msgs : run[n].status = "finished" => run'[n].status = "finished",
           \A k \in DOMAIN chain : k \in DOMAIN chain' /\ chain'[k] = chain[k],
           t # -1 => \E k \in DOMAIN chain' : chain'[k] = <<m, t>>
    PROVE  CommittedTombstoneStands'
<1>1. CASE t = -1
  <2>1. committed' = committed
    BY <1>1 DEF CommitTomb
  <2>2. committed # None => committed[1] \in Msgs
    BY DEF CommittedTombstoneStands, ChainTyped, Entries
  <2>3. QED
    BY <2>1, <2>2 DEF CommittedTombstoneStands
<1>2. CASE t # -1
  <2>1. committed' = <<m, t>>
    BY <1>2 DEF CommitTomb
  <2>2. QED
    BY <1>2, <2>1 DEF CommittedTombstoneStands
<1>3. QED
  BY <1>1, <1>2

LEMMA PartialChain ==
    ASSUME ChainInv, NEW m \in Msgs, NEW o \in Orders, Partial(m, o)
    PROVE  ChainTyped' /\ TranscriptInOrder' /\ TurnsDoNotMix' /\ CommittedTombstoneStands'
<1>1. PICK B \in SUBSET Orders : B = run[m].buffer \cup {o}
  BY DEF ChainInv, ChainTyped, Runs
<1>2. PICK w \in Orders \cup {-1} : w = run[m].watermark
  BY DEF ChainInv, ChainTyped, Runs, Orders
<1>3. PICK v \in w..MaxOrder : v = Reach(w, B) /\ \A k \in (w + 1)..v : k \in B
  BY ReachFacts
<1>4. PICK t \in Orders \cup {-1} : t = Candidate(m, v) /\ t <= v
  BY <1>2, <1>3, CandidateFacts DEF ChainInv
<1>5. PICK done \in BOOLEAN : done = (v # w /\ Complete(run[m].last, v))
  BY DEF Complete
<1>6. PICK new : new = [status |-> IF done THEN "finished" ELSE run[m].status,
                        watermark |-> v, last |-> run[m].last, buffer |-> B, tomb |-> t]
  OBVIOUS
<1>7. /\ InFlight(m) /\ run' = [run EXCEPT ![m] = new]
      /\ chain' = chain \o Promoted(m, v)
      /\ IF done THEN CommitTomb(m, t) ELSE committed' = committed
  BY <1>1, <1>2, <1>3, <1>4, <1>5, <1>6 DEF Partial
<1>8. w \in Int /\ v \in Int /\ -1 <= w /\ w <= v /\ v <= MaxOrder /\ MaxOrder \in Nat
  BY <1>2, <1>3, AdsAssumption DEF Orders
<1>9. /\ new \in Runs /\ new.watermark = v /\ new.tomb = t /\ new.last = run[m].last
      /\ new.status = IF done THEN "finished" ELSE run[m].status
  <2>1. v \in -1..MaxOrder /\ run[m].status \in Statuses /\ run[m].last \in -1..MaxOrder
    BY <1>8 DEF ChainInv, ChainTyped, Runs
  <2>2. QED
    BY <1>1, <1>4, <1>6, <2>1 DEF Runs, Statuses
<1>10. run' \in [Msgs -> Runs] /\ run'[m] = new /\ \A n \in Msgs \ {m} : run'[n] = run[n]
  BY <1>7, <1>9 DEF ChainInv, ChainTyped
<1>11. PICK before \in 0..Len(chain) : At(m, before)
  BY DEF ChainInv, TranscriptInOrder, At
<1>12. before + w + 2 = Len(chain) /\ Len(chain) \in Nat /\ DOMAIN chain = 1..Len(chain) /\ before \in Nat
  BY <1>2, <1>7, <1>11, InFlightLast DEF ChainInv, ChainTyped
<1>13. PICK more : more = Promoted(m, v)
  OBVIOUS
<1>14. /\ more \in Seq(Entries) /\ Len(more) = v - w
       /\ \A k \in 1..(v - w) : more[k] = <<m, w + k>>
  <2>1. v - w \in Nat /\ more = [k \in 1..(v - w) |-> <<m, w + k>>]
    BY <1>2, <1>8, <1>13 DEF Promoted
  <2>2. ASSUME NEW k \in 1..(v - w) PROVE <<m, w + k>> \in Entries
    BY <1>8 DEF Entries, Orders
  <2>3. QED
    BY <2>1, <2>2
<1>15. /\ chain' \in Seq(Entries) /\ Len(chain') = before + v + 2 /\ DOMAIN chain' = 1..(before + v + 2)
       /\ \A k \in 1..Len(chain) : chain'[k] = chain[k]
       /\ \A k \in (Len(chain) + 1)..(before + v + 2) : chain'[k] = <<m, k - before - 2>>
  <2>1. chain \in Seq(Entries) /\ chain' = chain \o more
    BY <1>7, <1>13 DEF ChainInv, ChainTyped
  <2>2. /\ chain' \in Seq(Entries) /\ Len(chain') = Len(chain) + (v - w)
        /\ \A k \in 1..Len(chain) : chain'[k] = chain[k]
        /\ \A k \in 1..(Len(chain) + (v - w)) : k > Len(chain) => chain'[k] = more[k - Len(chain)]
    <3>1. chain' \in Seq(Entries) /\ Len(chain') = Len(chain) + Len(more)
      <4>1. chain \in Seq(Entries) /\ more \in Seq(Entries) /\ chain' = chain \o more
        BY <1>14, <2>1
      <4>2. chain \o more \in Seq(Entries)
        BY <4>1
      <4>3. Len(chain \o more) = Len(chain) + Len(more)
        BY <4>1
      <4>4. QED
        BY <4>1, <4>2, <4>3
    <3>2. \A k \in 1..(Len(chain) + Len(more)) :
              chain'[k] = IF k <= Len(chain) THEN chain[k] ELSE more[k - Len(chain)]
      BY <1>14, <2>1
    <3>3. v - w \in Nat /\ Len(more) = v - w
      BY <1>8, <1>14
    <3>4. QED
      BY <1>12, <3>1, <3>2, <3>3
  <2>3. Len(chain) + (v - w) = before + v + 2
    BY <1>8, <1>12
  <2>4. ASSUME NEW k \in (Len(chain) + 1)..(before + v + 2) PROVE chain'[k] = <<m, k - before - 2>>
    <3>1. PICK i : i = k - Len(chain)
      OBVIOUS
    <3>2. i \in 1..(v - w) /\ w + i = k - before - 2 /\ k > Len(chain) /\ k \in 1..(Len(chain) + (v - w))
      BY <1>8, <1>12, <3>1
    <3>3. QED
      BY <1>14, <2>2, <3>1, <3>2
  <2>5. QED
    BY <2>2, <2>3, <2>4
<1>16. ChainTyped'
  <2>1. new.status = "new" => FALSE
    BY <1>7, <1>9 DEF InFlight
  <2>2. QED
    BY <1>4, <1>9, <1>10, <1>15, <2>1 DEF ChainInv, ChainTyped
<1>17. /\ Shown(m)' = v + 2 /\ Shown(m) = w + 2
       /\ \A n \in Msgs \ {m} : Shown(n)' = Shown(n) /\ ~InFlight(n)'
  BY <1>2, <1>7, <1>9, <1>10 DEF Shown, InFlight, ChainInv, OneInFlight
<1>18. ASSUME NEW n \in Msgs
       PROVE  \E b \in 0..Len(chain') : At(n, b)'
  <2>1. CASE n = m
    <3>1. ASSUME NEW k \in (before + 1)..(before + v + 2)
          PROVE  chain'[k] = <<m, k - before - 2>>
      <4>1. CASE k <= Len(chain)
        <5>1. k \in Block(m)
          BY <1>8, <1>11, <1>12, <1>17, <3>1, <4>1 DEF At
        <5>2. chain[k] = <<m, k - before - 2>>
          BY <1>11, <5>1 DEF At
        <5>3. k \in 1..Len(chain)
          BY <1>12, <3>1, <4>1
        <5>4. QED
          BY <1>15, <5>2, <5>3
      <4>2. CASE k > Len(chain)
        BY <1>8, <1>12, <1>15, <3>1, <4>2
      <4>3. QED
        BY <1>8, <1>12, <3>1, <4>1, <4>2
    <3>2. Block(m)' = (before + 1)..(before + v + 2)
      <4>1. ASSUME NEW k \in Block(m)' PROVE k \in (before + 1)..(before + v + 2)
        <5>1. k \in 1..(before + v + 2) /\ chain'[k][1] = m
          BY <1>15, <4>1 DEF Block
        <5>2. CASE k <= Len(chain)
          <6>1. k \in Block(m)
            BY <1>12, <1>15, <5>1, <5>2 DEF Block
          <6>2. QED
            BY <1>8, <1>11, <1>12, <1>17, <5>1, <6>1 DEF At
        <5>3. QED
          BY <1>8, <1>12, <5>1, <5>2
      <4>2. ASSUME NEW k \in (before + 1)..(before + v + 2) PROVE k \in Block(m)'
        <5>1. k \in DOMAIN chain'
          BY <1>8, <1>12, <1>15, <4>2
        <5>2. chain'[k][1] = m
          BY <3>1, <4>2
        <5>3. QED
          BY <5>1, <5>2 DEF Block
      <4>3. QED
        BY <4>1, <4>2
    <3>3. before \in 0..Len(chain') /\ before + Shown(m)' = before + v + 2
      BY <1>8, <1>12, <1>15, <1>17
    <3>4. At(m, before)'
      BY <3>1, <3>2, <3>3 DEF At
    <3>5. QED
      BY <2>1, <3>3, <3>4
  <2>2. CASE n # m
    <3>1. PICK b \in 0..Len(chain) : At(n, b)
      BY DEF ChainInv, TranscriptInOrder, At
    <3>2. Shown(n) \in Nat
      BY DEF ChainInv, ChainTyped, Shown, Runs, Orders
    <3>3. Shown(n) # 0 => b + Shown(n) \in DOMAIN chain
      <4>1. Shown(n) # 0 => b + Shown(n) \in Block(n)
        BY <3>1, <3>2 DEF At
      <4>2. QED
        BY <4>1 DEF Block
    <3>4. b + Shown(n) <= Len(chain') /\ b <= Len(chain')
      BY <1>8, <1>12, <1>15, <3>1, <3>2, <3>3
    <3>5. \A k \in DOMAIN chain' : k \in DOMAIN chain => chain'[k] = chain[k]
      BY <1>12, <1>15
    <3>6. \A k \in DOMAIN chain' : k \notin DOMAIN chain => chain'[k][1] # n
      <4>1. SUFFICES ASSUME NEW k \in DOMAIN chain', k \notin DOMAIN chain
                     PROVE  chain'[k][1] # n
        OBVIOUS
      <4>2. k \in (Len(chain) + 1)..(before + v + 2)
        BY <1>8, <1>12, <1>15, <4>1
      <4>3. QED
        BY <1>15, <2>2, <4>2
    <3>7. b \in 0..Len(chain') /\ At(n, b)'
      BY <1>15, <1>17, <2>2, <3>1, <3>4, <3>5, <3>6, BlockKept DEF ChainInv
    <3>8. QED
      BY <3>7
  <2>3. QED
    BY <2>1, <2>2
<1>19. TranscriptInOrder'
  BY <1>18 DEF TranscriptInOrder, At
<1>20. TurnsDoNotMix'
  <2>1. chain'[Len(chain')][1] = m
    <3>1. v # w => before + v + 2 \in (Len(chain) + 1)..(before + v + 2)
      BY <1>8, <1>12
    <3>2. v # w => chain'[before + v + 2] = <<m, before + v + 2 - before - 2>>
      BY <1>15, <3>1
    <3>3. v = w => before + w + 2 \in Block(m)
      BY <1>8, <1>11, <1>12, <1>17 DEF At
    <3>4. v = w => chain'[before + v + 2][1] = m
      BY <1>8, <1>12, <1>15, <3>3 DEF Block
    <3>5. QED
      BY <1>15, <3>2, <3>4
  <2>2. \A k \in DOMAIN chain' : chain'[k][1] \in Msgs
    BY <1>16 DEF ChainTyped, Entries
  <2>3. QED
    BY <1>17, <2>1, <2>2 DEF TurnsDoNotMix
<1>21. CommittedTombstoneStands'
  <2>1. CASE done
    <3>1. \A n \in Msgs : run[n].status = "finished" => run'[n].status = "finished"
      BY <1>9, <1>10, <2>1
    <3>2. t # -1 => \E k \in DOMAIN chain' : chain'[k] = <<m, t>>
      <4>1. SUFFICES ASSUME t # -1 PROVE \E k \in DOMAIN chain' : chain'[k] = <<m, t>>
        OBVIOUS
      <4>2. PICK b \in 0..Len(chain') : At(m, b)'
        BY <1>18
      <4>3. t \in Int /\ 0 <= t /\ t <= v /\ b \in Nat
        BY <1>4, <1>15, <1>8, <4>1 DEF Orders
      <4>4. b + t + 2 \in Block(m)'
        BY <1>8, <1>17, <4>2, <4>3 DEF At
      <4>5. chain'[b + t + 2] = <<m, t>>
        <5>1. PICK k : k = b + t + 2
          OBVIOUS
        <5>2. k \in Block(m)'
          BY <4>4, <5>1
        <5>3. k - b - 2 = t
          BY <4>3, <5>1
        <5>4. chain'[k] = <<m, k - b - 2>>
          BY <4>2, <5>2 DEF At
        <5>5. QED
          BY <5>1, <5>3, <5>4
      <4>6. b + t + 2 \in DOMAIN chain'
        BY <4>4 DEF Block
      <4>7. QED
        BY <4>5, <4>6
    <3>3. run'[m].status = "finished"
      BY <1>9, <1>10, <2>1
    <3>4. \A k \in DOMAIN chain : k \in DOMAIN chain' /\ chain'[k] = chain[k]
      BY <1>8, <1>12, <1>15
    <3>5. QED
      BY <1>7, <1>10, <2>1, <3>1, <3>2, <3>3, <3>4, CommitStands DEF ChainInv
  <2>2. CASE ~done
    <3>1. committed' = committed
      BY <1>7, <2>2
    <3>2. \A n \in Msgs : run[n].status = "finished" => run'[n].status = "finished"
      BY <1>7, <1>10 DEF InFlight
    <3>3. \A k \in DOMAIN chain : k \in DOMAIN chain' /\ chain'[k] = chain[k]
      BY <1>8, <1>12, <1>15
    <3>4. committed # None => committed[1] \in Msgs
      BY DEF ChainInv, CommittedTombstoneStands, ChainTyped, Entries
    <3>5. QED
      BY <3>1, <3>2, <3>3, <3>4 DEF ChainInv, CommittedTombstoneStands
  <2>3. QED
    BY <2>1, <2>2
<1>22. QED
  BY <1>16, <1>19, <1>20, <1>21

LEMMA FinishChain ==
    ASSUME ChainInv, NEW m \in Msgs, NEW l \in -1..MaxOrder, Finish(m, l), ~Break(m)
    PROVE  ChainTyped' /\ TranscriptInOrder' /\ TurnsDoNotMix' /\ CommittedTombstoneStands'
<1>1. PICK last \in -1..MaxOrder : last = IF run[m].last = -1 THEN l ELSE run[m].last
  BY DEF ChainInv, ChainTyped, Runs
<1>2. PICK done \in BOOLEAN : done = Complete(last, run[m].watermark)
  BY DEF Complete
<1>3. PICK new : new = [[run[m] EXCEPT !.last = last] EXCEPT !.status = IF done THEN "finished" ELSE "finishing"]
  OBVIOUS
<1>4. /\ InFlight(m) /\ chain' = chain
      /\ run' = [run EXCEPT ![m].last = last, ![m].status = IF done THEN "finished" ELSE "finishing"]
      /\ IF done THEN CommitTomb(m, run[m].tomb) ELSE committed' = committed
  BY <1>1, <1>2 DEF Finish
<1>5. /\ new \in Runs /\ new.watermark = run[m].watermark /\ new.tomb = run[m].tomb
      /\ new.status = IF done THEN "finished" ELSE "finishing"
  BY <1>3 DEF ChainInv, ChainTyped, Runs, Statuses
<1>6. run' \in [Msgs -> Runs] /\ run'[m] = new /\ \A n \in Msgs \ {m} : run'[n] = run[n]
  <2>1. run' = [run EXCEPT ![m] = new]
    BY <1>3, <1>4 DEF ChainInv, ChainTyped, Runs
  <2>2. QED
    BY <1>5, <2>1 DEF ChainInv, ChainTyped
<1>7. ChainTyped'
  BY <1>4, <1>5, <1>6 DEF ChainInv, ChainTyped
<1>8. \A n \in Msgs : Shown(n)' = Shown(n) /\ (InFlight(n)' => InFlight(n))
  BY <1>4, <1>5, <1>6 DEF Shown, InFlight
<1>9. CommittedTombstoneStands'
  <2>1. \A n \in Msgs : run[n].status = "finished" => run'[n].status = "finished"
    BY <1>4, <1>6 DEF InFlight
  <2>2. PICK t \in Orders \cup {-1} : t = run[m].tomb /\ t <= run[m].watermark
    BY DEF ChainInv, ChainTyped, Runs
  <2>3. CASE done
    <3>1. run'[m].status = "finished"
      BY <1>5, <1>6, <2>3
    <3>2. t # -1 => \E k \in DOMAIN chain' : chain'[k] = <<m, t>>
      <4>1. SUFFICES ASSUME t # -1 PROVE \E k \in DOMAIN chain : chain[k] = <<m, t>>
        BY <1>4
      <4>2. PICK b \in 0..Len(chain) : At(m, b)
        BY DEF ChainInv, TranscriptInOrder, At
      <4>3. /\ t \in Int /\ 0 <= t /\ t <= run[m].watermark /\ b \in Nat
            /\ run[m].watermark \in Int /\ Shown(m) = run[m].watermark + 2
        BY <1>4, <2>2, <4>1 DEF Orders, ChainInv, ChainTyped, Runs, Shown
      <4>4. PICK k \in Int : k = b + t + 2 /\ k - b - 2 = t /\ k \in (b + 1)..(b + Shown(m))
        BY <4>3
      <4>5. k \in Block(m)
        BY <4>2, <4>4 DEF At
      <4>6. chain[k] = <<m, t>> /\ k \in DOMAIN chain
        BY <4>2, <4>4, <4>5 DEF At, Block
      <4>7. QED
        BY <4>6
    <3>3. QED
      BY <1>4, <1>6, <2>1, <2>2, <2>3, <3>1, <3>2, CommitStands DEF ChainInv
  <2>4. CASE ~done
    <3>1. committed # None => committed[1] \in Msgs
      BY DEF ChainInv, CommittedTombstoneStands, ChainTyped, Entries
    <3>2. QED
      BY <1>4, <2>1, <2>4, <3>1 DEF ChainInv, CommittedTombstoneStands
  <2>5. QED
    BY <2>3, <2>4
<1>10. QED
  BY <1>4, <1>7, <1>8, <1>9, BlocksStand

\* Every step of ads keeps the transcript in order.
LEMMA ChainStep == IInv /\ ChainInv /\ [Next]_adsVars => ChainInv'
<1> SUFFICES ASSUME IInv, ChainInv, [Next]_adsVars PROVE ChainInv'
  OBVIOUS
<1>1. OneInFlight'
  BY OneInFlightStep DEF ChainInv
<1> DEFINE Goal == ChainTyped' /\ TranscriptInOrder' /\ TurnsDoNotMix' /\ CommittedTombstoneStands'
<1>2. CASE UNCHANGED <<run, chain, committed>>
  <2>1. ChainTyped'
    BY <1>2 DEF ChainInv, ChainTyped
  <2>2. TranscriptInOrder'
    BY <1>2 DEF ChainInv, TranscriptInOrder, Block, Shown, InFlight
  <2>3. TurnsDoNotMix'
    BY <1>2 DEF ChainInv, TurnsDoNotMix, InFlight
  <2>4. CommittedTombstoneStands'
    BY <1>2 DEF ChainInv, CommittedTombstoneStands
  <2>5. QED
    BY <1>1, <2>1, <2>2, <2>3, <2>4 DEF ChainInv
<1>3. ASSUME NEW m \in Msgs, Break(m), committed' = committed PROVE Goal
  <2>1. CASE InFlight(m)
    BY <1>3, <2>1, BreakChain
  <2>2. CASE ~InFlight(m)
    <3>1. UNCHANGED <<run, chain, committed>>
      BY <1>3, <2>2 DEF Break, Breakable
    <3>2. QED
      BY <1>2, <3>1 DEF ChainInv
  <2>3. QED
    BY <2>1, <2>2
<1>4. ASSUME NEW m \in Msgs, Send(m) PROVE Goal
  BY <1>4, SendChain
<1>5. ASSUME NEW m \in Msgs, Acknowledge(m) PROVE Goal
  BY <1>5, AcknowledgeChain
<1>6. ASSUME NEW m \in Msgs, NEW o \in Orders, Partial(m, o) PROVE Goal
  BY <1>6, PartialChain
<1>7. ASSUME NEW m \in Msgs, NEW l \in -1..MaxOrder, Finish(m, l) PROVE Goal
  <2>1. CASE Break(m) /\ committed' = committed
    BY <1>3, <2>1
  <2>2. CASE ~Break(m)
    BY <1>7, <2>2, FinishChain
  <2>3. CASE Break(m) /\ committed' # committed
    <3>1. chain' = chain
      BY <1>7, <2>3 DEF Finish
    <3>2. run'[m].status = "broken" /\ InFlight(m)
      BY <1>7, <2>3 DEF Finish, Break, Breakable, Unwind, NewRun, ChainInv, ChainTyped
    <3>3. run'[m].status # "broken"
      BY <1>7, <2>3 DEF Finish, ChainInv, ChainTyped, Runs
    <3>4. QED
      BY <3>2, <3>3
  <2>4. QED
    BY <2>1, <2>2, <2>3
<1>8. ASSUME NEW m \in Msgs, Error(m) PROVE Goal
  BY <1>3, <1>8 DEF Error
<1>9. ASSUME NEW m \in Msgs, WatchUnwind(m) PROVE Goal
  BY <1>3, <1>9 DEF WatchUnwind
<1>10. ASSUME NEW m \in Msgs,
              Ping(m) \/ SendProduce(m) \/ AckProduce(m) \/ TimePasses(m) \/ WatchDue(m) \/ WatchAbort(m)
       PROVE  UNCHANGED <<run, chain, committed>>
  BY <1>10 DEF Ping, SendProduce, AckProduce, TimePasses, WatchDue, WatchAbort, rowVars
<1>11. CASE AdsRestart
  BY <1>2, <1>11 DEF AdsRestart, rowVars
<1>12. CASE UNCHANGED adsVars
  BY <1>2, <1>12 DEF adsVars, rowVars
<1>13. ASSUME Goal PROVE ChainInv'
  BY <1>1, <1>13 DEF ChainInv
<1>14. ASSUME NEW m \in Msgs, OutputStep(m) PROVE ChainInv'
  BY <1>2, <1>5, <1>6, <1>7, <1>8, <1>10, <1>13, <1>14 DEF OutputStep
<1>15. ASSUME NEW m \in Msgs, LocalStep(m) PROVE ChainInv'
  BY <1>2, <1>4, <1>9, <1>10, <1>13, <1>15 DEF LocalStep
<1>16. QED
  BY <1>11, <1>12, <1>14, <1>15 DEF Next

LEMMA ChainInit == Init => ChainInv
<1> SUFFICES ASSUME Init PROVE ChainInv
  OBVIOUS
<1>1. /\ \A m \in Msgs : run[m] = NewRun
      /\ run = [m \in Msgs |-> NewRun] /\ chain = <<>> /\ committed = None
  BY DEF Init
<1>2. NewRun \in Runs /\ NewRun.tomb = -1 /\ NewRun.watermark = -1 /\ NewRun.status = "new"
  BY AdsAssumption DEF NewRun, Runs, Statuses, Orders
<1>3. ChainTyped
  BY <1>1, <1>2 DEF ChainTyped
<1>4. \A m \in Msgs : Shown(m) = 0 /\ ~InFlight(m) /\ Block(m) = {}
  BY <1>1, <1>2 DEF Shown, InFlight, Block
<1>5. TranscriptInOrder
  <2>1. SUFFICES ASSUME NEW m \in Msgs
                 PROVE  \E before \in 0..Len(chain) : At(m, before)
    BY DEF TranscriptInOrder, At
  <2>2. Len(chain) = 0 /\ 0 \in 0..Len(chain)
    BY <1>1
  <2>3. (0 + 1)..(0 + Shown(m)) = {}
    BY <1>4
  <2>4. At(m, 0)
    BY <1>4, <2>3 DEF At
  <2>5. QED
    BY <2>2, <2>4
<1>6. TurnsDoNotMix /\ CommittedTombstoneStands /\ OneInFlight
  BY <1>1, <1>4 DEF TurnsDoNotMix, CommittedTombstoneStands, OneInFlight
<1>7. QED
  BY <1>3, <1>5, <1>6 DEF ChainInv

\* The transcript of a session is a sequence of whole turns in the order they were sent,
\* each with its deltas in order and once, however outputs, errors and the watchdog
\* interleave (EngineOutputService, SendService); the tombstone the next history is cut
\* at is one of its entries.
THEOREM TranscriptStaysSound == AnySpec => []TranscriptSound
<1>1. AnyInit => IInv /\ ChainInv
  BY InitInv, ChainInit DEF AnyInit
<1>2. [AnyNext]_vars => [Next]_adsVars
  BY DEF AnyNext, AdsMoves, ChatMoves, BrowserMoves, vars
<1>3. IInv /\ ChainInv /\ [AnyNext]_vars => IInv' /\ ChainInv'
  BY <1>2, StepInv, ChainStep
<1>4. ChainInv => TranscriptSound
  BY DEF ChainInv, TranscriptSound
<1>5. QED
  BY <1>1, <1>3, <1>4, PTL DEF AnySpec

-----------------------------------------------------------------------------
(***************************************************************************)
(* A turn over the topics.  The model of a message runs once: it starts on *)
(* the one ack-response, which is produced for the one change of the run   *)
(* from pending to running.  So the orders of one run of the model are all *)
(* there is of this message in the output and in the buffer.               *)
(***************************************************************************)
Places == {"none", "waiting", "model", "done", "failed", "release", "release-failed", "error", "ended"}
\* Any other record may be appended twice, by a producer that is not idempotent.
AckResponseAppearsOnce == "ack-response" \notin Repeated

TurnTyped ==
    /\ chatRun \in [Msgs -> Chat!Ads!Runs]
    /\ chatToEngine \subseteq [type : {"request", "ack-response", "abort"}, msg : Msgs]
    /\ out \subseteq Chat!Eng!Outputs
    /\ task \in [Msgs -> Places]
    /\ order \in [Msgs -> 0..(ChatOrder + 1)]
    /\ announced \in [Msgs -> SUBSET (0..ChatOrder)]

\* The engine: its row names the run under way, and _runs a run that is not past its end.
RowTyped == active \in Msgs \cup {None} /\ owner \in Msgs \cup {None} /\ task \in [Msgs -> Places]
RowInv ==
    /\ RowTyped
    /\ Chat!Eng!RowMatchesRun
    /\ owner # None => task[owner] \in {"waiting", "model", "done", "failed"}

\* The acknowledgement of the run is on its way to the model, or may be.
Unacknowledged(m) == chatRun[m].status \in {"new", "pending"}
Answer(m) == Chat!Ads!Control("ack-response", m)
AckToCome(m) ==
    \/ Unacknowledged(m) \/ m \in chatAcking \/ Answer(m) \in chatToEngine
    \/ m \in event /\ task[m] = "waiting"

\* It is in one place only.
AckOnce(m) ==
    /\ m \in chatAcking => ~Unacknowledged(m) /\ Answer(m) \notin chatToEngine
    /\ Answer(m) \in chatToEngine => ~Unacknowledged(m)
    /\ m \in event => ~Unacknowledged(m) /\ m \notin chatAcking /\ Answer(m) \notin chatToEngine

\* What there is of the message is below o.
SentBelow(m, o) == \A x \in out : x.type = "partial" /\ x.msg = m => x.order < o
HeldBelow(m, o) == \A k \in chatRun[m].buffer : k < o

BeforeModel(m) == AckToCome(m) => announced[m] = {} /\ SentBelow(m, 0) /\ HeldBelow(m, 0)
DuringModel(m) ==
    task[m] = "model" =>
        ~AckToCome(m) /\ announced[m] = {} /\ SentBelow(m, order[m]) /\ HeldBelow(m, order[m])
AfterModel(m) ==
    \A l \in announced[m] : announced[m] = {l} /\ SentBelow(m, l + 1) /\ HeldBelow(m, l + 1)
LastAnnounced(m) ==
    /\ chatRun[m].last # -1 => chatRun[m].last \in announced[m]
    /\ \A x \in out : x.type = "finish" /\ x.msg = m => x.order \in announced[m]
PrefixHeld(m) ==
    /\ chatRun[m].watermark = -1 \/ chatRun[m].watermark \in chatRun[m].buffer
    /\ chatRun[m].status = "finished" => chatRun[m].last # -1 /\ chatRun[m].watermark >= chatRun[m].last
TurnInv(m) ==
    /\ AckOnce(m) /\ BeforeModel(m) /\ DuringModel(m) /\ AfterModel(m)
    /\ LastAnnounced(m) /\ PrefixHeld(m)
ChatInv == TurnTyped /\ RowInv /\ \A m \in Msgs : TurnInv(m)

\* What a step of ads may do to the row of a run,
RowEffect(m) ==
    /\ chatRun'[m] \in Chat!Ads!Runs
    /\ Unacknowledged(m)' => Unacknowledged(m)
    /\ \A k \in chatRun'[m].buffer :
           \/ k \in chatRun[m].buffer
           \/ \E x \in out : x.type = "partial" /\ x.msg = m /\ x.order = k
    /\ \/ chatRun'[m].last \in {-1, chatRun[m].last}
       \/ \E x \in out : x.type = "finish" /\ x.msg = m /\ x.order = chatRun'[m].last
    /\ PrefixHeld(m)'

\* and to its acknowledgement,
AckEffect(m) ==
    /\ m \in chatAcking' => m \in chatAcking \/ (Unacknowledged(m) /\ ~Unacknowledged(m)')
    /\ Answer(m) \in chatToEngine' => Answer(m) \in chatToEngine \/ (m \in chatAcking /\ m \notin chatAcking')
AdsEffect(m) == RowEffect(m) /\ AckEffect(m)

\* and a step of the engine that neither starts the model nor publishes.
EngineEffect(m) ==
    /\ m \in event' => \/ m \in event /\ (task'[m] = "waiting" => task[m] = "waiting")
                       \/ Answer(m) \in chatToEngine /\ Answer(m) \notin chatToEngine'
    /\ task'[m] = "model" => task[m] = "model" /\ order'[m] = order[m]
    /\ \A x \in out' : x.type \in {"partial", "finish"} /\ x.msg = m => x \in out

LEMMA AdsSide ==
    ASSUME NEW m \in Msgs, TurnInv(m), AdsEffect(m), out' \subseteq out,
           event' = event, task' = task, order' = order, announced' = announced
    PROVE  TurnInv(m)'
<1>1. AckToCome(m)' => AckToCome(m)
  BY DEF AdsEffect, RowEffect, AckEffect, AckToCome
<1>2. AckOnce(m)'
  BY DEF TurnInv, AckOnce, AdsEffect, RowEffect, AckEffect
<1>3. ASSUME NEW o, SentBelow(m, o) PROVE SentBelow(m, o)'
  BY <1>3 DEF SentBelow
<1>4. ASSUME NEW o, SentBelow(m, o), HeldBelow(m, o) PROVE HeldBelow(m, o)'
  BY <1>4 DEF SentBelow, HeldBelow, AdsEffect, RowEffect, RowEffect, AckEffect
<1>5. BeforeModel(m)'
  BY <1>1, <1>3, <1>4 DEF TurnInv, BeforeModel
<1>6. DuringModel(m)'
  <2>1. SUFFICES ASSUME task[m] = "model" PROVE DuringModel(m)'
    BY DEF DuringModel
  <2>2. PICK o : o = order[m]
    OBVIOUS
  <2>3. SentBelow(m, o)' /\ HeldBelow(m, o)'
    BY <1>3, <1>4, <2>1, <2>2 DEF TurnInv, DuringModel
  <2>4. SentBelow(m, order[m])' /\ HeldBelow(m, order[m])'
    BY <2>2, <2>3 DEF SentBelow, HeldBelow
  <2>5. QED
    BY <1>1, <2>1, <2>4 DEF TurnInv, DuringModel
<1>7. AfterModel(m)'
  BY <1>3, <1>4 DEF TurnInv, AfterModel
<1>8. LastAnnounced(m)'
  BY DEF TurnInv, LastAnnounced, AdsEffect, RowEffect, AckEffect
<1>9. QED
  BY <1>2, <1>5, <1>6, <1>7, <1>8 DEF TurnInv, AdsEffect, RowEffect, AckEffect

LEMMA EngineSide ==
    ASSUME NEW m \in Msgs, TurnInv(m), EngineEffect(m), chatToEngine' \subseteq chatToEngine,
           chatRun' = chatRun, chatAcking' = chatAcking, announced'[m] = announced[m]
    PROVE  TurnInv(m)'
<1>1. AckToCome(m)' => AckToCome(m)
  BY DEF EngineEffect, AckToCome, Unacknowledged
<1>2. AckOnce(m)'
  BY DEF TurnInv, AckOnce, EngineEffect, Unacknowledged
<1>3. ASSUME NEW o, SentBelow(m, o) PROVE SentBelow(m, o)'
  BY <1>3 DEF SentBelow, EngineEffect
<1>4. ASSUME NEW o, HeldBelow(m, o) PROVE HeldBelow(m, o)'
  BY <1>4 DEF HeldBelow
<1>5. BeforeModel(m)'
  BY <1>1, <1>3, <1>4 DEF TurnInv, BeforeModel
<1>6. DuringModel(m)'
  <2>1. SUFFICES ASSUME task'[m] = "model" PROVE DuringModel(m)'
    BY DEF DuringModel
  <2>2. task[m] = "model" /\ order'[m] = order[m]
    BY <2>1 DEF EngineEffect
  <2>3. PICK o : o = order[m]
    OBVIOUS
  <2>4. SentBelow(m, o)' /\ HeldBelow(m, o)'
    BY <1>3, <1>4, <2>2, <2>3 DEF TurnInv, DuringModel
  <2>5. SentBelow(m, order[m])' /\ HeldBelow(m, order[m])'
    BY <2>2, <2>3, <2>4 DEF SentBelow, HeldBelow
  <2>6. QED
    BY <1>1, <2>1, <2>2, <2>5 DEF TurnInv, DuringModel
<1>7. AfterModel(m)'
  BY <1>3, <1>4 DEF TurnInv, AfterModel
<1>8. LastAnnounced(m)' /\ PrefixHeld(m)'
  BY DEF TurnInv, LastAnnounced, PrefixHeld, EngineEffect
<1>9. QED
  BY <1>2, <1>5, <1>6, <1>7, <1>8 DEF TurnInv

\* Before the model starts there is nothing of the message anywhere.
LEMMA NothingYet ==
    ASSUME NEW m \in Msgs, TurnTyped, SentBelow(m, 0), HeldBelow(m, 0), NEW o
    PROVE  SentBelow(m, o) /\ HeldBelow(m, o)
<1>1. ASSUME NEW x \in out PROVE x.order \in 0..ChatOrder
  BY <1>1 DEF TurnTyped, Chat!Eng!Outputs
<1>2. ASSUME NEW k \in chatRun[m].buffer PROVE k \in 0..ChatOrder
  BY <1>2 DEF TurnTyped, Chat!Ads!Runs, Chat!Ads!Orders
<1>3. \A k \in 0..ChatOrder : ~(k < 0)
  BY ChatAssumption
<1>4. QED
  BY <1>1, <1>2, <1>3 DEF SentBelow, HeldBelow

\* The model starts: the acknowledgement is used up.
LEMMA ModelStarts ==
    ASSUME NEW m \in Msgs, TurnTyped, TurnInv(m), task[m] = "waiting", m \in event, task'[m] = "model",
           event' = event, order' = order, out' = out, announced' = announced,
           chatToEngine' = chatToEngine, chatRun' = chatRun, chatAcking' = chatAcking
    PROVE  TurnInv(m)'
<1>1. AckToCome(m) /\ ~AckToCome(m)'
  BY DEF TurnInv, AckOnce, AckToCome, Unacknowledged
<1>2. AckOnce(m)'
  BY DEF TurnInv, AckOnce, Unacknowledged
<1>3. announced[m] = {} /\ SentBelow(m, order[m]) /\ HeldBelow(m, order[m])
  BY <1>1, NothingYet DEF TurnInv, BeforeModel
<1>4. DuringModel(m)'
  BY <1>1, <1>3 DEF DuringModel, SentBelow, HeldBelow
<1>5. BeforeModel(m)' /\ AfterModel(m)'
  BY <1>1, <1>3 DEF BeforeModel, AfterModel
<1>6. LastAnnounced(m)' /\ PrefixHeld(m)'
  BY DEF TurnInv, LastAnnounced, PrefixHeld
<1>7. QED
  BY <1>2, <1>4, <1>5, <1>6 DEF TurnInv

\* A delta goes out under the next order.
LEMMA ModelEmits ==
    ASSUME NEW m \in Msgs, TurnTyped, TurnInv(m), task[m] = "model", task' = task,
           event' = event, order'[m] = order[m] + 1, announced' = announced,
           out' = out \cup {Chat!Eng!Output("partial", m, order[m])},
           chatToEngine' = chatToEngine, chatRun' = chatRun, chatAcking' = chatAcking
    PROVE  TurnInv(m)'
<1>1. ~AckToCome(m) /\ ~AckToCome(m)'
  BY DEF TurnInv, DuringModel, AckToCome, Unacknowledged
<1>2. AckOnce(m)'
  BY DEF TurnInv, AckOnce, Unacknowledged
<1>3. announced[m] = {} /\ SentBelow(m, order[m]) /\ HeldBelow(m, order[m])
  BY DEF TurnInv, DuringModel
<1>4. order[m] \in Nat
  BY ChatAssumption DEF TurnTyped
<1>5. SentBelow(m, order[m])'
  <2>1. SUFFICES ASSUME NEW x \in out', x.type = "partial", x.msg = m PROVE x.order < order[m] + 1
    BY DEF SentBelow
  <2>2. CASE x \in out
    <3>1. x.order < order[m] /\ x.order \in 0..ChatOrder
      BY <1>3, <2>1, <2>2 DEF SentBelow, TurnTyped, Chat!Eng!Outputs
    <3>2. QED
      BY <1>4, <3>1, ChatAssumption
  <2>3. CASE x \notin out
    <3>1. x.order = order[m]
      BY <2>1, <2>3 DEF Chat!Eng!Output
    <3>2. QED
      BY <1>4, <3>1
  <2>4. QED
    BY <2>2, <2>3
<1>6. HeldBelow(m, order[m])'
  <2>1. SUFFICES ASSUME NEW k \in chatRun[m].buffer PROVE k < order[m] + 1
    BY DEF HeldBelow
  <2>2. k < order[m] /\ k \in 0..ChatOrder
    BY <1>3, <2>1 DEF HeldBelow, TurnTyped, Chat!Ads!Runs, Chat!Ads!Orders
  <2>3. QED
    BY <1>4, <2>2, ChatAssumption
<1>7. BeforeModel(m)' /\ DuringModel(m)' /\ AfterModel(m)'
  BY <1>1, <1>3, <1>5, <1>6 DEF BeforeModel, DuringModel, AfterModel
<1>8. \A x \in out' : x.type = "finish" => x \in out
  BY DEF Chat!Eng!Output
<1>9. LastAnnounced(m)' /\ PrefixHeld(m)'
  BY <1>8 DEF TurnInv, LastAnnounced, PrefixHeld
<1>10. QED
  BY <1>2, <1>7, <1>9 DEF TurnInv

\* The last order is announced.
LEMMA ModelStops ==
    ASSUME NEW m \in Msgs, TurnTyped, TurnInv(m), task[m] = "model", task'[m] = "done", order[m] > 0,
           event' = event, announced'[m] = announced[m] \cup
               {x.order : x \in {y \in out' \ out : y.type = "finish" /\ y.msg = m}},
           out' = out \cup {Chat!Eng!Output("finish", m, order[m] - 1)},
           chatToEngine' = chatToEngine, chatRun' = chatRun, chatAcking' = chatAcking
    PROVE  TurnInv(m)'
<1>1. PICK l : l = order[m] - 1
  OBVIOUS
<1>2. l \in 0..ChatOrder /\ l + 1 = order[m] /\ l \in Nat
  BY <1>1, ChatAssumption DEF TurnTyped
<1>3. ~AckToCome(m) /\ ~AckToCome(m)'
  BY DEF TurnInv, DuringModel, AckToCome, Unacknowledged
<1>4. AckOnce(m)'
  BY DEF TurnInv, AckOnce, Unacknowledged
<1>5. announced[m] = {} /\ SentBelow(m, l + 1) /\ HeldBelow(m, l + 1)
  BY <1>2 DEF TurnInv, DuringModel
<1>6. PICK y : y = Chat!Eng!Output("finish", m, l)
  OBVIOUS
<1>7. y.type = "finish" /\ y.msg = m /\ y.order = l /\ out' = out \cup {y}
  BY <1>1, <1>6 DEF Chat!Eng!Output
<1>8. y \notin out
  BY <1>5, <1>7 DEF TurnInv, LastAnnounced
<1>9. announced'[m] = {l}
  <2>1. \A x \in {z \in out' \ out : z.type = "finish" /\ z.msg = m} : x = y
    BY <1>7
  <2>2. y \in {z \in out' \ out : z.type = "finish" /\ z.msg = m}
    BY <1>7, <1>8
  <2>3. QED
    BY <1>5, <1>7, <2>1, <2>2
<1>10. (SentBelow(m, l + 1) /\ HeldBelow(m, l + 1))'
  <2>1. SUFFICES SentBelow(m, l + 1)' /\ HeldBelow(m, l + 1)'
    OBVIOUS
  <2>2. \A x \in out' : x.type = "partial" => x \in out
    BY <1>7
  <2>3. QED
    BY <1>5, <2>2 DEF SentBelow, HeldBelow
<1>11. BeforeModel(m)' /\ DuringModel(m)' /\ AfterModel(m)'
  BY <1>3, <1>9, <1>10 DEF BeforeModel, DuringModel, AfterModel
<1>12. LastAnnounced(m)' /\ PrefixHeld(m)'
  BY <1>5, <1>7, <1>9 DEF TurnInv, LastAnnounced, PrefixHeld
<1>13. QED
  BY <1>4, <1>11, <1>12 DEF TurnInv

LEMMA ChatReachFacts ==
    ASSUME NEW w \in Chat!Ads!Orders \cup {-1}, NEW B \in SUBSET Chat!Ads!Orders
    PROVE  /\ Chat!Ads!Reach(w, B) \in w..ChatOrder
           /\ \A k \in (w + 1)..Chat!Ads!Reach(w, B) : k \in B
  BY PrefixEnds, ChatAssumption DEF Chat!Ads!Reach, Chat!Ads!Orders

LEMMA ChatCandidate ==
    ASSUME NEW m \in Msgs, TurnTyped, NEW v
    PROVE  Chat!Ads!Candidate(m, v) \in Chat!Ads!Orders \cup {-1}
<1>1. PICK fresh : fresh = {k \in ChatTombs : chatRun[m].watermark < k /\ k <= v}
  OBVIOUS
<1>2. fresh \in SUBSET Nat /\ (\A x \in fresh : x <= ChatOrder) /\ fresh \subseteq Chat!Ads!Orders
  <2>1. ChatTombs \subseteq Nat /\ (\A x \in ChatTombs : x <= ChatOrder) /\ ChatTombs \subseteq 0..ChatOrder
    BY ChatAssumption
  <2>2. QED
    BY <1>1, <2>1 DEF Chat!Ads!Orders
<1>3. CASE fresh = {}
  BY <1>1, <1>3 DEF Chat!Ads!Candidate, TurnTyped, Chat!Ads!Runs
<1>4. CASE fresh # {}
  <2>1. \E k \in fresh : \A j \in fresh : j <= k
    BY <1>2, <1>4, GreatestExists, ChatAssumption
  <2>2. Chat!Ads!Candidate(m, v) = CHOOSE k \in fresh : \A j \in fresh : j <= k
    BY <1>1, <1>4 DEF Chat!Ads!Candidate
  <2>3. QED
    BY <1>2, <2>1, <2>2
<1>5. QED
  BY <1>3, <1>4

\* One row moves.
RowMoves(m) == \E r : chatRun' = [chatRun EXCEPT ![m] = r]

LEMMA RowKept == ASSUME NEW m \in Msgs, TurnTyped, TurnInv(m), chatRun'[m] = chatRun[m] PROVE RowEffect(m)
  BY DEF RowEffect, TurnTyped, TurnInv, PrefixHeld, Unacknowledged

LEMMA RowsMove ==
    ASSUME NEW n \in Msgs, TurnTyped, \A m \in Msgs : TurnInv(m), RowMoves(n), RowEffect(n)
    PROVE  chatRun' \in [Msgs -> Chat!Ads!Runs] /\ \A m \in Msgs : RowEffect(m)
<1>1. PICK r : chatRun' = [chatRun EXCEPT ![n] = r]
  BY DEF RowMoves
<1>2. chatRun'[n] = r /\ \A m \in Msgs \ {n} : chatRun'[m] = chatRun[m]
  BY <1>1 DEF TurnTyped
<1>3. chatRun' \in [Msgs -> Chat!Ads!Runs]
  BY <1>1, <1>2 DEF TurnTyped, RowEffect
<1>4. QED
  BY <1>2, <1>3, RowKept

LEMMA SendRow ==
    ASSUME NEW m \in Msgs, TurnTyped, TurnInv(m),
           Chat!Ads!Send(m) \/ Chat!Ads!Acknowledge(m)
    PROVE  RowMoves(m) /\ RowEffect(m) /\ (Chat!Ads!Acknowledge(m) => Unacknowledged(m) /\ ~Unacknowledged(m)')
<1>1. PICK r : r = [chatRun[m] EXCEPT !.status = IF chatRun[m].status = "new" THEN "pending" ELSE "running"]
  OBVIOUS
<1>2. chatRun' = [chatRun EXCEPT ![m] = r] /\ Unacknowledged(m)
  BY <1>1 DEF Chat!Ads!Send, Chat!Ads!Acknowledge, TurnTyped, Unacknowledged
<1>3. /\ r \in Chat!Ads!Runs /\ r.last = chatRun[m].last /\ r.buffer = chatRun[m].buffer
      /\ r.watermark = chatRun[m].watermark /\ r.status \in {"pending", "running"}
  BY <1>1 DEF TurnTyped, Chat!Ads!Runs, Chat!Ads!Statuses
<1>4. chatRun'[m] = r
  BY <1>2 DEF TurnTyped
<1>5. Chat!Ads!Acknowledge(m) => r.status = "running"
  BY <1>1, <1>3 DEF Chat!Ads!Acknowledge, TurnTyped, Chat!Ads!Runs
<1>6. QED
  BY <1>2, <1>3, <1>4, <1>5 DEF RowMoves, RowEffect, TurnInv, PrefixHeld, Unacknowledged

LEMMA BreakRow ==
    ASSUME NEW m \in Msgs, TurnTyped, TurnInv(m), Chat!Ads!Break(m)
    PROVE  RowMoves(m) /\ RowEffect(m)
<1>1. CASE Chat!Ads!InFlight(m)
  <2>1. PICK r : r = [status |-> "broken", watermark |-> -1, last |-> -1, buffer |-> {}, tomb |-> -1]
    OBVIOUS
  <2>2. chatRun' = [chatRun EXCEPT ![m] = r]
    BY <1>1, <2>1 DEF Chat!Ads!Break, Chat!Ads!Breakable, Chat!Ads!Unwind, Chat!Ads!NewRun
  <2>3. r \in Chat!Ads!Runs
    BY <2>1, ChatAssumption DEF Chat!Ads!Runs, Chat!Ads!Statuses, Chat!Ads!Orders
  <2>4. chatRun'[m] = r
    BY <2>2 DEF TurnTyped
  <2>5. RowMoves(m)
    BY <2>2 DEF RowMoves
  <2>6. r.status = "broken" /\ r.watermark = -1 /\ r.last = -1 /\ r.buffer = {}
    BY <2>1
  <2>7. PrefixHeld(m)' /\ ~Unacknowledged(m)'
    BY <2>4, <2>6 DEF PrefixHeld, Unacknowledged
  <2>8. QED
    BY <2>3, <2>4, <2>5, <2>6, <2>7 DEF RowEffect
<1>2. CASE ~Chat!Ads!InFlight(m)
  BY <1>2, RowKept DEF RowMoves, TurnTyped, Chat!Ads!Break, Chat!Ads!Breakable
<1>3. QED
  BY <1>1, <1>2

LEMMA PartialRow ==
    ASSUME NEW m \in Msgs, TurnTyped, TurnInv(m), NEW x \in out, x.type = "partial", x.msg = m,
           Chat!Ads!Partial(m, x.order)
    PROVE  RowMoves(m) /\ RowEffect(m)
<1>1. x.order \in Chat!Ads!Orders
  BY DEF TurnTyped, Chat!Eng!Outputs, Chat!Ads!Orders
<1>2. PICK B \in SUBSET Chat!Ads!Orders : B = chatRun[m].buffer \cup {x.order}
  BY <1>1 DEF TurnTyped, Chat!Ads!Runs
<1>3. PICK w \in Chat!Ads!Orders \cup {-1} : w = chatRun[m].watermark
  BY DEF TurnTyped, Chat!Ads!Runs, Chat!Ads!Orders
<1>4. PICK v \in w..ChatOrder : v = Chat!Ads!Reach(w, B) /\ \A k \in (w + 1)..v : k \in B
  BY ChatReachFacts
<1>5. PICK t \in Chat!Ads!Orders \cup {-1} : t = Chat!Ads!Candidate(m, v)
  BY ChatCandidate
<1>6. PICK done \in BOOLEAN : done = (v # w /\ Chat!Ads!Complete(chatRun[m].last, v))
  BY DEF Chat!Ads!Complete
<1>7. PICK r : r = [status |-> IF done THEN "finished" ELSE chatRun[m].status,
                    watermark |-> v, last |-> chatRun[m].last, buffer |-> B, tomb |-> t]
  OBVIOUS
<1>8. Chat!Ads!InFlight(m) /\ chatRun' = [chatRun EXCEPT ![m] = r]
  BY <1>2, <1>3, <1>4, <1>5, <1>6, <1>7 DEF Chat!Ads!Partial
<1>9. w \in Int /\ v \in Int /\ -1 <= w /\ w <= v /\ v <= ChatOrder
  BY <1>3, <1>4, ChatAssumption DEF Chat!Ads!Orders
<1>10. r \in Chat!Ads!Runs
  <2>1. /\ v \in -1..ChatOrder /\ chatRun[m].status \in Chat!Ads!Statuses
        /\ chatRun[m].last \in -1..ChatOrder /\ "finished" \in Chat!Ads!Statuses
    BY <1>9, ChatAssumption DEF TurnTyped, Chat!Ads!Runs, Chat!Ads!Statuses
  <2>2. QED
    BY <1>2, <1>5, <1>7, <2>1 DEF Chat!Ads!Runs
<1>11. chatRun'[m] = r
  BY <1>8 DEF TurnTyped
<1>12. v = -1 \/ v \in B
  <2>1. v # w => v \in (w + 1)..v
    BY <1>9
  <2>2. w = -1 \/ w \in chatRun[m].buffer
    BY <1>3 DEF TurnInv, PrefixHeld
  <2>3. QED
    BY <1>2, <1>4, <2>1, <2>2
<1>13. PrefixHeld(m)'
  <2>1. chatRun[m].status # "finished"
    BY <1>8 DEF Chat!Ads!InFlight
  <2>2. r.status = "finished" => done
    BY <1>7, <2>1
  <2>3. done => chatRun[m].last # -1 /\ v >= chatRun[m].last
    BY <1>6 DEF Chat!Ads!Complete
  <2>4. r.watermark = v /\ r.buffer = B /\ r.last = chatRun[m].last
    BY <1>7
  <2>5. QED
    BY <1>11, <1>12, <2>2, <2>3, <2>4 DEF PrefixHeld
<1>14. Unacknowledged(m)' => Unacknowledged(m)
  BY <1>7, <1>11 DEF Unacknowledged
<1>15. RowMoves(m)
  BY <1>8 DEF RowMoves
<1>16. r.buffer = B /\ r.last = chatRun[m].last
  BY <1>7
<1>17. \A k \in B : k \in chatRun[m].buffer \/ \E y \in out : y.type = "partial" /\ y.msg = m /\ y.order = k
  BY <1>2
<1>18. RowEffect(m)
  BY <1>10, <1>11, <1>13, <1>14, <1>16, <1>17 DEF RowEffect
<1>19. QED
  BY <1>15, <1>18

LEMMA FinishRow ==
    ASSUME NEW m \in Msgs, TurnTyped, TurnInv(m), NEW x \in out, x.type = "finish", x.msg = m,
           Chat!Ads!Finish(m, x.order)
    PROVE  RowMoves(m) /\ RowEffect(m)
<1>1. x.order \in 0..ChatOrder
  BY DEF TurnTyped, Chat!Eng!Outputs
<1>2. CASE Chat!Ads!Break(m)
  BY <1>2, BreakRow
<1>3. CASE ~Chat!Ads!Break(m)
  <2>1. PICK last \in -1..ChatOrder : last = IF chatRun[m].last = -1 THEN x.order ELSE chatRun[m].last
    BY <1>1, ChatAssumption DEF TurnTyped, Chat!Ads!Runs
  <2>2. PICK done \in BOOLEAN : done = Chat!Ads!Complete(last, chatRun[m].watermark)
    BY DEF Chat!Ads!Complete
  <2>3. PICK r : r = [[chatRun[m] EXCEPT !.last = last]
                          EXCEPT !.status = IF done THEN "finished" ELSE "finishing"]
    OBVIOUS
  <2>4. /\ Chat!Ads!InFlight(m)
        /\ chatRun' = [chatRun EXCEPT ![m].last = last,
                                      ![m].status = IF done THEN "finished" ELSE "finishing"]
    BY <1>3, <2>1, <2>2 DEF Chat!Ads!Finish
  <2>5. chatRun' = [chatRun EXCEPT ![m] = r]
    BY <2>3, <2>4 DEF TurnTyped, Chat!Ads!Runs
  <2>6. /\ r \in Chat!Ads!Runs /\ r.watermark = chatRun[m].watermark /\ r.buffer = chatRun[m].buffer
        /\ r.last = last /\ r.status = IF done THEN "finished" ELSE "finishing"
    <3>1. /\ chatRun[m] \in Chat!Ads!Runs
          /\ (IF done THEN "finished" ELSE "finishing") \in Chat!Ads!Statuses
      BY DEF TurnTyped, Chat!Ads!Statuses
    <3>2. PICK q : q = [chatRun[m] EXCEPT !.last = last]
      OBVIOUS
    <3>3. q \in Chat!Ads!Runs /\ q.watermark = chatRun[m].watermark /\ q.buffer = chatRun[m].buffer /\ q.last = last
      BY <3>1, <3>2 DEF Chat!Ads!Runs
    <3>4. r = [q EXCEPT !.status = IF done THEN "finished" ELSE "finishing"]
      BY <2>3, <3>2
    <3>5. QED
      BY <3>1, <3>3, <3>4 DEF Chat!Ads!Runs
  <2>7. chatRun'[m] = r
    BY <2>5 DEF TurnTyped
  <2>8. PrefixHeld(m)'
    BY <2>2, <2>6, <2>7 DEF PrefixHeld, TurnInv, Chat!Ads!Complete
  <2>9. QED
    BY <2>1, <2>5, <2>6, <2>7, <2>8 DEF RowMoves, RowEffect, Unacknowledged
<1>4. QED
  BY <1>2, <1>3

\* A step of ads, with the record it consumed.
LEMMA AdsMovesTurn ==
    ASSUME ChatInv, chatRun' \in [Msgs -> Chat!Ads!Runs], \A m \in Msgs : AdsEffect(m),
           chatToEngine' \subseteq [type : {"request", "ack-response", "abort"}, msg : Msgs],
           out' \subseteq out, active' = active, owner' = owner, event' = event, task' = task,
           order' = order, announced' = announced
    PROVE  ChatInv'
<1>1. TurnTyped'
  BY DEF ChatInv, TurnTyped
<1>2. RowInv'
  BY DEF ChatInv, RowInv, RowTyped, Chat!Eng!RowMatchesRun, Chat!Eng!Claimed
<1>3. \A m \in Msgs : TurnInv(m)'
  BY AdsSide DEF ChatInv
<1>4. QED
  BY <1>1, <1>2, <1>3 DEF ChatInv

LEMMA AdsLocalTurn == ASSUME ChatInv, NEW n \in Msgs, Chat!AdsLocal(n) PROVE ChatInv'
<1>1. /\ active' = active /\ owner' = owner /\ event' = event /\ task' = task
      /\ order' = order /\ announced' = announced /\ out' = out /\ Chat!Ads!LocalStep(n)
  BY DEF Chat!AdsLocal, Chat!engVars, Chat!engOwn
<1>2. TurnTyped /\ (\A m \in Msgs : TurnInv(m))
  BY DEF ChatInv
<1>3. RowMoves(n) /\ RowEffect(n)
  <2>1. CASE Chat!Ads!Send(n)
    BY <1>2, <2>1, SendRow
  <2>2. CASE Chat!Ads!WatchUnwind(n)
    BY <1>2, <2>2, BreakRow DEF Chat!Ads!WatchUnwind
  <2>3. CASE chatRun' = chatRun
    BY <1>2, <2>3, RowKept DEF RowMoves, TurnTyped
  <2>4. QED
    BY <1>1, <2>1, <2>2, <2>3 DEF Chat!Ads!LocalStep, Chat!Ads!SendProduce, Chat!Ads!AckProduce,
       Chat!Ads!TimePasses, Chat!Ads!WatchDue, Chat!Ads!WatchAbort, Chat!Ads!rowVars
<1>4. /\ chatAcking' \subseteq chatAcking
      /\ chatToEngine' \subseteq [type : {"request", "ack-response", "abort"}, msg : Msgs]
      /\ \A x \in chatToEngine' : x.type = "ack-response" => x \in chatToEngine \/
             (x = Answer(n) /\ n \in chatAcking /\ n \notin chatAcking')
  <2>1. CASE Chat!Ads!AckProduce(n)
    BY <1>2, <2>1 DEF Chat!Ads!AckProduce, Chat!Ads!Control, Answer, TurnTyped
  <2>2. CASE ~Chat!Ads!AckProduce(n)
    <3>1. chatAcking' = chatAcking /\ (chatToEngine' \in {chatToEngine,
              chatToEngine \cup {Chat!Ads!Control("request", n)},
              chatToEngine \cup {Chat!Ads!Control("abort", n)}})
      BY <1>1, <2>2 DEF Chat!Ads!LocalStep, Chat!Ads!SendProduce, Chat!Ads!Send,
         Chat!Ads!TimePasses, Chat!Ads!WatchDue, Chat!Ads!WatchAbort, Chat!Ads!WatchUnwind
    <3>2. QED
      BY <1>2, <3>1 DEF TurnTyped, Chat!Ads!Control
  <2>3. QED
    BY <2>1, <2>2
<1>5. \A m \in Msgs : AckEffect(m)
  BY <1>4 DEF AckEffect, Answer, Chat!Ads!Control
<1>6. QED
  BY <1>1, <1>2, <1>3, <1>4, <1>5, RowsMove, AdsMovesTurn DEF AdsEffect

LEMMA RestartedTurn == ASSUME ChatInv, Chat!Restarted PROVE ChatInv'
<1>1. /\ active' = active /\ owner' = owner /\ event' = event /\ task' = task
      /\ order' = order /\ announced' = announced /\ out' = out
      /\ chatAcking' = {} /\ chatRun' = chatRun /\ chatToEngine' = chatToEngine
  BY DEF Chat!Restarted, Chat!Ads!AdsRestart, Chat!Ads!rowVars, Chat!engVars, Chat!engOwn
<1>2. TurnTyped /\ (\A m \in Msgs : TurnInv(m))
  BY DEF ChatInv
<1>3. \A m \in Msgs : AdsEffect(m)
  BY <1>1, <1>2, RowKept DEF AdsEffect, AckEffect
<1>4. QED
  BY <1>1, <1>2, <1>3, AdsMovesTurn DEF TurnTyped

LEMMA PingTurn == ASSUME ChatInv, NEW n \in Msgs, Chat!PingArrives(n) PROVE ChatInv'
<1>1. /\ active' = active /\ owner' = owner /\ event' = event /\ task' = task
      /\ order' = order /\ announced' = announced /\ out' = out
      /\ chatAcking' = chatAcking /\ chatRun' = chatRun /\ chatToEngine' = chatToEngine
  BY DEF Chat!PingArrives, Chat!Ads!Ping, Chat!engVars, Chat!engOwn
<1>2. TurnTyped /\ (\A m \in Msgs : TurnInv(m))
  BY DEF ChatInv
<1>3. \A m \in Msgs : AdsEffect(m)
  BY <1>1, <1>2, RowKept DEF AdsEffect, AckEffect
<1>4. QED
  BY <1>1, <1>2, <1>3, AdsMovesTurn DEF TurnTyped

\* An output of the engine reaches ads.
LEMMA AdsConsumesTurn == ASSUME ChatInv, NEW x \in out, Chat!AdsConsumes(x) PROVE ChatInv'
<1>1. /\ active' = active /\ owner' = owner /\ event' = event /\ task' = task
      /\ order' = order /\ announced' = announced /\ out' \subseteq out
  BY DEF Chat!AdsConsumes, Chat!Left, Chat!engOwn
<1>2. TurnTyped /\ (\A m \in Msgs : TurnInv(m)) /\ x.msg \in Msgs
  BY DEF ChatInv, TurnTyped, Chat!Eng!Outputs
<1>3. PICK n \in Msgs : n = x.msg
  BY <1>2
<1>4. CASE chatRun' = chatRun /\ chatAcking' = chatAcking /\ chatToEngine' = chatToEngine
  <2>1. \A m \in Msgs : AdsEffect(m)
    BY <1>2, <1>4, RowKept DEF AdsEffect, AckEffect
  <2>2. QED
    BY <1>1, <1>2, <1>4, <2>1, AdsMovesTurn DEF TurnTyped
<1>5. CASE Chat!Ads!Acknowledge(n)
  <2>1. RowMoves(n) /\ RowEffect(n) /\ Unacknowledged(n) /\ ~Unacknowledged(n)'
    BY <1>2, <1>5, SendRow
  <2>2. chatAcking' = chatAcking \cup {n} /\ chatToEngine' = chatToEngine
    BY <1>5 DEF Chat!Ads!Acknowledge
  <2>3. \A m \in Msgs : AckEffect(m)
    BY <2>1, <2>2 DEF AckEffect
  <2>4. chatRun' \in [Msgs -> Chat!Ads!Runs] /\ \A m \in Msgs : AdsEffect(m)
    BY <1>2, <2>1, <2>3, RowsMove DEF AdsEffect
  <2>5. QED
    BY <1>1, <1>2, <2>2, <2>4, AdsMovesTurn DEF TurnTyped
<1>6. CASE \/ x.type = "partial" /\ Chat!Ads!Partial(n, x.order)
           \/ x.type = "finish" /\ Chat!Ads!Finish(n, x.order)
           \/ x.type = "error" /\ Chat!Ads!Error(n)
  <2>1. RowMoves(n) /\ RowEffect(n)
    BY <1>2, <1>3, <1>6, PartialRow, FinishRow, BreakRow DEF Chat!Ads!Error
  <2>2. chatAcking' = chatAcking /\ chatToEngine' = chatToEngine
    BY <1>6 DEF Chat!Ads!Partial, Chat!Ads!Finish, Chat!Ads!Error
  <2>3. chatRun' \in [Msgs -> Chat!Ads!Runs] /\ \A m \in Msgs : AdsEffect(m)
    BY <1>2, <2>1, <2>2, RowsMove DEF AdsEffect, AckEffect
  <2>4. QED
    BY <1>1, <1>2, <2>2, <2>3, AdsMovesTurn DEF TurnTyped
<1>7. CASE UNCHANGED Chat!adsVars
  BY <1>4, <1>7 DEF Chat!adsVars, Chat!adsOwn
<1>8. QED
  BY <1>3, <1>5, <1>6, <1>7 DEF Chat!AdsConsumes

\* The row and _runs, whatever the engine does.
LEMMA RowStep ==
    ASSUME RowInv, NEW m, (m \in Msgs /\ (Chat!Eng!TaskStep(m) \/ Chat!Eng!RecordStep(m))) \/ Chat!Eng!Crash
    PROVE  RowInv'
<1> USE ChatAssumption DEF RowInv, RowTyped, Places, Chat!Eng!RowMatchesRun, Chat!Eng!Claimed, Chat!Eng!Goto
<1>1. CASE m \in Msgs /\ (Chat!Eng!Refuse(m) \/ Chat!Eng!EmitRefusal(m) \/ Chat!Eng!AckResponse(m))
  BY <1>1 DEF Chat!Eng!Refuse, Chat!Eng!EmitRefusal, Chat!Eng!AckResponse
<1>2. CASE m \in Msgs /\ Chat!Eng!Handle(m)
  BY <1>2 DEF Chat!Eng!Handle, Chat!Eng!Claimable
<1>3. CASE m \in Msgs /\ Chat!Eng!AckWait(m)
  BY <1>3 DEF Chat!Eng!AckWait
<1>4. CASE m \in Msgs /\ Chat!Eng!Emit(m)
  BY <1>4 DEF Chat!Eng!Emit
<1>5. CASE m \in Msgs /\ Chat!Eng!ModelRaises(m)
  BY <1>5 DEF Chat!Eng!ModelRaises
<1>6. CASE m \in Msgs /\ Chat!Eng!ModelEnds(m)
  BY <1>6 DEF Chat!Eng!ModelEnds
<1>7. CASE m \in Msgs /\ Chat!Eng!Abort(m)
  BY <1>7 DEF Chat!Eng!Abort
<1>8. CASE m \in Msgs /\ Chat!Eng!Forget(m)
  BY <1>8 DEF Chat!Eng!Forget
<1>9. CASE m \in Msgs /\ Chat!Eng!Release(m)
  BY <1>9 DEF Chat!Eng!Release, Chat!Eng!Released
<1>10. CASE m \in Msgs /\ Chat!Eng!EmitError(m)
  BY <1>10 DEF Chat!Eng!EmitError
<1>11. CASE Chat!Eng!Crash
  BY <1>11 DEF Chat!Eng!Crash
<1>12. QED
  BY <1>1, <1>2, <1>3, <1>4, <1>5, <1>6, <1>7, <1>8, <1>9, <1>10, <1>11
  DEF Chat!Eng!TaskStep, Chat!Eng!RecordStep

LEMMA RowInit == Chat!Eng!Init => RowInv
  BY ChatAssumption
  DEF Chat!Eng!Init, RowInv, RowTyped, Places, Chat!Eng!RowMatchesRun, Chat!Eng!Claimed

LEMMA RowAlways == Chat!Eng!Spec => []RowInv
<1>1. RowInv /\ [Chat!Eng!Next]_(Chat!Eng!engineVars) => RowInv'
  <2>1. ASSUME RowInv, Chat!Eng!Next PROVE RowInv'
    BY <2>1, RowStep DEF Chat!Eng!Next
  <2>2. ASSUME RowInv, UNCHANGED Chat!Eng!engineVars PROVE RowInv'
    BY <2>2 DEF Chat!Eng!engineVars, RowInv, RowTyped, Chat!Eng!RowMatchesRun, Chat!Eng!Claimed
  <2>3. QED
    BY <2>1, <2>2
<1>2. QED
  BY RowInit, <1>1, PTL DEF Chat!Eng!Spec

\* The active_sessions row names exactly the run that is under way, whatever records
\* reach EngineListener and whenever the engine restarts: no session stays claimed by
\* nobody and no two runs of it are under way.
THEOREM OneRunPerRow == Chat!Eng!Spec => []Chat!Eng!RowMatchesRun
<1>1. RowInv => Chat!Eng!RowMatchesRun
  BY DEF RowInv
<1>2. QED
  BY RowAlways, <1>1, PTL

\* handle_abort looks its task up in _runs: what it finds there is the run that
\* holds the session.
THEOREM AbortHitsOwnRunHolds == Chat!Eng!Spec => []Chat!Eng!AbortHitsOwnRun
<1>1. RowInv => Chat!Eng!AbortHitsOwnRun
  BY ChatAssumption
  DEF RowInv, RowTyped, Chat!Eng!RowMatchesRun, Chat!Eng!Claimed, Chat!Eng!AbortHitsOwnRun
<1>2. QED
  BY RowAlways, <1>1, PTL

\* _run_model retries only while no delta has been published, so no order number is
\* published twice for one run.
THEOREM NoOrderTwiceHolds == Chat!Eng!Spec => Chat!Eng!NoOrderTwice
<1> DEFINE Counted == order \in [Msgs -> Nat]
<1> DEFINE A == \A m \in Msgs : task[m] = "model" /\ task'[m] = "model" => order'[m] >= order[m]
<1>1. Chat!Eng!Init => Counted
  BY DEF Chat!Eng!Init
<1>2. ASSUME Counted, RowTyped, Chat!Eng!Next PROVE Counted' /\ A
  <2> USE <1>2 DEF RowTyped, Chat!Eng!Goto
  <2>1. CASE \E n \in Msgs : Chat!Eng!Handle(n)
    BY <2>1 DEF Chat!Eng!Handle
  <2>2. CASE \E n \in Msgs : Chat!Eng!Emit(n)
    BY <2>2 DEF Chat!Eng!Emit
  <2>3. CASE \E n \in Msgs : Chat!Eng!ModelRaises(n)
    BY <2>3 DEF Chat!Eng!ModelRaises, Chat!Eng!Retryable
  <2>4. CASE order' = order
    BY <2>4
  <2>5. QED
    BY <2>1, <2>2, <2>3, <2>4
    DEF Chat!Eng!Next, Chat!Eng!TaskStep, Chat!Eng!RecordStep, Chat!Eng!Refuse, Chat!Eng!EmitRefusal,
        Chat!Eng!AckResponse, Chat!Eng!AckWait, Chat!Eng!ModelEnds, Chat!Eng!Abort, Chat!Eng!Forget,
        Chat!Eng!Release, Chat!Eng!EmitError, Chat!Eng!Crash
<1>3. Counted /\ UNCHANGED Chat!Eng!engineVars => Counted'
  BY DEF Chat!Eng!engineVars
<1>4. RowInv => RowTyped
  BY DEF RowInv
<1>5. Counted /\ RowInv /\ [Chat!Eng!Next]_(Chat!Eng!engineVars) => Counted' /\ [A]_(Chat!Eng!engineVars)
  BY <1>2, <1>3, <1>4
<1>6. QED
  BY RowAlways, <1>1, <1>5, PTL DEF Chat!Eng!Spec, Chat!Eng!NoOrderTwice

LEMMA EngineMovesTurn ==
    ASSUME ChatInv, RowInv', TurnTyped', \A m \in Msgs : EngineEffect(m), chatToEngine' \subseteq chatToEngine,
           chatRun' = chatRun, chatAcking' = chatAcking, announced' = announced
    PROVE  ChatInv'
  BY EngineSide DEF ChatInv

\* A control record of ads reaches the engine.
LEMMA EngineConsumesTurn ==
    ASSUME AckResponseAppearsOnce, ChatInv, NEW x \in chatToEngine, Chat!EngineConsumes(x)
    PROVE  ChatInv'
<1>1. /\ chatRun' = chatRun /\ chatAcking' = chatAcking /\ announced' = announced
      /\ chatToEngine' \subseteq chatToEngine
      /\ x.type = "ack-response" => chatToEngine' = chatToEngine \ {x}
  BY DEF AckResponseAppearsOnce, Chat!EngineConsumes, Chat!adsOwn, Chat!Left
<1>2. TurnTyped /\ RowInv /\ (\A m \in Msgs : TurnInv(m)) /\ x.msg \in Msgs
  BY DEF ChatInv, TurnTyped
<1>3. PICK n \in Msgs : n = x.msg
  BY <1>2
<1>4. CASE UNCHANGED <<active, owner, task, event, order, out>>
  <2>1. RowInv' /\ TurnTyped'
    BY <1>1, <1>2, <1>4 DEF RowInv, RowTyped, TurnTyped, Chat!Eng!RowMatchesRun, Chat!Eng!Claimed
  <2>2. \A m \in Msgs : EngineEffect(m)
    BY <1>4 DEF EngineEffect
  <2>3. QED
    BY <1>1, <2>1, <2>2, EngineMovesTurn
<1>5. CASE Chat!Eng!Handle(n)
  <2>1. RowInv'
    BY <1>2, <1>5, RowStep DEF Chat!Eng!RecordStep
  <2>2. /\ task' \in [Msgs -> Places] /\ task'[n] \in {"waiting", "failed"}
        /\ \A m \in Msgs \ {n} : task'[m] = task[m] /\ order'[m] = order[m]
        /\ order' \in [Msgs -> 0..(ChatOrder + 1)] /\ event' = event \ {n}
    BY <1>2, <1>5, ChatAssumption DEF Chat!Eng!Handle, Chat!Eng!Goto, TurnTyped, Places
  <2>3. out' \subseteq out \cup {Chat!Eng!Output("acknowledge", n, 0)}
    BY <1>5 DEF Chat!Eng!Handle, Chat!Eng!Publish
  <2>4. TurnTyped'
    BY <1>1, <1>2, <2>2, <2>3, ChatAssumption DEF TurnTyped, Chat!Eng!Outputs, Chat!Eng!Output
  <2>5. \A m \in Msgs : EngineEffect(m)
    BY <2>2, <2>3 DEF EngineEffect, Chat!Eng!Output
  <2>6. QED
    BY <1>1, <2>1, <2>4, <2>5, EngineMovesTurn
<1>6. CASE x.type = "ack-response" /\ Chat!Eng!AckResponse(n)
  <2>1. RowInv'
    BY <1>2, <1>6, RowStep DEF Chat!Eng!RecordStep
  <2>2. UNCHANGED <<task, order, out>> /\ event' = event \cup {n}
    BY <1>6 DEF Chat!Eng!AckResponse
  <2>3. x = Answer(n)
    BY <1>2, <1>3, <1>6 DEF TurnTyped, Answer, Chat!Ads!Control
  <2>4. TurnTyped' /\ \A m \in Msgs : EngineEffect(m)
    BY <1>1, <1>2, <1>6, <2>2, <2>3 DEF TurnTyped, EngineEffect
  <2>5. QED
    BY <1>1, <2>1, <2>4, EngineMovesTurn
<1>7. CASE Chat!Eng!Abort(n)
  <2>1. RowInv'
    BY <1>2, <1>7, RowStep DEF Chat!Eng!RecordStep
  <2>2. UNCHANGED <<event, order, out>> /\ task' = [task EXCEPT ![n] = "done"]
    BY <1>7 DEF Chat!Eng!Abort, Chat!Eng!Goto
  <2>3. TurnTyped' /\ \A m \in Msgs : EngineEffect(m)
    BY <1>1, <1>2, <2>2 DEF TurnTyped, EngineEffect, Places
  <2>4. QED
    BY <1>1, <2>1, <2>3, EngineMovesTurn
<1>8. QED
  BY <1>3, <1>4, <1>5, <1>6, <1>7 DEF Chat!EngineConsumes, Chat!Eng!Refuse, Chat!engVars, Chat!engOwn

\* The engine fails, or gives up what was refused.
LEMMA EngineIdleTurn ==
    ASSUME ChatInv, NEW n, (n \in Msgs /\ Chat!EngineRefuses(n)) \/ Chat!EngineCrash
    PROVE  ChatInv'
<1>1. /\ chatRun' = chatRun /\ chatAcking' = chatAcking /\ announced' = announced
      /\ chatToEngine' = chatToEngine /\ order' = order
  BY DEF Chat!EngineRefuses, Chat!EngineCrash, Chat!adsVars, Chat!adsOwn, Chat!Eng!EmitRefusal, Chat!Eng!Crash
<1>2. TurnTyped /\ RowInv /\ (\A m \in Msgs : TurnInv(m))
  BY DEF ChatInv
<1>3. RowInv'
  BY <1>2, RowStep DEF Chat!EngineRefuses, Chat!EngineCrash, Chat!Eng!RecordStep
<1>4. /\ out' \subseteq out \cup {Chat!Eng!Output("error", m, 0) : m \in Msgs} /\ event' \subseteq event
      /\ \A m \in Msgs : task'[m] = task[m] \/ task'[m] \in {"none", "ended"}
  BY <1>2 DEF Chat!EngineRefuses, Chat!EngineCrash, Chat!Eng!EmitRefusal, Chat!Eng!Crash, Chat!Eng!Publish, TurnTyped
<1>5. TurnTyped'
  BY <1>1, <1>2, <1>3, <1>4, ChatAssumption DEF TurnTyped, RowInv, RowTyped, Chat!Eng!Outputs, Chat!Eng!Output
<1>6. \A m \in Msgs : EngineEffect(m)
  BY <1>1, <1>4 DEF EngineEffect, Chat!Eng!Output
<1>7. QED
  BY <1>1, <1>3, <1>5, <1>6, EngineMovesTurn

\* A task of the engine goes on.
LEMMA EngineTaskTurn == ASSUME ChatInv, NEW n \in Msgs, Chat!EngineTask(n) PROVE ChatInv'
<1>1. /\ chatRun' = chatRun /\ chatAcking' = chatAcking /\ chatToEngine' = chatToEngine
      /\ announced' = [announced EXCEPT ![n] = announced[n] \cup
                        {x.order : x \in {y \in out' \ out : y.type = "finish" /\ y.msg = n}}]
      /\ Chat!Eng!TaskStep(n)
  BY DEF Chat!EngineTask, Chat!adsVars, Chat!adsOwn
<1>2. TurnTyped /\ RowInv /\ (\A m \in Msgs : TurnInv(m))
  BY DEF ChatInv
<1>3. RowInv'
  BY <1>1, <1>2, RowStep
<1>4. ASSUME \A y \in out' : y.type = "finish" => y \in out PROVE announced' = announced
  BY <1>1, <1>2, <1>4 DEF TurnTyped
<1>5. CASE Chat!Eng!AckWait(n) /\ task'[n] = "model"
  <2>1. /\ task[n] = "waiting" /\ n \in event /\ event' = event /\ order' = order /\ out' = out
        /\ \A m \in Msgs \ {n} : task'[m] = task[m]
    BY <1>2, <1>5 DEF Chat!Eng!AckWait, Chat!Eng!Goto, TurnTyped
  <2>2. announced' = announced
    BY <1>4, <2>1
  <2>3. TurnTyped'
    BY <1>1, <1>2, <1>3, <2>1, <2>2 DEF TurnTyped, RowInv, RowTyped
  <2>4. TurnInv(n)'
    BY <1>1, <1>2, <1>5, <2>1, <2>2, ModelStarts
  <2>5. \A m \in Msgs \ {n} : TurnInv(m)'
    BY <1>1, <1>2, <2>1, <2>2, EngineSide DEF EngineEffect
  <2>6. QED
    BY <1>3, <2>3, <2>4, <2>5 DEF ChatInv
<1>6. CASE Chat!Eng!Emit(n) /\ task' = task
  <2>1. /\ task[n] = "model" /\ order[n] <= ChatOrder /\ event' = event
    BY <1>6 DEF Chat!Eng!Emit
  <2>2. /\ order' = [order EXCEPT ![n] = order[n] + 1]
        /\ out' = out \cup {Chat!Eng!Output("partial", n, order[n])}
    BY <1>2, <1>6, <2>1 DEF Chat!Eng!Emit, Chat!Eng!Goto, Chat!Eng!Publish, TurnTyped
  <2>3. announced' = announced
    BY <1>4, <2>2 DEF Chat!Eng!Output
  <2>4. order[n] \in 0..ChatOrder /\ order[n] + 1 \in 0..(ChatOrder + 1)
    BY <1>2, <2>1, ChatAssumption DEF TurnTyped
  <2>5. Chat!Eng!Output("partial", n, order[n]) \in Chat!Eng!Outputs
    BY <2>4 DEF Chat!Eng!Output, Chat!Eng!Outputs
  <2>6. TurnTyped'
    BY <1>1, <1>2, <1>6, <2>2, <2>3, <2>4, <2>5 DEF TurnTyped
  <2>7. TurnInv(n)'
    BY <1>1, <1>2, <1>6, <2>1, <2>2, <2>3, ModelEmits DEF TurnTyped
  <2>8. ASSUME NEW m \in Msgs \ {n} PROVE TurnInv(m)'
    <3>1. EngineEffect(m)
      BY <1>2, <1>6, <2>1, <2>2 DEF EngineEffect, Chat!Eng!Output, TurnTyped
    <3>2. QED
      BY <1>1, <1>2, <2>3, <3>1, EngineSide
  <2>9. QED
    BY <1>3, <2>6, <2>7, <2>8 DEF ChatInv
<1>7. CASE Chat!Eng!ModelEnds(n) /\ task'[n] = "done"
  <2>1. /\ task[n] = "model" /\ order[n] > 0 /\ event' = event /\ order' = order
        /\ out' = out \cup {Chat!Eng!Output("finish", n, order[n] - 1)}
        /\ task' = [task EXCEPT ![n] = "done"]
    BY <1>2, <1>7 DEF Chat!Eng!ModelEnds, Chat!Eng!Goto, Chat!Eng!Publish, TurnTyped
  <2>2. order[n] - 1 \in 0..ChatOrder
    BY <1>2, <2>1, ChatAssumption DEF TurnTyped
  <2>3. Chat!Eng!Output("finish", n, order[n] - 1) \in Chat!Eng!Outputs
    BY <2>2 DEF Chat!Eng!Output, Chat!Eng!Outputs
  <2>4. PICK new : new = {x.order : x \in {y \in out' \ out : y.type = "finish" /\ y.msg = n}}
    OBVIOUS
  <2>5. new \subseteq 0..ChatOrder
    BY <2>1, <2>2, <2>4 DEF Chat!Eng!Output
  <2>6. /\ announced' \in [Msgs -> SUBSET (0..ChatOrder)] /\ announced'[n] = announced[n] \cup new
        /\ \A m \in Msgs \ {n} : announced'[m] = announced[m]
    BY <1>1, <1>2, <2>4, <2>5 DEF TurnTyped
  <2>7. TurnTyped'
    BY <1>1, <1>2, <1>3, <2>1, <2>3, <2>6 DEF TurnTyped, RowInv, RowTyped
  <2>8. TurnInv(n)'
    BY <1>1, <1>2, <1>7, <2>1, <2>4, <2>6, ModelStops
  <2>9. ASSUME NEW m \in Msgs \ {n} PROVE TurnInv(m)'
    <3>1. EngineEffect(m)
      BY <1>2, <2>1 DEF EngineEffect, Chat!Eng!Output, TurnTyped
    <3>2. QED
      BY <1>1, <1>2, <2>6, <3>1, EngineSide
  <2>10. QED
    BY <1>3, <2>7, <2>8, <2>9 DEF ChatInv
<1>8. CASE /\ \A m \in Msgs : task'[m] = "model" => task[m] = "model" /\ order'[m] = order[m]
           /\ \A m \in Msgs : task'[m] = "waiting" => task[m] = "waiting"
           /\ event' \subseteq event /\ order' = order
           /\ out' \subseteq out \cup {Chat!Eng!Output("error", n, 0)}
  <2>1. announced' = announced
    BY <1>4, <1>8 DEF Chat!Eng!Output
  <2>2. \A m \in Msgs : EngineEffect(m)
    BY <1>8 DEF EngineEffect, Chat!Eng!Output
  <2>3. TurnTyped'
    BY <1>1, <1>2, <1>3, <1>8, <2>1, ChatAssumption
    DEF TurnTyped, RowInv, RowTyped, Chat!Eng!Outputs, Chat!Eng!Output
  <2>4. QED
    BY <1>1, <1>3, <2>1, <2>2, <2>3, EngineMovesTurn
<1>9. CASE Chat!Eng!AckWait(n) \/ Chat!Eng!Emit(n) \/ Chat!Eng!ModelEnds(n)
  BY <1>2, <1>5, <1>6, <1>7, <1>8, <1>9
  DEF Chat!Eng!AckWait, Chat!Eng!Emit, Chat!Eng!ModelEnds, Chat!Eng!Goto, TurnTyped
<1>10. CASE Chat!Eng!ModelRaises(n)
  <2>1. order' = order
    BY <1>2, <1>10 DEF Chat!Eng!ModelRaises, Chat!Eng!Retryable, TurnTyped
  <2>2. QED
    BY <1>2, <1>8, <1>10, <2>1 DEF Chat!Eng!ModelRaises, Chat!Eng!Goto, TurnTyped
<1>11. CASE Chat!Eng!Forget(n) \/ Chat!Eng!Release(n) \/ Chat!Eng!EmitError(n)
  BY <1>2, <1>8, <1>11
  DEF Chat!Eng!Forget, Chat!Eng!Release, Chat!Eng!EmitError, Chat!Eng!Goto, Chat!Eng!Publish, TurnTyped
<1>12. QED
  BY <1>1, <1>9, <1>10, <1>11 DEF Chat!Eng!TaskStep

LEMMA ChatStands == ChatInv /\ UNCHANGED chatVars => ChatInv'
<1> SUFFICES ASSUME ChatInv, UNCHANGED chatVars PROVE ChatInv'
  OBVIOUS
<1>1. /\ active' = active /\ owner' = owner /\ event' = event /\ task' = task
      /\ order' = order /\ announced' = announced /\ out' = out
      /\ chatAcking' = chatAcking /\ chatRun' = chatRun /\ chatToEngine' = chatToEngine
  BY DEF chatVars
<1>2. TurnTyped /\ (\A m \in Msgs : TurnInv(m))
  BY DEF ChatInv
<1>3. \A m \in Msgs : AdsEffect(m)
  BY <1>1, <1>2, RowKept DEF AdsEffect, AckEffect
<1>4. QED
  BY <1>1, <1>2, <1>3, AdsMovesTurn DEF TurnTyped

LEMMA ChatInit == Chat!Init => ChatInv
<1> SUFFICES ASSUME Chat!Init PROVE ChatInv
  OBVIOUS
<1>1. PICK r : r = [status |-> "new", watermark |-> -1, last |-> -1, buffer |-> {}, tomb |-> -1]
  OBVIOUS
<1>2. /\ chatRun = [m \in Msgs |-> r] /\ chatAcking = {} /\ chatToEngine = {}
      /\ active = None /\ owner = None /\ task = [m \in Msgs |-> "none"] /\ event = {}
      /\ order = [m \in Msgs |-> 0] /\ out = {} /\ announced = [m \in Msgs |-> {}]
  BY <1>1 DEF Chat!Init, Chat!Ads!Init, Chat!Eng!Init, Chat!Ads!NewRun
<1>3. r \in Chat!Ads!Runs
  BY <1>1, ChatAssumption DEF Chat!Ads!Runs, Chat!Ads!Statuses, Chat!Ads!Orders
<1>4. TurnTyped
  BY <1>2, <1>3, ChatAssumption DEF TurnTyped, Places
<1>5. RowInv
  BY <1>2, ChatAssumption DEF RowInv, RowTyped, Places, Chat!Eng!RowMatchesRun, Chat!Eng!Claimed
<1>6. ASSUME NEW m \in Msgs PROVE TurnInv(m)
  <2>1. chatRun[m] = r /\ announced[m] = {} /\ task[m] = "none"
    BY <1>2
  <2>2. AckOnce(m) /\ BeforeModel(m) /\ DuringModel(m)
    BY <1>1, <1>2, <2>1 DEF AckOnce, BeforeModel, DuringModel, SentBelow, HeldBelow
  <2>3. AfterModel(m) /\ LastAnnounced(m) /\ PrefixHeld(m)
    BY <1>1, <1>2, <2>1 DEF AfterModel, LastAnnounced, PrefixHeld
  <2>4. QED
    BY <2>2, <2>3 DEF TurnInv
<1>7. QED
  BY <1>4, <1>5, <1>6 DEF ChatInv

LEMMA ChatStep == ASSUME AckResponseAppearsOnce, ChatInv, Chat!Next PROVE ChatInv'
<1>1. CASE \E m \in Msgs : Chat!AdsLocal(m) \/ Chat!EngineTask(m) \/ Chat!EngineRefuses(m) \/ Chat!PingArrives(m)
  BY <1>1, AdsLocalTurn, PingTurn, EngineIdleTurn, EngineTaskTurn
<1>2. CASE Chat!Restarted \/ Chat!EngineCrash
  BY <1>2, RestartedTurn, EngineIdleTurn
<1>3. CASE \E x \in chatToEngine : Chat!EngineConsumes(x)
  BY <1>3, EngineConsumesTurn
<1>4. CASE \E x \in out : Chat!AdsConsumes(x)
  BY <1>4, AdsConsumesTurn
<1>5. QED
  BY <1>1, <1>2, <1>3, <1>4 DEF Chat!Next

LEMMA ChatAgrees == ChatInv =>
    Chat!FinishedIsWhatEngineSent /\ Chat!ModelRunsForAcceptedRun /\ Chat!AbortHitsOwnRun
<1> SUFFICES ASSUME ChatInv
             PROVE  Chat!FinishedIsWhatEngineSent /\ Chat!ModelRunsForAcceptedRun /\ Chat!AbortHitsOwnRun
  OBVIOUS
<1>1. ASSUME NEW m \in Msgs, chatRun[m].status = "finished"
      PROVE  \E l \in announced[m] : chatRun[m].watermark = l
  <2>1. PICK w : w = chatRun[m].watermark
    OBVIOUS
  <2>2. PICK l : l = chatRun[m].last
    OBVIOUS
  <2>3. w \in -1..ChatOrder /\ l \in -1..ChatOrder /\ ChatOrder \in Nat
    BY <2>1, <2>2, ChatAssumption DEF ChatInv, TurnTyped, Chat!Ads!Runs
  <2>4. l # -1 /\ w >= l /\ (w = -1 \/ w \in chatRun[m].buffer)
    BY <1>1, <2>1, <2>2 DEF ChatInv, TurnInv, PrefixHeld
  <2>5. l \in announced[m]
    BY <2>2, <2>4 DEF ChatInv, TurnInv, LastAnnounced
  <2>6. w < l + 1
    BY <2>3, <2>4, <2>5 DEF ChatInv, TurnInv, AfterModel, HeldBelow
  <2>7. w = l
    BY <2>3, <2>4, <2>6
  <2>8. QED
    BY <2>1, <2>5, <2>7
<1>2. Chat!FinishedIsWhatEngineSent
  BY <1>1 DEF Chat!FinishedIsWhatEngineSent
<1>3. Chat!ModelRunsForAcceptedRun
  BY DEF ChatInv, TurnInv, DuringModel, AckToCome, Unacknowledged, Chat!ModelRunsForAcceptedRun
<1>4. Chat!AbortHitsOwnRun
  BY DEF ChatInv, RowInv, RowTyped, Chat!Eng!RowMatchesRun, Chat!Eng!Claimed, Chat!Eng!AbortHitsOwnRun,
         Chat!AbortHitsOwnRun
<1>5. QED
  BY <1>2, <1>3, <1>4

\* ads and the engine agree about a turn whatever the topics lose, repeat or reorder
\* and whoever restarts: a finished turn shows the deltas 0..l for the l the engine
\* announced of it (EngineOutputService), the model runs only for a run ads accepted, and
\* an abort hits the run that holds the session (EngineService).
THEOREM TurnsAgreeHolds == ASSUME AckResponseAppearsOnce PROVE AnySpec => []TurnsAgree
<1> DEFINE I == part = "chat" => ChatInv
<1>1. AnyInit => I
  BY ChatInit DEF AnyInit
<1>2. I /\ [AnyNext]_vars => I'
  BY ChatStep, ChatStands DEF AnyNext, AdsMoves, ChatMoves, BrowserMoves, vars
<1>3. I => TurnsAgree
  BY ChatAgrees DEF TurnsAgree
<1>4. QED
  BY <1>1, <1>2, <1>3, PTL DEF AnySpec

-----------------------------------------------------------------------------
(***************************************************************************)
(* The session of the browser.  Under a provider whose refresh tokens stay *)
(* good every failed attempt of a request is a fault, so a request that    *)
(* gives up has seen two of them.  Under one whose tokens are spent by     *)
(* their use, whoever asks with a token that is not the newest overlaps    *)
(* the request that got the newest and has not stored it yet.              *)
(***************************************************************************)
Bindings == [pc : {"idle", "rotate", "asked", "answered", "failed", "bound", "unbound"},
             token : Nat, since : Nat, stored : Nat, tries : Nat, got : Nat, junk : BOOLEAN]
Providers == [alive : BOOLEAN, gen : Nat, oneTime : BOOLEAN]
BrowserTyped ==
    /\ clock \in Nat /\ row \in Nat /\ cookie \in Nat /\ missed \in Nat /\ spoilt \in Nat
    /\ provider \in Providers
    /\ loggedOut \in BOOLEAN
    /\ met \in SUBSET Requests
    /\ req \in [Requests -> Bindings]

\* Before the login there is nothing to bind.
BeforeLogin ==
    provider.gen = 0 => row = 0 /\ cookie = 0 /\ ~provider.alive /\ \A r \in Requests : req[r].pc = "idle"

\* A token that is bound, or about to be, was good when the request came.
WasGood(r) ==
    /\ req[r].since <= clock
    /\ req[r].pc \in {"answered", "bound"} => req[r].token > req[r].since

\* How often a request has tried, and what its failures count for.
Counts(n) == provider.alive /\ ~provider.oneTime => missed >= n
Tried(r) ==
    /\ req[r].pc = "rotate" => req[r].tries <= 1 /\ Counts(req[r].tries)
    /\ req[r].pc \in {"asked", "answered"} => req[r].tries \in 1..2 /\ Counts(req[r].tries - 1)
    /\ req[r].pc = "failed" => req[r].tries \in 1..2 /\ Counts(req[r].tries)

BrowserInv ==
    /\ BrowserTyped /\ BeforeLogin /\ Browser!OneFaultIsSurvived
    /\ \A r \in Requests : WasGood(r) /\ Tried(r)

\* No refresh token is known that was not issued; who rotates while another request
\* holds an answer overlaps it.
IsRotating(f) == f.pc \in {"rotate", "asked", "failed"}
Issued ==
    /\ row <= provider.gen
    /\ \A r \in Requests : req[r].got <= provider.gen /\ req[r].stored <= provider.gen
    /\ \A r, s \in Requests : req[r].pc = "answered" /\ IsRotating(req[s]) => s \in met

\* The newest token is stored, or one request holds it, which no other asks with.
Undisturbed == provider.oneTime /\ provider.alive /\ ~loggedOut /\ missed = 0 /\ spoilt = 0
Holds(r) == req[r].pc = "answered" /\ req[r].got # 0
HolderIsAhead ==
    \A r \in Requests : Holds(r) =>
        /\ req[r].got = provider.gen /\ row # provider.gen
        /\ \A s \in Requests : req[s].pc = "asked" => req[s].stored # provider.gen
        /\ \A s \in Requests : Holds(s) => s = r
NewestIsHeld ==
    row \in {0, provider.gen} \/ \E r \in Requests : req[r].pc = "answered" /\ req[r].got = provider.gen
OutdatedMet ==
    \A r \in Requests :
        /\ req[r].pc = "asked" /\ req[r].stored # provider.gen => r \in met
        /\ req[r].pc = "failed" => r \in met
ClashInv == Issued /\ (Undisturbed => HolderIsAhead /\ NewestIsHeld /\ OutdatedMet)

LEMMA BrowserInit == Browser!Init => BrowserInv /\ ClashInv
<1> SUFFICES ASSUME Browser!Init PROVE BrowserInv /\ ClashInv
  OBVIOUS
<1>1. PICK idle : idle = [pc |-> "idle", token |-> 0, since |-> 0, stored |-> 0, tries |-> 0, got |-> 0,
                          junk |-> FALSE]
  OBVIOUS
<1>2. /\ clock = 1 /\ provider \in [alive : {FALSE}, gen : {0}, oneTime : BOOLEAN] /\ row = 0 /\ cookie = 0
      /\ missed = 0 /\ spoilt = 0 /\ loggedOut = FALSE /\ met = {} /\ req = [r \in Requests |-> idle]
  BY <1>1 DEF Browser!Init, Browser!Idle
<1>3. idle \in Bindings /\ idle.pc = "idle" /\ idle.since = 0 /\ idle.got = 0 /\ idle.stored = 0
  BY <1>1 DEF Bindings
<1>4. provider \in Providers /\ provider.alive = FALSE /\ provider.gen = 0
  <2>1. PICK o \in BOOLEAN : provider = [alive |-> FALSE, gen |-> 0, oneTime |-> o]
    <3>1. /\ provider = [alive |-> provider.alive, gen |-> provider.gen, oneTime |-> provider.oneTime]
          /\ provider.alive = FALSE /\ provider.gen = 0 /\ provider.oneTime \in BOOLEAN
      BY <1>2
    <3> QED
      BY <3>1
  <2> QED
    BY <2>1 DEF Providers
<1>5. BrowserTyped
  BY <1>2, <1>3, <1>4 DEF BrowserTyped
<1>6. \A r \in Requests : req[r] = idle
  BY <1>2
<1>7. BeforeLogin /\ Browser!OneFaultIsSurvived
  BY <1>2, <1>3, <1>4, <1>6 DEF BeforeLogin, Browser!OneFaultIsSurvived
<1>8. \A r \in Requests : WasGood(r) /\ Tried(r)
  BY <1>2, <1>3, <1>6 DEF WasGood, Tried
<1>9. ClashInv
  BY <1>2, <1>3, <1>4, <1>6 DEF ClashInv, Issued, Undisturbed
<1> QED
  BY <1>5, <1>7, <1>8, <1>9 DEF BrowserInv

LEMMA BrowserStands == BrowserInv /\ ClashInv /\ UNCHANGED browserVars => BrowserInv' /\ ClashInv'
<1>1. BrowserInv /\ UNCHANGED browserVars => BrowserInv'
  BY DEF browserVars, BrowserInv, BrowserTyped, BeforeLogin, Browser!OneFaultIsSurvived, WasGood, Tried, Counts
<1>2. ClashInv /\ UNCHANGED browserVars => ClashInv'
  BY DEF browserVars, ClashInv, Issued, Undisturbed, HolderIsAhead, Holds, NewestIsHeld, OutdatedMet
<1> QED
  BY <1>1, <1>2

\* A step of one request: q is where its binding stands then.
LEMMA BindingMoves ==
    ASSUME BrowserInv, NEW r \in Requests, NEW q \in Bindings, req' = [req EXCEPT ![r] = q],
           clock' = clock, loggedOut' = loggedOut, met' \in SUBSET Requests,
           row' \in Nat, cookie' \in Nat, missed' \in Nat, missed' >= missed, spoilt' \in Nat,
           provider' \in Providers, provider'.alive = provider.alive,
           provider'.oneTime = provider.oneTime, provider'.gen # 0,
           (WasGood(r) /\ Tried(r))',
           ~provider.oneTime /\ provider.alive /\ ~loggedOut /\ missed' <= 1 =>
               row' # 0 /\ (q.pc = "unbound" => q.junk)
    PROVE  BrowserInv'
<1>1. req'[r] = q /\ (\A s \in Requests \ {r} : req'[s] = req[s]) /\ req' \in [Requests -> Bindings]
  BY DEF BrowserInv, BrowserTyped
<1>2. BrowserTyped' /\ BeforeLogin'
  BY <1>1 DEF BrowserInv, BrowserTyped, BeforeLogin
<1>3. ASSUME NEW s \in Requests \ {r} PROVE WasGood(s)' /\ Tried(s)'
  <2>1. req'[s] = req[s] /\ req[s] \in Bindings /\ WasGood(s) /\ Tried(s)
    BY <1>1 DEF BrowserInv, BrowserTyped
  <2>2. PICK t \in Nat : t = req[s].tries
    BY <2>1 DEF Bindings
  <2>3. missed \in Nat
    BY DEF BrowserInv, BrowserTyped
  <2>4. (missed >= t => missed' >= t) /\ (missed >= t - 1 => missed' >= t - 1)
    BY <2>2, <2>3
  <2>5. WasGood(s)'
    BY <2>1 DEF WasGood
  <2>6. Tried(s)'
    BY <2>1, <2>2, <2>4 DEF Tried, Counts
  <2> QED
    BY <2>5, <2>6
<1>4. Browser!OneFaultIsSurvived'
  <2>1. missed \in Nat /\ (missed' <= 1 => missed <= 1)
    BY DEF BrowserInv, BrowserTyped
  <2> QED
    BY <1>1, <2>1 DEF BrowserInv, Browser!OneFaultIsSurvived
<1> QED
  BY <1>2, <1>3, <1>4 DEF BrowserInv

\* A step of one request that issues no token and counts as no fault.
LEMMA ClashMoves ==
    ASSUME BrowserTyped, ClashInv, NEW r \in Requests, NEW q \in Bindings, req' = [req EXCEPT ![r] = q],
           UNCHANGED <<provider, missed, spoilt, loggedOut>>,
           met' \in SUBSET Requests, \A s \in Requests : s \in met /\ s # r => s \in met',
           row' \in Nat, row' <= provider.gen, q.got <= provider.gen, q.stored <= provider.gen,
           q.pc # "answered",
           IsRotating(q) => r \in met' \/ \A s \in Requests : req[s].pc # "answered",
           Undisturbed =>
               /\ row' = provider.gen => \A s \in Requests : s # r => ~Holds(s)
               /\ row' \in {0, provider.gen} \/ (row' = row /\ ~Holds(r))
               /\ q.pc = "asked" => q.stored = provider.gen \/ r \in met'
               /\ q.pc = "asked" => q.stored # provider.gen \/ \A s \in Requests : ~Holds(s)
               /\ q.pc = "failed" => r \in met'
    PROVE  ClashInv'
<1>1. req'[r] = q /\ \A s \in Requests : s # r => req'[s] = req[s]
  BY DEF BrowserTyped
<1>2. provider' = provider /\ provider.gen \in Nat
  BY DEF BrowserTyped, Providers
<1>3. Issued'
  BY <1>1, <1>2 DEF ClashInv, Issued, IsRotating
<1>4. ASSUME Undisturbed PROVE HolderIsAhead'
  <2>1. \A s \in Requests : s # r => (Holds(s)' <=> Holds(s))
    BY <1>1 DEF Holds
  <2>2. ~Holds(r)'
    BY <1>1 DEF Holds
  <2>3. HolderIsAhead
    BY <1>4 DEF ClashInv
  <2>4. ASSUME NEW s \in Requests, Holds(s)' PROVE row' # provider.gen
    <3>1. Holds(s) /\ s # r
      BY <2>1, <2>2, <2>4
    <3> QED
      BY <1>4, <3>1
  <2> QED
    BY <1>1, <1>2, <1>4, <2>1, <2>2, <2>3, <2>4 DEF HolderIsAhead, Holds
<1>5. ASSUME Undisturbed PROVE NewestIsHeld'
  <2>1. CASE row' \in {0, provider.gen}
    BY <1>2, <2>1 DEF NewestIsHeld
  <2>2. CASE row' = row /\ row \notin {0, provider.gen}
    <3>1. PICK s \in Requests : req[s].pc = "answered" /\ req[s].got = provider.gen
      BY <1>5, <2>2 DEF ClashInv, NewestIsHeld
    <3>2. provider.gen # 0
      BY <1>2, <2>2 DEF ClashInv, Issued, BrowserTyped
    <3>3. Holds(s)
      BY <3>1, <3>2 DEF Holds
    <3>4. ~Holds(r)
      BY <1>5, <2>2
    <3>5. req'[s].pc = "answered" /\ req'[s].got = provider.gen
      BY <1>1, <3>1, <3>3, <3>4
    <3> QED
      BY <1>2, <3>5 DEF NewestIsHeld
  <2> QED
    BY <1>5, <2>1, <2>2
<1>6. ASSUME Undisturbed PROVE OutdatedMet'
  BY <1>1, <1>2, <1>6 DEF ClashInv, OutdatedMet
<1>7. Undisturbed' <=> Undisturbed
  BY DEF Undisturbed
<1> QED
  BY <1>3, <1>4, <1>5, <1>6, <1>7 DEF ClashInv

LEMMA ReceiveBinds ==
    ASSUME BrowserInv, ClashInv, NEW r \in Requests, Browser!Receive(r) PROVE BrowserInv' /\ ClashInv'
<1>1. PICK q : q = [Browser!Idle EXCEPT !.token = cookie, !.since = clock,
                        !.pc = IF cookie - clock > Skew THEN "bound" ELSE "rotate"]
  OBVIOUS
<1>2. /\ cookie # 0 /\ req' = [req EXCEPT ![r] = q]
      /\ met' = IF \E s \in Requests : req[s].pc = "answered" THEN met \cup {r} ELSE met
      /\ UNCHANGED <<clock, provider, row, cookie, missed, spoilt, loggedOut>>
  BY <1>1 DEF Browser!Receive, Browser!To, Browser!faults
<1>3. /\ clock \in Nat /\ cookie \in Nat /\ row \in Nat /\ missed \in Nat /\ spoilt \in Nat
      /\ provider \in Providers /\ provider.gen # 0 /\ provider.gen \in Nat /\ met \in SUBSET Requests
  BY <1>2 DEF BrowserInv, BrowserTyped, BeforeLogin, Providers
<1>4. /\ q \in Bindings /\ q.pc \in {"bound", "rotate"} /\ q.since = clock /\ q.token = cookie /\ q.tries = 0
      /\ q.pc = "bound" => cookie > clock
      /\ q.got = 0 /\ q.stored = 0
  <2>1. q = [pc |-> IF cookie - clock > Skew THEN "bound" ELSE "rotate", token |-> cookie,
             since |-> clock, stored |-> 0, tries |-> 0, got |-> 0, junk |-> FALSE]
    BY <1>1 DEF Browser!Idle
  <2>2. cookie - clock > Skew => cookie > clock
    BY <1>3, TokenAssumption
  <2> QED
    BY <1>3, <2>1, <2>2 DEF Bindings
<1>5. req'[r] = q /\ req[r].pc = "idle"
  BY <1>2 DEF BrowserInv, BrowserTyped, Browser!Receive
<1>6. (WasGood(r) /\ Tried(r))'
  BY <1>2, <1>3, <1>4, <1>5 DEF WasGood, Tried, Counts
<1>7. ~provider.oneTime /\ provider.alive /\ ~loggedOut /\ missed <= 1 => row # 0
  BY DEF BrowserInv, Browser!OneFaultIsSurvived
<1>8. met' \in SUBSET Requests /\ \A s \in Requests : s \in met => s \in met'
  BY <1>2, <1>3
<1>9. missed' >= missed /\ missed' \in Nat
  BY <1>2, <1>3
<1>10. BrowserInv'
  BY <1>2, <1>3, <1>4, <1>6, <1>7, <1>8, <1>9, BindingMoves
<1>11. r \in met' \/ \A s \in Requests : req[s].pc # "answered"
  BY <1>2
<1>12. row' \in Nat /\ row' <= provider.gen /\ q.got <= provider.gen /\ q.stored <= provider.gen
  BY <1>2, <1>3, <1>4 DEF ClashInv, Issued
<1>13. ~Holds(r)
  BY <1>5 DEF Holds
<1>14. Undisturbed /\ row = provider.gen => \A s \in Requests : ~Holds(s)
  BY DEF ClashInv, HolderIsAhead
<1>15. BrowserTyped
  BY DEF BrowserInv
<1>16. ClashInv'
  BY <1>2, <1>4, <1>8, <1>11, <1>12, <1>13, <1>14, <1>15, ClashMoves
<1> QED
  BY <1>10, <1>16

\* A request in hand: what is known of it.
LEMMA InHand ==
    ASSUME BrowserInv, ClashInv, NEW r \in Requests, req[r].pc # "idle"
    PROVE  /\ req[r] \in Bindings /\ WasGood(r) /\ Tried(r)
           /\ clock \in Nat /\ cookie \in Nat /\ row \in Nat /\ missed \in Nat /\ spoilt \in Nat
           /\ provider \in Providers /\ provider.gen # 0 /\ provider.gen \in Nat /\ met \in SUBSET Requests
           /\ ~provider.oneTime /\ provider.alive /\ ~loggedOut /\ missed <= 1 => row # 0
           /\ row <= provider.gen /\ req[r].got <= provider.gen /\ req[r].stored <= provider.gen
           /\ Undisturbed /\ row = provider.gen => \A s \in Requests : ~Holds(s)
           /\ BrowserTyped
  BY DEF BrowserInv, BrowserTyped, BeforeLogin, Browser!OneFaultIsSurvived, ClashInv, Issued, HolderIsAhead,
     Providers

\* The record a request ends with.
LEMMA EndedRecord ==
    ASSUME NEW r \in Requests, req[r] \in Bindings, NEW p \in {"bound", "unbound"}, NEW j \in BOOLEAN
    PROVE  \E q \in Bindings :
               /\ q = [Browser!Ended(r, p) EXCEPT !.junk = j]
               /\ (~j => q = Browser!Ended(r, p))
               /\ q.pc = p /\ q.token = req[r].token /\ q.since = req[r].since
               /\ q.stored = 0 /\ q.got = 0 /\ q.junk = j
<1>1. PICK q : q = [pc |-> p, token |-> req[r].token, since |-> req[r].since, stored |-> 0, tries |-> 0,
                    got |-> 0, junk |-> j]
  OBVIOUS
<1>2. /\ q \in Bindings /\ q.pc = p /\ q.token = req[r].token /\ q.since = req[r].since
      /\ q.stored = 0 /\ q.got = 0 /\ q.junk = j
  BY <1>1 DEF Bindings
<1>3. PICK e : e = Browser!Ended(r, p)
  OBVIOUS
<1>4. e = [pc |-> p, token |-> req[r].token, since |-> req[r].since, stored |-> 0, tries |-> 0, got |-> 0,
           junk |-> FALSE]
  BY <1>3 DEF Browser!Ended, Browser!Idle
<1>5. [e EXCEPT !.junk = j] = q
  BY <1>1, <1>4
<1>6. ~j => q = e
  BY <1>1, <1>4
<1> QED
  BY <1>2, <1>3, <1>5, <1>6

LEMMA AskBinds ==
    ASSUME BrowserInv, ClashInv, NEW r \in Requests, Browser!Ask(r) PROVE BrowserInv' /\ ClashInv'
<1>1. req[r].pc = "rotate" /\ UNCHANGED <<clock, provider, row, cookie, missed, spoilt, loggedOut, met>>
  BY DEF Browser!Ask, Browser!faults
<1>2. /\ req[r] \in Bindings /\ WasGood(r) /\ Tried(r)
      /\ clock \in Nat /\ cookie \in Nat /\ row \in Nat /\ missed \in Nat /\ spoilt \in Nat
      /\ provider \in Providers /\ provider.gen # 0 /\ provider.gen \in Nat /\ met \in SUBSET Requests
      /\ ~provider.oneTime /\ provider.alive /\ ~loggedOut /\ missed <= 1 => row # 0
      /\ row <= provider.gen /\ req[r].got <= provider.gen
      /\ Undisturbed /\ row = provider.gen => \A s \in Requests : ~Holds(s)
      /\ BrowserTyped
  BY <1>1, InHand
<1>3. missed' >= missed /\ ~Holds(r)
  BY <1>1, <1>2 DEF Holds
<1>4. CASE row = 0
  <2>1. PICK q \in Bindings :
            /\ q = Browser!Ended(r, Browser!Left(r))
            /\ q.pc = Browser!Left(r) /\ q.token = req[r].token /\ q.since = req[r].since
            /\ q.stored = 0 /\ q.got = 0
    BY <1>2, EndedRecord DEF Browser!Left
  <2>2. req' = [req EXCEPT ![r] = q]
    BY <1>4, <2>1 DEF Browser!Ask, Browser!To
  <2>3. q.pc \in {"bound", "unbound"} /\ (q.pc = "bound" => req[r].token > req[r].since)
    BY <2>1 DEF Browser!Left
  <2>4. req'[r] = q
    BY <1>2, <2>2 DEF BrowserTyped
  <2>5. (WasGood(r) /\ Tried(r))'
    BY <1>1, <1>2, <2>1, <2>3, <2>4 DEF WasGood, Tried
  <2>6. BrowserInv'
    BY <1>1, <1>2, <1>3, <1>4, <2>2, <2>3, <2>5, BindingMoves
  <2>7. q.pc \notin {"asked", "answered", "failed"} /\ ~IsRotating(q)
    BY <2>3 DEF IsRotating
  <2>8. ClashInv'
    BY <1>1, <1>2, <1>3, <1>4, <2>1, <2>2, <2>7, ClashMoves
  <2> QED
    BY <2>6, <2>8
<1>5. CASE row # 0
  <2>1. PICK q : q = [req[r] EXCEPT !.pc = "asked", !.stored = row, !.tries = @ + 1]
    OBVIOUS
  <2>2. req' = [req EXCEPT ![r] = q]
    BY <1>5, <2>1 DEF Browser!Ask, Browser!To
  <2>3. /\ q \in Bindings /\ q.pc = "asked" /\ q.since = req[r].since /\ q.tries = req[r].tries + 1
        /\ q.stored = row /\ q.got = req[r].got
    <3>1. q = [pc |-> "asked", token |-> req[r].token, since |-> req[r].since, stored |-> row,
               tries |-> req[r].tries + 1, got |-> req[r].got, junk |-> req[r].junk]
      BY <1>2, <2>1 DEF Bindings
    <3>2. /\ req[r].token \in Nat /\ req[r].since \in Nat /\ req[r].tries + 1 \in Nat /\ req[r].got \in Nat
          /\ req[r].junk \in BOOLEAN
      BY <1>2 DEF Bindings
    <3> QED
      BY <1>2, <3>1, <3>2 DEF Bindings
  <2>4. req'[r] = q
    BY <1>2, <2>2 DEF BrowserTyped
  <2>5. req[r].tries \in Nat /\ req[r].tries <= 1 /\ Counts(req[r].tries)
    BY <1>1, <1>2 DEF Tried, Bindings
  <2>6. q.tries \in 1..2 /\ q.tries - 1 = req[r].tries
    BY <2>3, <2>5
  <2>7. (WasGood(r) /\ Tried(r))'
    BY <1>1, <1>2, <2>3, <2>4, <2>5, <2>6 DEF WasGood, Tried, Counts
  <2>8. BrowserInv'
    BY <1>1, <1>2, <1>3, <2>2, <2>3, <2>7, BindingMoves
  <2>9. r \in met \/ \A s \in Requests : req[s].pc # "answered"
    BY <1>1 DEF ClashInv, Issued, IsRotating
  <2>10. Undisturbed => row = provider.gen \/ r \in met
    BY <1>5, <2>9 DEF ClashInv, NewestIsHeld
  <2>11. ClashInv'
    BY <1>1, <1>2, <1>3, <1>5, <2>2, <2>3, <2>9, <2>10, ClashMoves
  <2> QED
    BY <2>8, <2>11
<1> QED
  BY <1>4, <1>5

\* A step that issues a refresh token, or none.
LEMMA IssuedFacts ==
    ASSUME BrowserTyped, NEW g, g \in {provider.gen, provider.gen + 1}, Browser!Issued(g)
    PROVE  /\ g \in Nat /\ provider' \in Providers /\ provider'.gen = g /\ provider.gen <= g
           /\ provider'.alive = provider.alive /\ provider'.oneTime = provider.oneTime
<1>1. provider \in Providers /\ provider.gen \in Nat
  BY DEF BrowserTyped, Providers
<1>2. provider' = [alive |-> provider.alive, gen |-> g, oneTime |-> provider.oneTime]
  BY <1>1 DEF Browser!Issued, Providers
<1> QED
  BY <1>1, <1>2 DEF Providers

LEMMA RefreshedBinds ==
    ASSUME BrowserInv, ClashInv, NEW r \in Requests, Browser!Refreshed(r) PROVE BrowserInv' /\ ClashInv'
<1>1. /\ req[r].pc = "asked" /\ UNCHANGED <<clock, row, cookie, missed, spoilt, loggedOut>>
      /\ Browser!Honoured(req[r].stored)
      /\ met' = met \cup (Browser!Rotating \ {r})
  BY DEF Browser!Refreshed, Browser!faults
<1>2. /\ req[r] \in Bindings /\ WasGood(r) /\ Tried(r)
      /\ clock \in Nat /\ cookie \in Nat /\ row \in Nat /\ missed \in Nat /\ spoilt \in Nat
      /\ provider \in Providers /\ provider.gen # 0 /\ provider.gen \in Nat /\ met \in SUBSET Requests
      /\ ~provider.oneTime /\ provider.alive /\ ~loggedOut /\ missed <= 1 => row # 0
      /\ row <= provider.gen /\ req[r].stored <= provider.gen
      /\ BrowserTyped
  BY <1>1, InHand
<1>3. PICK g \in {provider.gen, provider.gen + 1} :
          /\ Browser!Issued(g)
          /\ Browser!To(r, [req[r] EXCEPT !.pc = "answered", !.token = clock + Life, !.stored = 0,
                                          !.got = IF g = provider.gen THEN 0 ELSE g])
  BY DEF Browser!Refreshed
<1>4. /\ g \in Nat /\ provider' \in Providers /\ provider'.gen = g /\ provider.gen <= g
      /\ provider'.alive = provider.alive /\ provider'.oneTime = provider.oneTime /\ g # 0
  BY <1>2, <1>3, IssuedFacts
<1>5. PICK q : q = [req[r] EXCEPT !.pc = "answered", !.token = clock + Life, !.stored = 0,
                                  !.got = IF g = provider.gen THEN 0 ELSE g]
  OBVIOUS
<1>6. req' = [req EXCEPT ![r] = q]
  BY <1>3, <1>5 DEF Browser!To
<1>7. /\ q \in Bindings /\ q.pc = "answered" /\ q.since = req[r].since /\ q.tries = req[r].tries
      /\ q.token = clock + Life /\ q.stored = 0 /\ q.got = IF g = provider.gen THEN 0 ELSE g
  <2>1. q = [pc |-> "answered", token |-> clock + Life, since |-> req[r].since, stored |-> 0,
             tries |-> req[r].tries, got |-> IF g = provider.gen THEN 0 ELSE g, junk |-> req[r].junk]
    BY <1>2, <1>5 DEF Bindings
  <2>2. /\ req[r].since \in Nat /\ req[r].tries \in Nat /\ req[r].junk \in BOOLEAN /\ clock + Life \in Nat
        /\ (IF g = provider.gen THEN 0 ELSE g) \in Nat
    BY <1>2, <1>4, TokenAssumption DEF Bindings
  <2> QED
    BY <2>1, <2>2 DEF Bindings
<1>8. req'[r] = q /\ \A s \in Requests : s # r => req'[s] = req[s]
  BY <1>2, <1>6 DEF BrowserTyped
<1>9. req[r].since <= clock /\ req[r].since \in Nat
  BY <1>2 DEF WasGood, Bindings
<1>10. clock + Life > req[r].since
  BY <1>2, <1>9, TokenAssumption
<1>11. (WasGood(r) /\ Tried(r))'
  BY <1>1, <1>2, <1>4, <1>7, <1>8, <1>9, <1>10 DEF WasGood, Tried, Counts
<1>12. /\ met' \in SUBSET Requests /\ missed' >= missed
       /\ \A s \in Requests : s # r /\ IsRotating(req[s]) => s \in met'
  BY <1>1, <1>2 DEF Browser!Rotating, IsRotating
<1>13. BrowserInv'
  BY <1>1, <1>2, <1>4, <1>6, <1>7, <1>11, <1>12, BindingMoves
<1>14. Issued'
  <2>1. \A s \in Requests : s # r => req[s].got <= g /\ req[s].stored <= g
    <3> TAKE s \in Requests
    <3>1. req[s].got \in Nat /\ req[s].stored \in Nat /\ req[s].got <= provider.gen /\ req[s].stored <= provider.gen
      BY <1>2 DEF ClashInv, Issued, BrowserTyped, Bindings
    <3> QED
      BY <1>2, <1>4, <3>1
  <2>2. row <= g /\ q.got <= g /\ q.stored <= g
    BY <1>2, <1>4, <1>7
  <2>3. \A s, t \in Requests : req'[s].pc = "answered" /\ IsRotating(req'[t]) => t \in met'
    BY <1>7, <1>8, <1>12 DEF IsRotating
  <2> QED
    BY <1>1, <1>4, <1>7, <1>8, <2>1, <2>2, <2>3 DEF Issued, IsRotating
<1>15. ASSUME Undisturbed' PROVE (HolderIsAhead /\ NewestIsHeld /\ OutdatedMet)'
  <2>1. Undisturbed /\ HolderIsAhead /\ NewestIsHeld /\ OutdatedMet
    BY <1>1, <1>4, <1>15 DEF Undisturbed, ClashInv
  <2>2. req[r].stored = provider.gen
    BY <1>1, <2>1 DEF Browser!Honoured, Undisturbed
  <2>3. \A s \in Requests : ~Holds(s)
    BY <1>1, <2>1, <2>2 DEF HolderIsAhead
  <2>4. \A s \in Requests : s # r => ~(Holds(s)')
    BY <1>8, <2>3 DEF Holds
  <2>5. \A s \in Requests : s # r /\ req[s].pc = "asked" => req[s].stored <= provider.gen /\ req[s].stored \in Nat
    BY <1>2 DEF ClashInv, Issued, BrowserTyped, Bindings
  <2>6. row \in {0, provider.gen}
    <3> SUFFICES ASSUME row \notin {0, provider.gen} PROVE FALSE
      OBVIOUS
    <3>1. PICK s \in Requests : req[s].pc = "answered" /\ req[s].got = provider.gen
      BY <2>1 DEF NewestIsHeld
    <3> QED
      BY <1>2, <2>3, <3>1 DEF Holds
  <2>7. HolderIsAhead'
    <3>1. Holds(r)' => g = provider.gen + 1 /\ q.got = g
      BY <1>3, <1>7, <1>8 DEF Holds
    <3>2. g = provider.gen + 1 => row # g /\ \A s \in Requests : s # r /\ req[s].pc = "asked" => req[s].stored # g
      BY <1>2, <2>5
    <3> QED
      BY <1>1, <1>4, <1>7, <1>8, <2>4, <3>1, <3>2 DEF HolderIsAhead
  <2>8. NewestIsHeld'
    BY <1>1, <1>3, <1>4, <1>7, <1>8, <2>6 DEF NewestIsHeld
  <2>9. OutdatedMet'
    BY <1>7, <1>8, <1>12 DEF OutdatedMet, IsRotating
  <2> QED
    BY <2>7, <2>8, <2>9
<1> QED
  BY <1>13, <1>14, <1>15 DEF ClashInv

\* A request whose attempt failed, whatever the provider did with it.
LEMMA FailedRecord ==
    ASSUME NEW r \in Requests, req[r] \in Bindings
    PROVE  \E q \in Bindings :
               /\ q = [req[r] EXCEPT !.pc = "failed", !.stored = 0]
               /\ q.pc = "failed" /\ q.since = req[r].since /\ q.tries = req[r].tries
               /\ q.got = req[r].got /\ q.stored = 0
<1>1. PICK q : q = [req[r] EXCEPT !.pc = "failed", !.stored = 0]
  OBVIOUS
<1>2. q = [pc |-> "failed", token |-> req[r].token, since |-> req[r].since, stored |-> 0,
           tries |-> req[r].tries, got |-> req[r].got, junk |-> req[r].junk]
  BY <1>1 DEF Bindings
<1> QED
  BY <1>1, <1>2 DEF Bindings

LEMMA RefusedBinds ==
    ASSUME BrowserInv, ClashInv, NEW r \in Requests, Browser!Refused(r) PROVE BrowserInv' /\ ClashInv'
<1>1. /\ req[r].pc = "asked" /\ UNCHANGED <<clock, provider, row, cookie, missed, spoilt, loggedOut, met>>
      /\ ~Browser!Honoured(req[r].stored)
  BY DEF Browser!Refused, Browser!faults
<1>2. /\ req[r] \in Bindings /\ WasGood(r) /\ Tried(r)
      /\ clock \in Nat /\ cookie \in Nat /\ row \in Nat /\ missed \in Nat /\ spoilt \in Nat
      /\ provider \in Providers /\ provider.gen # 0 /\ provider.gen \in Nat /\ met \in SUBSET Requests
      /\ ~provider.oneTime /\ provider.alive /\ ~loggedOut /\ missed <= 1 => row # 0
      /\ row <= provider.gen /\ req[r].got <= provider.gen
      /\ Undisturbed /\ row = provider.gen => \A s \in Requests : ~Holds(s)
      /\ BrowserTyped
  BY <1>1, InHand
<1>3. PICK q \in Bindings :
          /\ q = [req[r] EXCEPT !.pc = "failed", !.stored = 0]
          /\ q.pc = "failed" /\ q.since = req[r].since /\ q.tries = req[r].tries
          /\ q.got = req[r].got /\ q.stored = 0
  BY <1>2, FailedRecord
<1>4. req' = [req EXCEPT ![r] = q]
  BY <1>3 DEF Browser!Refused, Browser!To
<1>5. req'[r] = q /\ ~Holds(r)
  BY <1>1, <1>2, <1>4 DEF BrowserTyped, Holds
<1>6. ~(provider.alive /\ ~provider.oneTime)
  BY <1>1 DEF Browser!Honoured
<1>7. req[r].tries \in 1..2
  BY <1>1, <1>2 DEF Tried
<1>8. (WasGood(r) /\ Tried(r))'
  BY <1>1, <1>2, <1>3, <1>5, <1>6, <1>7 DEF WasGood, Tried, Counts
<1>9. missed' >= missed
  BY <1>1, <1>2
<1>10. BrowserInv'
  BY <1>1, <1>2, <1>3, <1>4, <1>8, <1>9, BindingMoves
<1>11. Undisturbed => r \in met
  <2> SUFFICES ASSUME Undisturbed PROVE r \in met
    OBVIOUS
  <2>1. req[r].stored # provider.gen
    BY <1>1 DEF Undisturbed, Browser!Honoured
  <2> QED
    BY <1>1, <2>1 DEF ClashInv, OutdatedMet
<1>12. r \in met \/ \A s \in Requests : req[s].pc # "answered"
  BY <1>1 DEF ClashInv, Issued, IsRotating
<1>13. /\ row' = row /\ row' \in Nat /\ row' <= provider.gen /\ q.got <= provider.gen /\ q.stored <= provider.gen
       /\ UNCHANGED <<provider, missed, spoilt, loggedOut>>
       /\ met' \in SUBSET Requests /\ \A s \in Requests : s \in met /\ s # r => s \in met'
       /\ q.pc # "answered" /\ q.pc # "asked"
  BY <1>1, <1>2, <1>3
<1>14. IsRotating(q) => r \in met' \/ \A s \in Requests : req[s].pc # "answered"
  BY <1>1, <1>12
<1>15. Undisturbed =>
           /\ row' = provider.gen => \A s \in Requests : s # r => ~Holds(s)
           /\ row' \in {0, provider.gen} \/ (row' = row /\ ~Holds(r))
           /\ q.pc = "failed" => r \in met'
  BY <1>1, <1>2, <1>5, <1>11, <1>13
<1>16. ClashInv'
  BY <1>2, <1>4, <1>13, <1>14, <1>15, ClashMoves
<1> QED
  BY <1>10, <1>16

\* After a fault nothing is claimed any more of who clashed with whom.
LEMMA FaultDisturbs ==
    ASSUME BrowserTyped, ClashInv, NEW r \in Requests, NEW q \in Bindings, req' = [req EXCEPT ![r] = q],
           ~(Undisturbed'), UNCHANGED <<row, met>>, NEW g \in Nat, provider.gen <= g, provider'.gen = g,
           req[r].pc = "asked", q.pc # "answered", q.got <= g, q.stored <= g,
           provider.gen \in Nat, row \in Nat, row <= provider.gen
    PROVE  ClashInv'
<1>1. req'[r] = q /\ \A s \in Requests : s # r => req'[s] = req[s]
  BY DEF BrowserTyped
<1>2. \A s \in Requests : s # r => req[s].got <= g /\ req[s].stored <= g
  <2> TAKE s \in Requests
  <2>1. req[s].got \in Nat /\ req[s].stored \in Nat /\ req[s].got <= provider.gen /\ req[s].stored <= provider.gen
    BY DEF ClashInv, Issued, BrowserTyped, Bindings
  <2> QED
    BY <2>1
<1>3. row' <= provider'.gen
  OBVIOUS
<1>4. \A s, t \in Requests : req'[s].pc = "answered" /\ IsRotating(req'[t]) => t \in met'
  BY <1>1 DEF ClashInv, Issued, IsRotating
<1>5. Issued'
  BY <1>1, <1>2, <1>3, <1>4 DEF Issued, IsRotating
<1> QED
  BY <1>5 DEF ClashInv

LEMMA MissedBinds ==
    ASSUME BrowserInv, ClashInv, NEW r \in Requests, Browser!Missed(r) PROVE BrowserInv' /\ ClashInv'
<1>1. /\ req[r].pc = "asked" /\ UNCHANGED <<clock, row, cookie, spoilt, loggedOut, met>>
      /\ missed' = missed + 1
  BY DEF Browser!Missed
<1>2. /\ req[r] \in Bindings /\ WasGood(r) /\ Tried(r)
      /\ clock \in Nat /\ cookie \in Nat /\ row \in Nat /\ missed \in Nat /\ spoilt \in Nat
      /\ provider \in Providers /\ provider.gen # 0 /\ provider.gen \in Nat /\ met \in SUBSET Requests
      /\ ~provider.oneTime /\ provider.alive /\ ~loggedOut /\ missed <= 1 => row # 0
      /\ row <= provider.gen /\ req[r].got <= provider.gen
      /\ BrowserTyped
  BY <1>1, InHand
<1>3. PICK g \in {provider.gen, provider.gen + 1} : Browser!Issued(g)
  BY DEF Browser!Missed
<1>4. /\ g \in Nat /\ provider' \in Providers /\ provider'.gen = g /\ provider.gen <= g
      /\ provider'.alive = provider.alive /\ provider'.oneTime = provider.oneTime /\ g # 0
  BY <1>2, <1>3, IssuedFacts
<1>5. PICK q \in Bindings :
          /\ q = [req[r] EXCEPT !.pc = "failed", !.stored = 0]
          /\ q.pc = "failed" /\ q.since = req[r].since /\ q.tries = req[r].tries
          /\ q.got = req[r].got /\ q.stored = 0
  BY <1>2, FailedRecord
<1>6. req' = [req EXCEPT ![r] = q]
  BY <1>5 DEF Browser!Missed, Browser!To
<1>7. req'[r] = q
  BY <1>2, <1>6 DEF BrowserTyped
<1>8. req[r].tries \in 1..2 /\ Counts(req[r].tries - 1)
  BY <1>1, <1>2 DEF Tried
<1>9. /\ missed' \in Nat /\ missed' >= missed /\ missed' # 0 /\ (missed' <= 1 => missed <= 1)
      /\ (provider.alive /\ ~provider.oneTime => missed' >= req[r].tries)
  BY <1>1, <1>2, <1>8 DEF Counts
<1>10. (WasGood(r) /\ Tried(r))'
  BY <1>1, <1>2, <1>4, <1>5, <1>7, <1>8, <1>9 DEF WasGood, Tried, Counts
<1>11. BrowserInv'
  BY <1>1, <1>2, <1>4, <1>5, <1>6, <1>9, <1>10, BindingMoves
<1>12. q.got \in Nat /\ q.got <= g /\ q.stored <= g
  BY <1>2, <1>4, <1>5 DEF Bindings
<1>13. ClashInv'
  BY <1>1, <1>2, <1>4, <1>5, <1>6, <1>9, <1>12, FaultDisturbs DEF Undisturbed
<1> QED
  BY <1>11, <1>13

LEMMA UnusableBinds ==
    ASSUME BrowserInv, ClashInv, NEW r \in Requests, Browser!Unusable(r) PROVE BrowserInv' /\ ClashInv'
<1>1. /\ req[r].pc = "asked" /\ UNCHANGED <<clock, row, cookie, missed, loggedOut, met>>
      /\ spoilt' = spoilt + 1
  BY DEF Browser!Unusable
<1>2. /\ req[r] \in Bindings /\ WasGood(r) /\ Tried(r)
      /\ clock \in Nat /\ cookie \in Nat /\ row \in Nat /\ missed \in Nat /\ spoilt \in Nat
      /\ provider \in Providers /\ provider.gen # 0 /\ provider.gen \in Nat /\ met \in SUBSET Requests
      /\ ~provider.oneTime /\ provider.alive /\ ~loggedOut /\ missed <= 1 => row # 0
      /\ row <= provider.gen
      /\ BrowserTyped
  BY <1>1, InHand
<1>3. PICK g \in {provider.gen, provider.gen + 1} : Browser!Issued(g)
  BY DEF Browser!Unusable
<1>4. /\ g \in Nat /\ provider' \in Providers /\ provider'.gen = g /\ provider.gen <= g
      /\ provider'.alive = provider.alive /\ provider'.oneTime = provider.oneTime /\ g # 0
  BY <1>2, <1>3, IssuedFacts
<1>5. PICK q \in Bindings :
          /\ q = [Browser!Ended(r, Browser!Left(r)) EXCEPT !.junk = TRUE]
          /\ q.pc = Browser!Left(r) /\ q.token = req[r].token /\ q.since = req[r].since
          /\ q.stored = 0 /\ q.got = 0 /\ q.junk = TRUE
  BY <1>2, EndedRecord DEF Browser!Left
<1>6. req' = [req EXCEPT ![r] = q]
  BY <1>5 DEF Browser!Unusable, Browser!To
<1>7. req'[r] = q
  BY <1>2, <1>6 DEF BrowserTyped
<1>8. q.pc \in {"bound", "unbound"} /\ (q.pc = "bound" => req[r].token > req[r].since)
  BY <1>5 DEF Browser!Left
<1>9. missed' >= missed /\ spoilt' \in Nat /\ spoilt' # 0
  BY <1>1, <1>2
<1>10. (WasGood(r) /\ Tried(r))'
  BY <1>1, <1>2, <1>5, <1>7, <1>8 DEF WasGood, Tried
<1>11. BrowserInv'
  BY <1>1, <1>2, <1>4, <1>5, <1>6, <1>9, <1>10, BindingMoves
<1>12. q.got <= g /\ q.stored <= g
  BY <1>4, <1>5
<1>13. ClashInv'
  BY <1>1, <1>2, <1>4, <1>6, <1>8, <1>9, <1>12, FaultDisturbs DEF Undisturbed
<1> QED
  BY <1>11, <1>13

LEMMA StoreBinds ==
    ASSUME BrowserInv, ClashInv, NEW r \in Requests, Browser!Store(r) PROVE BrowserInv' /\ ClashInv'
<1>1. /\ req[r].pc = "answered" /\ row' = IF req[r].got = 0 THEN row ELSE req[r].got
      /\ UNCHANGED <<clock, provider, cookie, missed, spoilt, loggedOut, met>>
  BY DEF Browser!Store, Browser!faults
<1>2. /\ req[r] \in Bindings /\ WasGood(r) /\ Tried(r)
      /\ clock \in Nat /\ cookie \in Nat /\ row \in Nat /\ missed \in Nat /\ spoilt \in Nat
      /\ provider \in Providers /\ provider.gen # 0 /\ provider.gen \in Nat /\ met \in SUBSET Requests
      /\ ~provider.oneTime /\ provider.alive /\ ~loggedOut /\ missed <= 1 => row # 0
      /\ row <= provider.gen /\ req[r].got <= provider.gen
      /\ Undisturbed /\ row = provider.gen => \A s \in Requests : ~Holds(s)
      /\ BrowserTyped
  BY <1>1, InHand
<1>3. PICK q \in Bindings :
          /\ q = Browser!Ended(r, "bound")
          /\ q.pc = "bound" /\ q.token = req[r].token /\ q.since = req[r].since
          /\ q.stored = 0 /\ q.got = 0
  BY <1>2, EndedRecord
<1>4. req' = [req EXCEPT ![r] = q]
  BY <1>3 DEF Browser!Store, Browser!To
<1>5. req'[r] = q
  BY <1>2, <1>4 DEF BrowserTyped
<1>6. row' \in Nat /\ row' <= provider.gen /\ (row # 0 => row' # 0)
  BY <1>1, <1>2 DEF Bindings
<1>7. (WasGood(r) /\ Tried(r))'
  BY <1>1, <1>2, <1>3, <1>5 DEF WasGood, Tried
<1>8. missed' >= missed
  BY <1>1, <1>2
<1>9. BrowserInv'
  BY <1>1, <1>2, <1>3, <1>4, <1>6, <1>7, <1>8, BindingMoves
<1>10. Undisturbed => HolderIsAhead
  BY DEF ClashInv
<1>11. ASSUME Undisturbed, row' = provider.gen, NEW s \in Requests, s # r PROVE ~Holds(s)
  <2>1. CASE req[r].got = 0
    BY <1>1, <1>2, <1>11, <2>1
  <2>2. CASE req[r].got # 0
    BY <1>1, <1>10, <1>11, <2>2 DEF HolderIsAhead, Holds
  <2> QED
    BY <2>1, <2>2
<1>12. Undisturbed => row' \in {0, provider.gen} \/ (row' = row /\ ~Holds(r))
  BY <1>1, <1>10 DEF HolderIsAhead, Holds
<1>13. q.pc \notin {"asked", "answered", "failed"} /\ ~IsRotating(q)
  BY <1>3 DEF IsRotating
<1>14. q.got <= provider.gen /\ q.stored <= provider.gen
  BY <1>2, <1>3
<1>15. ClashInv'
  BY <1>1, <1>2, <1>4, <1>6, <1>11, <1>12, <1>13, <1>14, ClashMoves
<1> QED
  BY <1>9, <1>15

LEMMA FailBinds ==
    ASSUME BrowserInv, ClashInv, NEW r \in Requests, Browser!Fail(r) PROVE BrowserInv' /\ ClashInv'
<1>1. req[r].pc = "failed" /\ UNCHANGED <<clock, provider, cookie, missed, spoilt, loggedOut, met>>
  BY DEF Browser!Fail, Browser!faults
<1>2. /\ req[r] \in Bindings /\ WasGood(r) /\ Tried(r)
      /\ clock \in Nat /\ cookie \in Nat /\ row \in Nat /\ missed \in Nat /\ spoilt \in Nat
      /\ provider \in Providers /\ provider.gen # 0 /\ provider.gen \in Nat /\ met \in SUBSET Requests
      /\ ~provider.oneTime /\ provider.alive /\ ~loggedOut /\ missed <= 1 => row # 0
      /\ row <= provider.gen /\ req[r].got <= provider.gen /\ req[r].stored <= provider.gen
      /\ Undisturbed /\ row = provider.gen => \A s \in Requests : ~Holds(s)
      /\ BrowserTyped
  BY <1>1, InHand
<1>3. req[r].tries \in 1..2 /\ Counts(req[r].tries) /\ ~Holds(r) /\ missed' >= missed
  BY <1>1, <1>2 DEF Tried, Holds
<1>4. CASE req[r].tries = 1
  <2>1. PICK q : q = [req[r] EXCEPT !.pc = "rotate"]
    OBVIOUS
  <2>2. req' = [req EXCEPT ![r] = q] /\ row' = row
    BY <1>4, <2>1 DEF Browser!Fail, Browser!To
  <2>3. /\ q \in Bindings /\ q.pc = "rotate" /\ q.since = req[r].since /\ q.tries = 1
        /\ q.got = req[r].got /\ q.stored = req[r].stored
    BY <1>2, <1>4, <2>1 DEF Bindings
  <2>4. req'[r] = q
    BY <1>2, <2>2 DEF BrowserTyped
  <2>5. (WasGood(r) /\ Tried(r))'
    BY <1>1, <1>2, <1>3, <1>4, <2>3, <2>4 DEF WasGood, Tried, Counts
  <2>6. BrowserInv'
    BY <1>1, <1>2, <1>3, <2>2, <2>3, <2>5, BindingMoves
  <2>7. r \in met \/ \A s \in Requests : req[s].pc # "answered"
    BY <1>1 DEF ClashInv, Issued, IsRotating
  <2>8. ClashInv'
    BY <1>1, <1>2, <1>3, <2>2, <2>3, <2>7, ClashMoves
  <2> QED
    BY <2>6, <2>8
<1>5. CASE req[r].tries = 2
  <2>1. PICK q \in Bindings :
            /\ q = Browser!Ended(r, Browser!Left(r))
            /\ q.pc = Browser!Left(r) /\ q.token = req[r].token /\ q.since = req[r].since
            /\ q.stored = 0 /\ q.got = 0
    BY <1>2, EndedRecord DEF Browser!Left
  <2>2. req' = [req EXCEPT ![r] = q] /\ row' \in {0, row}
    BY <1>5, <2>1 DEF Browser!Fail, Browser!To
  <2>3. q.pc \in {"bound", "unbound"} /\ (q.pc = "bound" => req[r].token > req[r].since)
    BY <2>1 DEF Browser!Left
  <2>4. req'[r] = q
    BY <1>2, <2>2 DEF BrowserTyped
  <2>5. (WasGood(r) /\ Tried(r))'
    BY <1>1, <1>2, <2>1, <2>3, <2>4 DEF WasGood, Tried
  <2>6. ~provider.oneTime /\ provider.alive => ~(missed <= 1)
    BY <1>2, <1>3, <1>5 DEF Counts
  <2>7. row' \in Nat /\ row' <= provider.gen /\ q.got <= provider.gen /\ q.stored <= provider.gen
    BY <1>2, <2>1, <2>2
  <2>8. BrowserInv'
    BY <1>1, <1>2, <1>3, <2>2, <2>3, <2>5, <2>6, <2>7, BindingMoves
  <2>9. q.pc \notin {"asked", "answered", "failed"} /\ ~IsRotating(q)
    BY <2>3 DEF IsRotating
  <2>10. Undisturbed /\ row' = provider.gen => \A s \in Requests : ~Holds(s)
    BY <1>2, <2>2
  <2>11. Undisturbed => row' \in {0, provider.gen} \/ row' = row
    BY <2>2
  <2>12. ClashInv'
    BY <1>1, <1>2, <1>3, <2>2, <2>7, <2>9, <2>10, <2>11, ClashMoves
  <2> QED
    BY <2>8, <2>12
<1> QED
  BY <1>3, <1>4, <1>5

LEMMA RespondBinds ==
    ASSUME BrowserInv, ClashInv, NEW r \in Requests, Browser!Respond(r) PROVE BrowserInv' /\ ClashInv'
<1>1. /\ req[r].pc \in {"bound", "unbound"} /\ cookie' = req[r].token /\ met' = met \ {r}
      /\ UNCHANGED <<clock, provider, row, missed, spoilt, loggedOut>>
  BY DEF Browser!Respond, Browser!faults
<1>2. /\ req[r] \in Bindings
      /\ clock \in Nat /\ cookie \in Nat /\ row \in Nat /\ missed \in Nat /\ spoilt \in Nat
      /\ provider \in Providers /\ provider.gen # 0 /\ provider.gen \in Nat /\ met \in SUBSET Requests
      /\ ~provider.oneTime /\ provider.alive /\ ~loggedOut /\ missed <= 1 => row # 0
      /\ row <= provider.gen
      /\ Undisturbed /\ row = provider.gen => \A s \in Requests : ~Holds(s)
      /\ BrowserTyped
  BY <1>1, InHand
<1>3. PICK q : q = [pc |-> "idle", token |-> 0, since |-> 0, stored |-> 0, tries |-> 0, got |-> 0,
                    junk |-> FALSE]
  OBVIOUS
<1>4. req' = [req EXCEPT ![r] = q]
  BY <1>3 DEF Browser!Respond, Browser!To, Browser!Idle
<1>5. q \in Bindings /\ q.pc = "idle" /\ q.since = 0 /\ q.got = 0 /\ q.stored = 0
  BY <1>3 DEF Bindings
<1>6. req'[r] = q /\ ~Holds(r) /\ ~IsRotating(q)
  BY <1>1, <1>2, <1>4, <1>5 DEF BrowserTyped, Holds, IsRotating
<1>7. cookie' \in Nat /\ missed' >= missed
  BY <1>1, <1>2 DEF Bindings
<1>8. (WasGood(r) /\ Tried(r))'
  BY <1>1, <1>2, <1>5, <1>6 DEF WasGood, Tried
<1>9. met' \in SUBSET Requests /\ \A s \in Requests : s \in met /\ s # r => s \in met'
  BY <1>1, <1>2
<1>10. BrowserInv'
  BY <1>1, <1>2, <1>4, <1>5, <1>7, <1>8, <1>9, BindingMoves
<1>11. q.got <= provider.gen /\ q.stored <= provider.gen
  BY <1>2, <1>5
<1>12. ClashInv'
  BY <1>1, <1>2, <1>4, <1>5, <1>6, <1>9, <1>11, ClashMoves
<1> QED
  BY <1>10, <1>12

LEMMA BrowserStep == ASSUME BrowserInv, ClashInv, Browser!Next PROVE BrowserInv' /\ ClashInv'
<1>t. BrowserTyped /\ clock \in Nat /\ row \in Nat /\ provider \in Providers /\ provider.gen \in Nat
  BY DEF BrowserInv, BrowserTyped, Providers
<1>1. CASE Browser!Login
  <2>1. /\ provider.gen = 0 /\ provider' = [provider EXCEPT !.alive = TRUE, !.gen = 1]
        /\ row' = 1 /\ cookie' = clock + Life
        /\ UNCHANGED <<clock, req, missed, spoilt, loggedOut, met>>
    BY <1>1 DEF Browser!Login, Browser!faults
  <2>2. provider'.alive = TRUE /\ provider'.gen = 1 /\ provider' \in Providers /\ cookie' \in Nat
    <3>1. provider' = [alive |-> TRUE, gen |-> 1, oneTime |-> provider.oneTime] /\ provider.oneTime \in BOOLEAN
      BY <1>t, <2>1 DEF Providers
    <3>2. provider' \in Providers /\ provider'.alive = TRUE /\ provider'.gen = 1
      BY <3>1 DEF Providers
    <3>3. cookie' \in Nat
      BY <1>t, <2>1, TokenAssumption
    <3> QED
      BY <3>2, <3>3
  <2>3. \A r \in Requests : req[r].pc = "idle" /\ WasGood(r)
    BY <2>1 DEF BrowserInv, BeforeLogin
  <2>4. BrowserTyped'
    BY <1>t, <2>1, <2>2 DEF BrowserTyped
  <2>5. BeforeLogin' /\ Browser!OneFaultIsSurvived'
    BY <2>1, <2>2, <2>3 DEF BeforeLogin, Browser!OneFaultIsSurvived
  <2>6. \A r \in Requests : WasGood(r)' /\ Tried(r)'
    BY <2>1, <2>3 DEF WasGood, Tried
  <2>7. \A r \in Requests : req[r].got <= 1 /\ req[r].stored <= 1
    <3> TAKE r \in Requests
    <3>1. req[r].got \in Nat /\ req[r].stored \in Nat /\ req[r].got <= 0 /\ req[r].stored <= 0
      BY <1>t, <2>1 DEF ClashInv, Issued, BrowserTyped, Bindings
    <3> QED
      BY <3>1
  <2>8. ClashInv'
    BY <2>1, <2>2, <2>3, <2>7 DEF ClashInv, Issued, IsRotating, HolderIsAhead, Holds, NewestIsHeld, OutdatedMet
  <2> QED
    BY <2>4, <2>5, <2>6, <2>8 DEF BrowserInv
<1>2. CASE Browser!Logout
  <2>1. /\ row' = 0 /\ cookie' = 0 /\ loggedOut' = TRUE /\ cookie # 0
        /\ UNCHANGED <<clock, provider, req, missed, spoilt, met>>
    BY <1>2 DEF Browser!Logout, Browser!faults
  <2>2. BrowserInv'
    BY <2>1 DEF BrowserInv, BrowserTyped, BeforeLogin, Browser!OneFaultIsSurvived, WasGood, Tried, Counts
  <2>3. 0 <= provider.gen
    BY <1>t
  <2>4. ClashInv'
    BY <2>1, <2>3 DEF ClashInv, Issued, Undisturbed
  <2> QED
    BY <2>2, <2>4
<1>3. CASE Browser!Tick
  <2>1. clock' = clock + 1 /\ UNCHANGED <<provider, row, cookie, req, missed, spoilt, loggedOut, met>>
    BY <1>3 DEF Browser!Tick, Browser!faults
  <2>2. BrowserTyped' /\ BeforeLogin' /\ Browser!OneFaultIsSurvived'
    BY <1>t, <2>1 DEF BrowserInv, BrowserTyped, BeforeLogin, Browser!OneFaultIsSurvived
  <2>3. ASSUME NEW r \in Requests PROVE WasGood(r)' /\ Tried(r)'
    <3>1. WasGood(r) /\ Tried(r) /\ req[r].since \in Nat /\ clock \in Nat
      BY DEF BrowserInv, BrowserTyped, Bindings
    <3>2. req[r].since <= clock + 1
      BY <3>1 DEF WasGood
    <3> QED
      BY <2>1, <3>1, <3>2 DEF WasGood, Tried, Counts
  <2>4. ClashInv'
    BY <2>1 DEF ClashInv, Issued, Undisturbed, HolderIsAhead, Holds, NewestIsHeld, OutdatedMet
  <2> QED
    BY <2>2, <2>3, <2>4 DEF BrowserInv
<1>4. CASE Browser!ProviderEnds
  <2>1. /\ provider' = [provider EXCEPT !.alive = FALSE]
        /\ UNCHANGED <<clock, row, cookie, req, missed, spoilt, loggedOut, met>>
    BY <1>4 DEF Browser!ProviderEnds, Browser!faults
  <2>2. provider'.alive = FALSE /\ provider'.gen = provider.gen /\ provider' \in Providers
    BY <1>t, <2>1 DEF Providers
  <2>3. BrowserInv'
    BY <2>1, <2>2 DEF BrowserInv, BrowserTyped, BeforeLogin, Browser!OneFaultIsSurvived, WasGood, Tried, Counts
  <2>4. ClashInv'
    BY <2>1, <2>2 DEF ClashInv, Issued, Undisturbed
  <2> QED
    BY <2>3, <2>4
<1> QED
  BY <1>1, <1>2, <1>3, <1>4, ReceiveBinds, AskBinds, RefreshedBinds, RefusedBinds, MissedBinds, UnusableBinds,
     StoreBinds, FailBinds, RespondBinds DEF Browser!Next

\* Requests that rotate the browser's session at once (session_binder.py), under either
\* policy of the provider and for any number of requests: no request is bound with an
\* expired token; where refresh tokens stay good, one failed refresh costs neither the
\* stored token nor a binding; where they are spent by their use, nothing but another
\* rotation that overlaps makes the provider refuse one, and the newest is not lost to an
\* older one.
THEOREM RotationStaysSafe == AnySpec => []RotationIsSafe
<1> DEFINE I == part = "browser" => BrowserInv /\ ClashInv
<1>1. AnyInit => I
  BY BrowserInit DEF AnyInit
<1>2. I /\ [AnyNext]_vars => I'
  BY BrowserStep, BrowserStands DEF AnyNext, AdsMoves, ChatMoves, BrowserMoves, vars
<1>3. BrowserInv /\ ClashInv => Browser!OnlyRotationsClash
  <2> SUFFICES ASSUME BrowserInv, ClashInv, Undisturbed PROVE Browser!OnlyRotationsClash
    BY DEF Browser!OnlyRotationsClash, Undisturbed
  <2>1. OutdatedMet /\ NewestIsHeld
    BY DEF ClashInv
  <2> QED
    BY <2>1 DEF Browser!OnlyRotationsClash, OutdatedMet, NewestIsHeld
<1>4. I => RotationIsSafe
  BY <1>3 DEF RotationIsSafe, BrowserInv, WasGood, Browser!RotationIsSafe, Browser!BoundWasGood
<1> QED
  BY <1>1, <1>2, <1>4, PTL DEF AnySpec
=============================================================================
