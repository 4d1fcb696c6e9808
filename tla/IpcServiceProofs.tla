--------------------------- MODULE IpcServiceProofs ---------------------------
(***************************************************************************)
(* Machine-checked safety of the sandbox executor, for any executions,     *)
(* identities, shutdown messages and number of restarts, and whether or    *)
(* not publications fail.  The inductive invariant says what the stopping  *)
(* latch closes, that the running execution is the current unit's, and     *)
(* when the terminal slot still owes a publication.                        *)
(***************************************************************************)
EXTENDS IpcService, SequenceTheorems, TLAPS

\* The latch closes the gate before anything is awaited, and each shutdown that is
\* under way found it closed.
LatchInv ==
    /\ stopping => ~kafkaReady
    /\ \A s \in Shutdowns : shut[s] \in {"latched", "queued"} => stopping

\* A shutdown that waits for its acknowledgement, or has it, has ended pings and startup.
SilencedInv ==
    queue # <<>> \/ acked # {} => stopping /\ ~pinging /\ startup = "done"

\* The execution that runs is the one of the current unit.
UnitInv ==
    /\ current.executing <=> running # None
    /\ running # None => current.exec = running

\* A slot with a result names the execution it belongs to.
SlotInv == last.result => last.exec \in Execs

\* What is owed: a delivered slot was published, and nothing is acknowledged
\* beside a unit or an undelivered result.
OwedInv ==
    /\ last.result /\ delivered => Reply("result", last.exec) \in sent
    /\ acked # {} => current.exec = None /\ running = None /\ (last.result => delivered)

IInv == TypeOK /\ SlotInv /\ LatchInv /\ SilencedInv /\ UnitInv /\ OwedInv

-----------------------------------------------------------------------------
\* Units, slots and replies the actions write are well typed.
LEMMA Constructors ==
    /\ NoUnit \in Units /\ NoSlot \in Slots
    /\ \A e \in Execs, i \in Idents, x, b \in BOOLEAN :
          [exec |-> e, ident |-> i, executing |-> x, abort |-> b] \in Units
    /\ \A e \in Execs \cup {None}, i \in Idents, r \in BOOLEAN :
          [exec |-> e, ident |-> i, result |-> r] \in Slots
    /\ \A e \in Execs, k \in {"acknowledge", "result"} : Reply(k, e) \in Replies
<1>1. SomeIdent \in Idents
  BY IpcAssumption DEF SomeIdent
<1>2. QED
  BY <1>1 DEF NoUnit, NoSlot, Units, Slots, Reply, Replies

\* Acknowledging a prefix of the queue leaves a queue, and acknowledges only what waited.
LEMMA FinishFacts ==
    ASSUME TypeOK, NEW n \in 0..Len(queue), FinishShutdown(n)
    PROVE  /\ queue' \in Seq(Shutdowns) /\ acked' \subseteq Shutdowns /\ faulted' \in BOOLEAN
           /\ queue' # <<>> => queue # <<>>
           /\ acked' # acked => queue # <<>>
<1> USE DEF TypeOK, FinishShutdown
<1>1. queue \in Seq(Shutdowns) /\ Len(queue) \in Nat
  OBVIOUS
<1>2. \A k \in 1..Len(queue) : queue[k] \in Shutdowns
  BY <1>1
<1>3. queue' \in Seq(Shutdowns) /\ Len(queue') = Len(queue) - n
  BY <1>1, SubSeqProperties
<1>4. acked' \in SUBSET Shutdowns /\ faulted' \in BOOLEAN
  BY <1>1, <1>2
<1>5. queue' # <<>> => queue # <<>>
  <2> SUFFICES ASSUME queue = <<>> PROVE queue' = <<>>
    OBVIOUS
  <2>1. Len(queue') = 0
    BY <1>1, <1>3
  <2>2. QED
    BY <2>1, <1>3, EmptySeq
<1>6. acked' # acked => queue # <<>>
  <2> SUFFICES ASSUME queue = <<>> PROVE acked' = acked
    OBVIOUS
  <2>1. n = 0
    BY <1>1
  <2>2. QED
    BY <2>1
<1>7. QED
  BY <1>3, <1>4, <1>5, <1>6

\* What the fields of the unit and of the slot are, and that dropping the unit fills the slot.
LEMMA Fields ==
    ASSUME TypeOK
    PROVE  /\ current.exec \in Execs \cup {None} /\ current.ident \in Idents
           /\ current.executing \in BOOLEAN /\ current.abort \in BOOLEAN
           /\ last.exec \in Execs \cup {None} /\ last.result \in BOOLEAN
           /\ \A b \in BOOLEAN : /\ [current EXCEPT !.executing = b] \in Units
                                 /\ [current EXCEPT !.abort = b] \in Units
  BY DEF TypeOK, Units, Slots

LEMMA DropType ==
    ASSUME TypeOK, DropUnit
    PROVE  current' \in Units /\ last' \in Slots /\ delivered' = TRUE
  BY Fields, Constructors DEF DropUnit, Remember

\* The type invariant survives every step.
LEMMA TypeStep == TypeOK /\ SlotInv /\ [Next]_ipcVars => TypeOK'
<1> SUFFICES ASSUME TypeOK, SlotInv, [Next]_ipcVars
             PROVE  TypeOK'
  OBVIOUS
<1> USE IpcAssumption, Constructors, Fields
<1> USE DEF TypeOK, lifecycleVars, guestVars, slotVars, outVars, shutdownVars
<1>1. CASE \E e \in Execs, i \in Idents : Redeliver(e, i)
  BY <1>1 DEF Redeliver, Send, Gate
<1>2. CASE \E e \in Execs, i \in Idents : AcceptRequest(e, i)
  <2> PICK e \in Execs, i \in Idents : AcceptRequest(e, i)
    BY <1>2
  <2>1. CASE /\ Send(Reply("acknowledge", e)) /\ UNCHANGED <<last, delivered>>
             /\ current' = [exec |-> e, ident |-> i, executing |-> FALSE, abort |-> FALSE]
    <3>1. current' \in Units
      BY <2>1, Constructors
    <3>2. replies' \subseteq Replies /\ sent' \subseteq Replies
      BY <2>1 DEF Send
    <3>3. QED
      BY <2>1, <3>1, <3>2 DEF AcceptRequest
  <2>2. CASE Remember(e, i, FALSE) /\ delivered' = TRUE /\ UNCHANGED <<current, outVars>>
    <3>1. last' \in Slots
      BY <2>2 DEF Remember
    <3>2. QED
      BY <2>2, <3>1 DEF AcceptRequest
  <2>3. QED
    BY <2>1, <2>2 DEF AcceptRequest
<1>3. CASE \E e \in Execs, i \in Idents : RejectOversize(e, i)
  <2> PICK e \in Execs, i \in Idents : RejectOversize(e, i)
    BY <1>3
  <2>1. current' \in Units
    BY DEF RejectOversize
  <2>2. last' \in Slots /\ delivered' \in BOOLEAN
    BY DEF RejectOversize, Send, Remember
  <2>3. replies' \subseteq Replies /\ sent' \subseteq Replies
    BY DEF RejectOversize, Send, Remember
  <2>4. QED
    BY <2>1, <2>2, <2>3 DEF RejectOversize
<1>4. CASE \E e \in Execs, i \in Idents : Reacknowledge(e, i)
  BY <1>4 DEF Reacknowledge, Send, Holds, Gate
<1>5. CASE \E e \in Execs, i \in Idents : AcceptAckReply(e, i)
  <2> PICK e \in Execs, i \in Idents : AcceptAckReply(e, i)
    BY <1>5
  <2>1. current' \in Units
    BY DEF AcceptAckReply
  <2>2. last' \in Slots /\ delivered' \in BOOLEAN
    BY DEF AcceptAckReply
  <2>3. replies' \subseteq Replies /\ sent' \subseteq Replies
    BY DEF AcceptAckReply
  <2>4. QED
    BY <2>1, <2>2, <2>3 DEF AcceptAckReply
<1>6. CASE \E e \in Execs, i \in Idents : DropWaiting(e, i)
  BY <1>6, DropType DEF DropWaiting
<1>7. CASE \E e \in Execs, i \in Idents : AbortExecuting(e, i)
  <2>1. current' \in Units
    BY <1>7 DEF AbortExecuting
  <2>2. QED
    BY <1>7, <2>1 DEF AbortExecuting
<1>8. CASE \E s \in Shutdowns : ShutdownLatch(s)
  BY <1>8 DEF ShutdownLatch
<1>9. CASE \E s \in Shutdowns : ShutdownQueue(s)
  <2> PICK s \in Shutdowns : ShutdownQueue(s)
    BY <1>9
  <2>1. queue' \in Seq(Shutdowns)
    BY AppendProperties DEF ShutdownQueue
  <2>2. shut' \in [Shutdowns -> {"none", "latched", "queued", "done"}]
    BY DEF ShutdownQueue
  <2>3. QED
    BY <2>1, <2>2 DEF ShutdownQueue, PingsCancelled
<1>10. CASE \E s \in Shutdowns : ShutdownLocked(s)
  <2> PICK s \in Shutdowns : ShutdownLocked(s)
    BY <1>10
  <2>1. current' \in Units /\ last' \in Slots /\ delivered' \in BOOLEAN
    <3>1. CASE DropUnit
      BY <3>1, DropType
    <3>2. CASE ~DropUnit
      BY <3>2 DEF ShutdownLocked
    <3>3. QED
      BY <3>1, <3>2
  <2>2. replies' \subseteq Replies /\ sent' \subseteq Replies
    <3>1. CASE /\ ~NothingToRetry
               /\ Send(Reply("result", last.exec))
      <4>1. Reply("result", last.exec) \in Replies
        BY <3>1 DEF NothingToRetry, SlotInv
      <4>2. QED
        BY <3>1, <4>1 DEF Send
    <3>2. CASE UNCHANGED outVars
      BY <3>2
    <3>3. QED
      BY <3>1, <3>2 DEF ShutdownLocked
  <2>3. queue' \in Seq(Shutdowns) /\ acked' \subseteq Shutdowns /\ faulted' \in BOOLEAN
    BY FinishFacts DEF ShutdownLocked
  <2>4. shut' \in [Shutdowns -> {"none", "latched", "queued", "done"}]
    BY DEF ShutdownLocked
  <2>5. QED
    BY <2>1, <2>2, <2>3, <2>4 DEF ShutdownLocked
<1>11. CASE StartupPrepared
  BY <1>11 DEF StartupPrepared
<1>12. CASE StartupReady
  BY <1>12 DEF StartupReady
<1>13. CASE StartupFails
  BY <1>13 DEF StartupFails
<1>14. CASE AckTimeout
  BY <1>14, DropType DEF AckTimeout
<1>15. CASE ExecuteEnds
  <2>1. current' \in Units /\ last' \in Slots /\ delivered' \in BOOLEAN
    BY <1>15 DEF ExecuteEnds, Remember
  <2>2. replies' \subseteq Replies /\ sent' \subseteq Replies
    BY <1>15 DEF ExecuteEnds, Send
  <2>3. queue' \in Seq(Shutdowns) /\ acked' \subseteq Shutdowns /\ faulted' \in BOOLEAN
    BY <1>15, FinishFacts DEF ExecuteEnds
  <2>4. running' \in Execs \cup {None} /\ guest' \in {"clean", "busy", "dirty"}
    BY <1>15 DEF ExecuteEnds
  <2>5. QED
    BY <1>15, <2>1, <2>2, <2>3, <2>4 DEF ExecuteEnds
<1>16. CASE PingBegin
  BY <1>16 DEF PingBegin
<1>17. CASE PingEnd
  BY <1>17 DEF PingEnd
<1>18. CASE StopBegin
  <2>1. current' \in Units
    BY <1>18 DEF StopBegin
  <2>2. QED
    BY <1>18, <2>1 DEF StopBegin
<1>19. CASE StopEnd
  BY <1>19 DEF StopEnd
<1>20. CASE Restart
  <2>1. shut' \in [Shutdowns -> {"none", "latched", "queued", "done"}]
    BY <1>20 DEF Restart
  <2>2. queue' \in Seq(Shutdowns)
    <3>1. << >> \in Seq(Shutdowns)
      BY EmptySeq
    <3>2. queue' = << >>
      BY <1>20 DEF Restart
    <3>3. QED
      BY <3>1, <3>2
  <2>3. current' \in Units /\ last' \in Slots
    BY <1>20 DEF Restart
  <2>4. restarts' \in Nat
    BY <1>20 DEF Restart
  <2>5. QED
    BY <1>20, <2>1, <2>2, <2>3, <2>4 DEF Restart
<1>21. CASE UNCHANGED ipcVars
  BY <1>21 DEF ipcVars
<1>22. QED
  BY <1>1, <1>2, <1>3, <1>4, <1>5, <1>6, <1>7, <1>8, <1>9, <1>10, <1>11, <1>12, <1>13, <1>14,
     <1>15, <1>16, <1>17, <1>18, <1>19, <1>20, <1>21 DEF Next, MessageStep, ShutdownStep, TaskStep

\* Only an execution of this process, or a refused one, fills the slot with a result.
LEMMA SlotStep == TypeOK /\ SlotInv /\ [Next]_ipcVars => SlotInv'
<1> SUFFICES ASSUME TypeOK, SlotInv, [Next]_ipcVars
             PROVE  SlotInv'
  OBVIOUS
<1> USE DEF TypeOK, SlotInv, lifecycleVars, guestVars, slotVars, outVars, shutdownVars
<1>1. CASE \E e \in Execs, i \in Idents : Redeliver(e, i)
  BY <1>1 DEF Redeliver
<1>2. CASE \E e \in Execs, i \in Idents : AcceptRequest(e, i)
  BY <1>2 DEF AcceptRequest, Remember
<1>3. CASE \E e \in Execs, i \in Idents : RejectOversize(e, i)
  BY <1>3 DEF RejectOversize, Remember
<1>4. CASE \E e \in Execs, i \in Idents : Reacknowledge(e, i)
  BY <1>4 DEF Reacknowledge
<1>5. CASE \E e \in Execs, i \in Idents : AcceptAckReply(e, i)
  BY <1>5 DEF AcceptAckReply
<1>6. CASE \E e \in Execs, i \in Idents : DropWaiting(e, i)
  BY <1>6 DEF DropWaiting, DropUnit, Remember
<1>7. CASE \E e \in Execs, i \in Idents : AbortExecuting(e, i)
  BY <1>7 DEF AbortExecuting
<1>8. CASE \E s \in Shutdowns : ShutdownLatch(s)
  BY <1>8 DEF ShutdownLatch
<1>9. CASE \E s \in Shutdowns : ShutdownQueue(s)
  BY <1>9 DEF ShutdownQueue
<1>10. CASE \E s \in Shutdowns : ShutdownLocked(s)
  BY <1>10 DEF ShutdownLocked, DropUnit, Remember
<1>11. CASE StartupPrepared
  BY <1>11 DEF StartupPrepared
<1>12. CASE StartupReady
  BY <1>12 DEF StartupReady
<1>13. CASE StartupFails
  BY <1>13 DEF StartupFails
<1>14. CASE AckTimeout
  BY <1>14 DEF AckTimeout, DropUnit, Remember
<1>15. CASE ExecuteEnds
  BY <1>15 DEF ExecuteEnds, Remember
<1>16. CASE PingBegin
  BY <1>16 DEF PingBegin
<1>17. CASE PingEnd
  BY <1>17 DEF PingEnd
<1>18. CASE StopBegin
  BY <1>18 DEF StopBegin
<1>19. CASE StopEnd
  BY <1>19 DEF StopEnd
<1>20. CASE Restart
  BY <1>20 DEF Restart, NoSlot
<1>21. CASE UNCHANGED ipcVars
  BY <1>21 DEF ipcVars
<1>22. QED
  BY <1>1, <1>2, <1>3, <1>4, <1>5, <1>6, <1>7, <1>8, <1>9, <1>10, <1>11, <1>12, <1>13, <1>14,
     <1>15, <1>16, <1>17, <1>18, <1>19, <1>20, <1>21 DEF Next, MessageStep, ShutdownStep, TaskStep

\* The latch stays shut, and shutdowns proceed only behind it.
LEMMA LatchStep == TypeOK /\ LatchInv /\ [Next]_ipcVars => LatchInv'
<1> SUFFICES ASSUME TypeOK, LatchInv, [Next]_ipcVars
             PROVE  LatchInv'
  OBVIOUS
<1> USE DEF TypeOK, LatchInv, lifecycleVars, guestVars, slotVars, outVars, shutdownVars
<1>1. CASE \E e \in Execs, i \in Idents : Redeliver(e, i)
  BY <1>1 DEF Redeliver
<1>2. CASE \E e \in Execs, i \in Idents : AcceptRequest(e, i)
  BY <1>2 DEF AcceptRequest
<1>3. CASE \E e \in Execs, i \in Idents : RejectOversize(e, i)
  BY <1>3 DEF RejectOversize
<1>4. CASE \E e \in Execs, i \in Idents : Reacknowledge(e, i)
  BY <1>4 DEF Reacknowledge
<1>5. CASE \E e \in Execs, i \in Idents : AcceptAckReply(e, i)
  BY <1>5 DEF AcceptAckReply
<1>6. CASE \E e \in Execs, i \in Idents : DropWaiting(e, i)
  BY <1>6 DEF DropWaiting
<1>7. CASE \E e \in Execs, i \in Idents : AbortExecuting(e, i)
  BY <1>7 DEF AbortExecuting
<1>8. CASE \E s \in Shutdowns : ShutdownLatch(s)
  BY <1>8 DEF ShutdownLatch
<1>9. CASE \E s \in Shutdowns : ShutdownQueue(s)
  BY <1>9 DEF ShutdownQueue
<1>10. CASE \E s \in Shutdowns : ShutdownLocked(s)
  BY <1>10 DEF ShutdownLocked
<1>11. CASE StartupPrepared
  BY <1>11 DEF StartupPrepared
<1>12. CASE StartupReady
  BY <1>12 DEF StartupReady
<1>13. CASE StartupFails
  BY <1>13 DEF StartupFails
<1>14. CASE AckTimeout
  BY <1>14 DEF AckTimeout
<1>15. CASE ExecuteEnds
  BY <1>15 DEF ExecuteEnds
<1>16. CASE PingBegin
  BY <1>16 DEF PingBegin
<1>17. CASE PingEnd
  BY <1>17 DEF PingEnd
<1>18. CASE StopBegin
  BY <1>18 DEF StopBegin
<1>19. CASE StopEnd
  BY <1>19 DEF StopEnd
<1>20. CASE Restart
  BY <1>20 DEF Restart
<1>21. CASE UNCHANGED ipcVars
  BY <1>21 DEF ipcVars
<1>22. QED
  BY <1>1, <1>2, <1>3, <1>4, <1>5, <1>6, <1>7, <1>8, <1>9, <1>10, <1>11, <1>12, <1>13, <1>14,
     <1>15, <1>16, <1>17, <1>18, <1>19, <1>20, <1>21 DEF Next, MessageStep, ShutdownStep, TaskStep

\* The running execution stays the unit's.
LEMMA UnitStep == TypeOK /\ UnitInv /\ [Next]_ipcVars => UnitInv'
<1> SUFFICES ASSUME TypeOK, UnitInv, [Next]_ipcVars
             PROVE  UnitInv'
  OBVIOUS
<1> USE DEF TypeOK, UnitInv, lifecycleVars, guestVars, slotVars, outVars, shutdownVars
<1>1. CASE \E e \in Execs, i \in Idents : Redeliver(e, i)
  BY <1>1 DEF Redeliver
<1>2. CASE \E e \in Execs, i \in Idents : AcceptRequest(e, i)
  BY <1>2, Fields DEF AcceptRequest, Remember
<1>3. CASE \E e \in Execs, i \in Idents : RejectOversize(e, i)
  BY <1>3 DEF RejectOversize
<1>4. CASE \E e \in Execs, i \in Idents : Reacknowledge(e, i)
  BY <1>4 DEF Reacknowledge
<1>5. CASE \E e \in Execs, i \in Idents : AcceptAckReply(e, i)
  BY <1>5, IpcAssumption, Fields DEF AcceptAckReply, Holds
<1>6. CASE \E e \in Execs, i \in Idents : DropWaiting(e, i)
  BY <1>6 DEF DropWaiting, DropUnit, Remember, NoUnit
<1>7. CASE \E e \in Execs, i \in Idents : AbortExecuting(e, i)
  BY <1>7, Fields DEF AbortExecuting
<1>8. CASE \E s \in Shutdowns : ShutdownLatch(s)
  BY <1>8 DEF ShutdownLatch
<1>9. CASE \E s \in Shutdowns : ShutdownQueue(s)
  BY <1>9 DEF ShutdownQueue
<1>10. CASE \E s \in Shutdowns : ShutdownLocked(s)
  BY <1>10 DEF ShutdownLocked, DropUnit, Remember, NoUnit
<1>11. CASE StartupPrepared
  BY <1>11 DEF StartupPrepared
<1>12. CASE StartupReady
  BY <1>12 DEF StartupReady
<1>13. CASE StartupFails
  BY <1>13 DEF StartupFails
<1>14. CASE AckTimeout
  BY <1>14 DEF AckTimeout, DropUnit, Remember, NoUnit
<1>15. CASE ExecuteEnds
  BY <1>15 DEF ExecuteEnds, NoUnit
<1>16. CASE PingBegin
  BY <1>16 DEF PingBegin
<1>17. CASE PingEnd
  BY <1>17 DEF PingEnd
<1>18. CASE StopBegin
  BY <1>18, Fields DEF StopBegin
<1>19. CASE StopEnd
  BY <1>19, Fields DEF StopEnd, NoUnit
<1>20. CASE Restart
  BY <1>20 DEF Restart, NoUnit
<1>21. CASE UNCHANGED ipcVars
  BY <1>21 DEF ipcVars
<1>22. QED
  BY <1>1, <1>2, <1>3, <1>4, <1>5, <1>6, <1>7, <1>8, <1>9, <1>10, <1>11, <1>12, <1>13, <1>14,
     <1>15, <1>16, <1>17, <1>18, <1>19, <1>20, <1>21 DEF Next, MessageStep, ShutdownStep, TaskStep

\* A queued or acknowledged shutdown found the latch shut, and ended pings and startup.
LEMMA SilencedStep ==
    TypeOK /\ LatchInv /\ SilencedInv /\ [Next]_ipcVars => SilencedInv'
<1> SUFFICES ASSUME TypeOK, LatchInv, SilencedInv, [Next]_ipcVars
             PROVE  SilencedInv'
  OBVIOUS
<1> USE DEF TypeOK, LatchInv, SilencedInv, lifecycleVars, guestVars, slotVars, outVars, shutdownVars
<1>1. CASE \E e \in Execs, i \in Idents : MessageStep(e, i)
  <2>1. PICK e \in Execs, i \in Idents : MessageStep(e, i)
    BY <1>1
  <2>2. UNCHANGED <<stopping, pinging, startup, queue, acked>>
    BY <2>1 DEF MessageStep, Redeliver, AcceptRequest, RejectOversize, Reacknowledge,
       AcceptAckReply,
       DropWaiting, AbortExecuting
  <2>3. QED
    BY <2>2
<1>2. CASE \E s \in Shutdowns : ShutdownLatch(s)
  BY <1>2 DEF ShutdownLatch
<1>3. CASE \E s \in Shutdowns : ShutdownQueue(s)
  BY <1>3 DEF ShutdownQueue, PingsCancelled
<1>4. CASE \E s \in Shutdowns : ShutdownLocked(s)
  <2> PICK s \in Shutdowns : ShutdownLocked(s)
    BY <1>4
  <2>1. queue' # <<>> \/ acked' # {} => queue # <<>> \/ acked # {}
    <3>1. CASE \E n \in 0..Len(queue) : FinishShutdown(n)
      BY <3>1, FinishFacts
    <3>2. CASE UNCHANGED <<queue, acked>>
      BY <3>2
    <3>3. QED
      BY <3>1, <3>2 DEF ShutdownLocked
  <2>2. UNCHANGED <<stopping, pinging, startup>>
    BY DEF ShutdownLocked
  <2>3. QED
    BY <2>1, <2>2
<1>5. CASE ExecuteEnds
  <2>1. queue' # <<>> \/ acked' # {} => queue # <<>> \/ acked # {}
    <3>1. CASE \E n \in 0..Len(queue) : FinishShutdown(n)
      BY <3>1, FinishFacts
    <3>2. CASE UNCHANGED <<queue, acked>>
      BY <3>2
    <3>3. QED
      BY <1>5, <3>1, <3>2 DEF ExecuteEnds
  <2>2. QED
    BY <1>5, <2>1 DEF ExecuteEnds
<1>6. CASE StartupPrepared \/ StartupReady \/ StartupFails
  BY <1>6 DEF StartupPrepared, StartupReady, StartupFails
<1>7. CASE AckTimeout \/ PingBegin \/ PingEnd
  BY <1>7 DEF AckTimeout, PingBegin, PingEnd
<1>8. CASE StopBegin \/ StopEnd
  BY <1>8 DEF StopBegin, StopEnd
<1>9. CASE Restart
  BY <1>9 DEF Restart
<1>10. CASE UNCHANGED ipcVars
  BY <1>10 DEF ipcVars
<1>11. QED
  BY <1>1, <1>2, <1>3, <1>4, <1>5, <1>6, <1>7, <1>8, <1>9, <1>10 DEF Next, ShutdownStep, TaskStep

\* Once a shutdown is acknowledged nothing is accepted any more, so the slot stays
\* as it was then: published.
LEMMA OwedStep == IInv /\ [Next]_ipcVars => OwedInv'
<1> SUFFICES ASSUME IInv, [Next]_ipcVars
             PROVE  OwedInv'
  OBVIOUS
<1> USE DEF IInv, TypeOK, LatchInv, SilencedInv, UnitInv, OwedInv, lifecycleVars, guestVars,
            slotVars, outVars, shutdownVars
<1>1. CASE \E e \in Execs, i \in Idents : Redeliver(e, i)
  BY <1>1 DEF Redeliver, Gate, Send
<1>2. CASE \E e \in Execs, i \in Idents : AcceptRequest(e, i)
  BY <1>2 DEF AcceptRequest, Gate, Send, Remember
<1>3. CASE \E e \in Execs, i \in Idents : RejectOversize(e, i)
  BY <1>3 DEF RejectOversize, Gate, Send, Remember
<1>4. CASE \E e \in Execs, i \in Idents : Reacknowledge(e, i)
  BY <1>4 DEF Reacknowledge, Holds, Gate, Send
<1>5. CASE \E e \in Execs, i \in Idents : AcceptAckReply(e, i)
  BY <1>5 DEF AcceptAckReply, Holds, Gate
<1>6. CASE \E e \in Execs, i \in Idents : DropWaiting(e, i)
  BY <1>6 DEF DropWaiting, Holds, Gate, DropUnit, Remember
<1>7. CASE \E e \in Execs, i \in Idents : AbortExecuting(e, i)
  BY <1>7 DEF AbortExecuting, Holds, Gate
<1>8. CASE \E s \in Shutdowns : ShutdownLatch(s) \/ ShutdownQueue(s)
  BY <1>8 DEF ShutdownLatch, ShutdownQueue
<1>9. CASE \E s \in Shutdowns : ShutdownLocked(s)
  <2> PICK s \in Shutdowns : ShutdownLocked(s)
    BY <1>9
  <2>1. CASE current.executing
    BY <2>1, Fields DEF ShutdownLocked, DropUnit, NothingToRetry
  <2>2. CASE DropUnit
    BY <2>2 DEF ShutdownLocked, DropUnit, Remember, NoUnit
  <2>3. CASE current.exec = None /\ UNCHANGED <<current, last>>
    BY <2>3 DEF ShutdownLocked, NothingToRetry, Send
  <2>4. QED
    BY <2>1, <2>2, <2>3 DEF ShutdownLocked
<1>10. CASE ExecuteEnds
  <2>1. acked = {}
    BY <1>10 DEF ExecuteEnds
  <2>2. CASE Send(Reply("result", running)) /\ delivered' = TRUE
    BY <1>10, <2>2 DEF ExecuteEnds, Remember, Send, NoUnit
  <2>3. CASE delivered' = FALSE /\ UNCHANGED acked
    BY <2>1, <2>3
  <2>4. QED
    BY <1>10, <2>2, <2>3 DEF ExecuteEnds
<1>11. CASE StartupPrepared \/ StartupReady \/ StartupFails
  <2>1. UNCHANGED <<current, last, delivered, running, sent, acked>>
    BY <1>11 DEF StartupPrepared, StartupReady, StartupFails
  <2>2. QED
    BY <2>1
<1>12. CASE AckTimeout
  BY <1>12 DEF AckTimeout, DropUnit, Remember, NoUnit
<1>13. CASE PingBegin \/ PingEnd
  BY <1>13 DEF PingBegin, PingEnd
<1>14. CASE StopBegin
  BY <1>14, Fields DEF StopBegin
<1>15. CASE StopEnd
  BY <1>15 DEF StopEnd, NoUnit
<1>16. CASE Restart
  BY <1>16 DEF Restart, NoSlot
<1>17. CASE UNCHANGED ipcVars
  BY <1>17 DEF ipcVars
<1>18. QED
  BY <1>1, <1>2, <1>3, <1>4, <1>5, <1>6, <1>7, <1>8, <1>9, <1>10, <1>11, <1>12, <1>13, <1>14,
     <1>15, <1>16, <1>17 DEF Next, MessageStep, ShutdownStep, TaskStep

-----------------------------------------------------------------------------
LEMMA InitInv == Init => IInv
<1> SUFFICES ASSUME Init
             PROVE  IInv
  OBVIOUS
<1>1. TypeOK
  BY Constructors, IpcAssumption, EmptySeq DEF Init, TypeOK
<1>2. SlotInv /\ LatchInv /\ SilencedInv /\ UnitInv /\ OwedInv
  BY DEF Init, SlotInv, LatchInv, SilencedInv, UnitInv, OwedInv, NoUnit, NoSlot
<1>3. QED
  BY <1>1, <1>2 DEF IInv

LEMMA StepInv == IInv /\ [Next]_ipcVars => IInv'
  BY TypeStep, SlotStep, LatchStep, SilencedStep, UnitStep, OwedStep DEF IInv

LEMMA AlwaysInv == Spec => []IInv
  BY InitInv, StepInv, PTL DEF Spec

\* Every variable keeps its type, whatever arrives and whatever fails.
THEOREM TypeCorrect == Spec => []TypeOK
<1>1. IInv => TypeOK
  BY DEF IInv
<1>2. QED
  BY AlwaysInv, <1>1, PTL

\* After a shutdown-ack the process is silent: IpcService.shutdown latches before
\* its first await and acknowledges last.
THEOREM QuietAfterAck == Spec => []QuietAfterShutdownAck
<1>1. IInv => QuietAfterShutdownAck
  BY DEF IInv, LatchInv, SilencedInv, OwedInv, QuietAfterShutdownAck
<1>2. QED
  BY AlwaysInv, <1>1, PTL

\* The result in the terminal slot is published before any shutdown-ack.
THEOREM ResultFirst == Spec => []ResultBeforeShutdownAck
<1>1. IInv => ResultBeforeShutdownAck
  BY DEF IInv, OwedInv, ResultBeforeShutdownAck
<1>2. QED
  BY AlwaysInv, <1>1, PTL

\* A duplicate of the current or the last request never starts an execution, nor
\* does any message beside a running one.
THEOREM NoRestartOfSlot == Spec => SlotNeverRuns
<1> DEFINE A == running' # running /\ running' # None => running' # last.exec /\ running = None
<1>1. IInv /\ [Next]_ipcVars => [A]_ipcVars
  <2> SUFFICES ASSUME IInv, Next, running' # running, running' # None
               PROVE  running' # last.exec /\ running = None
    BY DEF A
  <2>1. PICK e \in Execs, i \in Idents : AcceptAckReply(e, i)
    BY DEF Next, MessageStep, ShutdownStep, TaskStep, Redeliver, AcceptRequest, RejectOversize,
       Reacknowledge, DropWaiting, AbortExecuting, ShutdownLatch, ShutdownQueue, ShutdownLocked,
       StartupPrepared, StartupReady, StartupFails, AckTimeout, ExecuteEnds, PingBegin, PingEnd,
       StopBegin, StopEnd, Restart, lifecycleVars, guestVars
  <2>2. QED
    BY <2>1 DEF AcceptAckReply, Holds, Fresh, IInv, UnitInv
<1>2. QED
  BY AlwaysInv, <1>1, PTL DEF Spec, SlotNeverRuns
==============================================================================
