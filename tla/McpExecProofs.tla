---------------------------- MODULE McpExecProofs ----------------------------
(***************************************************************************)
(* Machine-checked safety of the MCP exec door, for any executions, pods,  *)
(* timeout and clock bound.  The inductive invariant ties each lock to the *)
(* state of the row it protects.                                           *)
(***************************************************************************)
EXTENDS McpExec, TLAPS

Reset(e) == Msg("ack-reset", e) \in log
Abort(e) == Msg("abort", e) \in log

\* An execution that has not started has left no trace.
IdleInv(e) ==
    call[e] = "idle" =>
        /\ row[e].state = "absent" /\ future[e] = "pending" /\ wlock[e] = "free"
        /\ ~abortDue[e] /\ e \notin replied /\ ~Reset(e) /\ ~Abort(e)

\* What an open _acknowledge transaction knows of the row it holds.
TxInv(e) ==
    /\ tx[e].phase # "none" => row[e].state # "absent"
    /\ tx[e].phase # "none" /\ tx[e].verdict = "reply" =>
        /\ row[e].state = "live" /\ ~row[e].acked /\ e \notin replied
        /\ tx[e].deadline <= row[e].created + 2 * T
        /\ ~Reset(e)
    /\ tx[e].phase # "none" /\ tx[e].verdict = "reset" =>
        /\ row[e].state = "tombstone" \/ now >= row[e].deadline
        /\ e \in replied => e \in expired

\* What the row says of the handshake so far.
RowInv(e) ==
    /\ row[e].state = "absent" => ~row[e].acked
    /\ row[e].state # "absent" => row[e].deadline <= row[e].created + 2 * T
    /\ row[e].state = "live" /\ ~row[e].acked => row[e].deadline = row[e].created + T
    /\ row[e].acked => e \in replied
    /\ e \in replied => row[e].state = "absent" \/ row[e].acked
    /\ row[e].state = "tombstone" /\ row[e].acked => e \in expired
    /\ row[e].state = "live" =>
        /\ ~Abort(e) /\ ~abortDue[e]
        /\ Reset(e) => now >= row[e].deadline

\* What a holder of the waiter lock, and a completed waiter, know of the row.
WaiterInv(e) ==
    /\ wlock[e] \in {"watchdog", "cancel"} => row[e].state # "live" /\ future[e] # "result"
    /\ wlock[e] = "result" \/ future[e] = "result" =>
        /\ row[e].state = "absent"
        /\ ~Reset(e) /\ ~Abort(e) /\ ~abortDue[e]
    /\ future[e] = "timeout" => row[e].state # "live"
    /\ abortDue[e] => e \in replied /\ wlock[e] \in {"watchdog", "cancel"}

\* What the published controls say.
LogInv(e) ==
    /\ Abort(e) => e \in replied
    /\ Reset(e) /\ e \in replied => e \in expired

ExecInv(e) == IdleInv(e) /\ TxInv(e) /\ RowInv(e) /\ WaiterInv(e) /\ LogInv(e)

IInv == TypeOK /\ \A e \in Execs : ExecInv(e)

-----------------------------------------------------------------------------
\* The rows and transactions the actions write are well typed.
LEMMA Constructors ==
    /\ NoRow \in Rows
    /\ NoTx \in Transactions
    /\ now \in Nat => Inserted \in Rows
  BY TimeAssumption, PodAssumption DEF NoRow, Rows, NoTx, Transactions, Inserted

\* The type invariant survives every step.
LEMMA TypeStep == TypeOK /\ [Next]_mcpVars => TypeOK'
<1> SUFFICES ASSUME TypeOK, [Next]_mcpVars
             PROVE  TypeOK'
  OBVIOUS
<1> USE TimeAssumption, PodAssumption
<1> USE DEF TypeOK, Rows, NoRow, Transactions, NoTx, CallStates, Futures, Holders, Messages, Kinds, Msg
<1>1. CASE \E p \in Pods, e \in Execs : Execute(p, e)
  BY <1>1 DEF Execute, Inserted
<1>2. CASE \E e \in Execs : SetupFails(e)
  <2> PICK e \in Execs : SetupFails(e)
    BY <1>2
  <2>1. row' \in [Execs -> Rows]
    BY Constructors DEF SetupFails
  <2>2. QED
    BY <2>1 DEF SetupFails
<1>3. CASE \E e \in Execs : PublishRequest(e)
  BY <1>3 DEF PublishRequest, Publish
<1>4. CASE \E e \in Execs : Return(e)
  BY <1>4 DEF Return
<1>5. CASE \E e \in Execs : Disconnect(e)
  BY <1>5 DEF Disconnect
<1>6. CASE \E e \in Execs : CleanupFails(e)
  BY <1>6 DEF CleanupFails
<1>7. CASE \E e \in Execs : CleanupFindsResult(e)
  BY <1>7 DEF CleanupFindsResult
<1>8. CASE \E e \in Execs : WatchdogObserves(e)
  BY <1>8 DEF WatchdogObserves
<1>9. CASE \E e \in Execs : WatchdogGivesUp(e)
  <2> PICK e \in Execs : WatchdogGivesUp(e)
    BY <1>9
  <2>1. wlock' \in [Execs -> Holders] /\ abortDue' \in [Execs -> BOOLEAN]
    BY DEF WatchdogGivesUp
  <2>2. QED
    BY <2>1 DEF WatchdogGivesUp
<1>10. CASE \E e \in Execs : ExpireReturns(e)
  BY <1>10 DEF ExpireReturns, Publish
<1>11. CASE \E e \in Execs : AckSend(e)
  BY <1>11 DEF AckSend, Publish
<1>12. CASE \E e \in Execs : AckCommit(e)
  <2> PICK e \in Execs : AckCommit(e)
    BY <1>12
  <2>1. [row[e] EXCEPT !.deadline = tx[e].deadline, !.acked = TRUE] \in Rows
    <3>1. row[e] \in Rows /\ tx[e].deadline \in Nat
      OBVIOUS
    <3>2. QED
      BY <3>1
  <2>2. row' \in [Execs -> Rows] /\ tx' \in [Execs -> Transactions]
    BY <2>1, Constructors DEF AckCommit
  <2>3. QED
    BY <2>2 DEF AckCommit
<1>13. CASE \E e \in Execs : AckRollback(e)
  BY <1>13 DEF AckRollback
<1>14. CASE \E e \in Execs : ResultCommit(e)
  BY <1>14 DEF ResultCommit, AcceptsResult
<1>15. CASE \E e \in Execs : ResultComplete(e)
  BY <1>15 DEF ResultComplete
<1>16. CASE \E e \in Execs : \E who \in {"watchdog", "cancel"} : Expire(e, who)
  <2> PICK e \in Execs, who \in {"watchdog", "cancel"} : Expire(e, who)
    BY <1>16
  <2>1. row' \in [Execs -> Rows]
    BY DEF Expire
  <2>2. abortDue' \in [Execs -> BOOLEAN]
    BY DEF Expire, Acknowledged
  <2>3. QED
    BY <2>1, <2>2 DEF Expire
<1>17. CASE \E p \in Pods, e \in Execs : AckOpen(p, e)
  BY <1>17 DEF AckOpen
<1>18. CASE \E p \in Pods : PodRestart(p)
  <2> PICK p \in Pods : PodRestart(p)
    BY <1>18
  <2>1. tx' \in [Execs -> Transactions]
    BY Constructors DEF PodRestart
  <2>2. wlock' \in [Execs -> Holders] /\ call' \in [Execs -> CallStates]
    BY DEF PodRestart
  <2>3. abortDue' \in [Execs -> BOOLEAN]
    BY DEF PodRestart
  <2>4. QED
    BY <2>1, <2>2, <2>3 DEF PodRestart
<1>19. CASE Collect
  BY <1>19 DEF Collect
<1>20. CASE Tick
  BY <1>20 DEF Tick
<1>21. CASE UNCHANGED mcpVars
  BY <1>21 DEF mcpVars
<1>22. QED
  BY <1>1, <1>2, <1>3, <1>4, <1>5, <1>6, <1>7, <1>8, <1>9, <1>10, <1>11, <1>12, <1>13, <1>14, <1>15, <1>16, <1>17, <1>18, <1>19, <1>20, <1>21 DEF Next, CallStep, WatchdogStep, AckStep, ResultStep

\* The typed values the steps below rely on, for one execution.
LEMMA Typing ==
  ASSUME TypeOK, NEW f \in Execs
  PROVE  /\ now \in Nat /\ row[f] \in Rows /\ tx[f] \in Transactions
         /\ call[f] \in CallStates /\ future[f] \in Futures /\ wlock[f] \in Holders
         /\ abortDue[f] \in BOOLEAN /\ owner[f] \in Pods
  BY DEF TypeOK

\* The handshake invariant survives every step.
LEMMA ExecStep == IInv /\ [Next]_mcpVars => \A f \in Execs : ExecInv(f)'
<1> SUFFICES ASSUME IInv, [Next]_mcpVars, NEW f \in Execs
             PROVE  ExecInv(f)'
  OBVIOUS
<1> TypeOK /\ TypeOK' /\ ExecInv(f)
  BY TypeStep DEF IInv
<1> USE TimeAssumption, PodAssumption
<1> USE DEF TypeOK, Rows, NoRow, Transactions, NoTx, CallStates, Futures, Holders, Messages,
            Kinds, Msg, ExecInv, IdleInv, TxInv, RowInv, WaiterInv, LogInv, Reset, Abort
<1>1. CASE \E p \in Pods, e \in Execs : Execute(p, e)
  BY <1>1 DEF Execute, Inserted
<1>2. CASE \E e \in Execs : SetupFails(e)
  <2> PICK e \in Execs : SetupFails(e)
    BY <1>2
  <2>1. CASE row' = row
    BY <2>1 DEF SetupFails
  <2>2. CASE row' = [row EXCEPT ![e] = Inserted] /\ f = e
    BY <2>2 DEF SetupFails, Inserted
  <2>3. CASE row' = [row EXCEPT ![e] = Inserted] /\ f # e
    BY <2>3 DEF SetupFails
  <2>4. QED
    BY <2>1, <2>2, <2>3 DEF SetupFails
<1>3. CASE \E e \in Execs : PublishRequest(e)
  BY <1>3 DEF PublishRequest, Publish
<1>4. CASE \E e \in Execs : Return(e)
  BY <1>4 DEF Return
<1>5. CASE \E e \in Execs : Disconnect(e)
  BY <1>5 DEF Disconnect
<1>6. CASE \E e \in Execs : CleanupFails(e)
  BY <1>6 DEF CleanupFails
<1>7. CASE \E e \in Execs : CleanupFindsResult(e)
  BY <1>7 DEF CleanupFindsResult
<1>8. CASE \E e \in Execs : WatchdogObserves(e)
  BY <1>8 DEF WatchdogObserves, OpenCall
<1>9. CASE \E e \in Execs : WatchdogGivesUp(e)
  BY <1>9 DEF WatchdogGivesUp, OpenCall
<1>10. CASE \E e \in Execs : ExpireReturns(e)
  BY <1>10 DEF ExpireReturns, Publish
<1>11. CASE \E e \in Execs : AckSend(e)
  BY <1>11 DEF AckSend, Publish
<1>12. CASE \E e \in Execs : AckCommit(e)
  BY <1>12 DEF AckCommit
<1>13. CASE \E e \in Execs : AckRollback(e)
  BY <1>13 DEF AckRollback
<1>14. CASE \E e \in Execs : ResultCommit(e)
  BY <1>14 DEF ResultCommit, AcceptsResult, RowFree, OpenCall
<1>15. CASE \E e \in Execs : ResultComplete(e)
  BY <1>15 DEF ResultComplete
<1>16. CASE \E e \in Execs : \E who \in {"watchdog", "cancel"} : Expire(e, who)
  BY <1>16 DEF Expire, Acknowledged, MayExpire, OpenCall, RowFree
<1>17. CASE \E p \in Pods, e \in Execs : AckOpen(p, e)
  BY <1>17 DEF AckOpen, Late, Duplicate, RowFree
<1>18. CASE \E p \in Pods : PodRestart(p)
  BY <1>18 DEF PodRestart, OpenCall
<1>19. CASE Collect
  BY <1>19 DEF Collect, Collectable, RowFree
<1>20. CASE Tick
  BY <1>20 DEF Tick
<1>21. CASE UNCHANGED mcpVars
  BY <1>21 DEF mcpVars
<1>22. QED
  BY <1>1, <1>2, <1>3, <1>4, <1>5, <1>6, <1>7, <1>8, <1>9, <1>10, <1>11, <1>12, <1>13, <1>14, <1>15, <1>16, <1>17, <1>18, <1>19, <1>20, <1>21 DEF Next, CallStep, WatchdogStep, AckStep, ResultStep

-----------------------------------------------------------------------------
\* The inductive invariant holds of every reachable state of the exec door.
THEOREM Invariance == Spec => []IInv
<1>1. Init => IInv
  <2> SUFFICES ASSUME Init PROVE IInv
    OBVIOUS
  <2>1. TypeOK
    BY TimeAssumption, PodAssumption, Constructors
    DEF Init, TypeOK, CallStates, Futures, Holders
  <2>2. ASSUME NEW e \in Execs PROVE ExecInv(e)
    BY TimeAssumption
    DEF Init, ExecInv, IdleInv, TxInv, RowInv, WaiterInv, LogInv, Reset, Abort, NoRow, NoTx
  <2>3. QED
    BY <2>1, <2>2 DEF IInv
<1>2. IInv /\ [Next]_mcpVars => IInv'
  BY TypeStep, ExecStep DEF IInv
<1>3. QED
  BY <1>1, <1>2, PTL DEF Spec

\* Type correctness of the exec door (rows, transactions, waiters, published messages).
THEOREM TypeCorrect == Spec => []TypeOK
<1>1. IInv => TypeOK
  BY DEF IInv
<1>2. QED
  BY <1>1, Invariance, PTL

\* A caller that got the sandbox's result never has an abort or ack-reset
\* published for its execution (accept_reply against _expire and _acknowledge).
THEOREM ResultExcludesControlsHolds == Spec => []ResultExcludesControls
<1>1. IInv => ResultExcludesControls
  BY DEF IInv, ExecInv, WaiterInv, Reset, Abort, ResultExcludesControls
<1>2. QED
  BY <1>1, Invariance, PTL

\* No pod's timeout, result or collection crosses another pod's ack-reply in
\* progress (the row lock of _acknowledge).
THEOREM TimeoutCannotCrossReplyHolds == Spec => []TimeoutCannotCrossReply
<1>1. IInv => TimeoutCannotCrossReply
  BY DEF IInv, ExecInv, TxInv, WaiterInv, TimeoutCannotCrossReply
<1>2. QED
  BY <1>1, Invariance, PTL

\* A duplicate acknowledgement never preempts the abort of an acknowledged
\* execution with an ack-reset, and an abort never precedes the ack-reply.
THEOREM HandshakeOrder == Spec => [](ResetNeverPreemptsAbort /\ AbortOnlyAfterReply)
<1>1. IInv => ResetNeverPreemptsAbort /\ AbortOnlyAfterReply
  BY DEF IInv, TypeOK, ExecInv, LogInv, Reset, Abort, ResetNeverPreemptsAbort, AbortOnlyAfterReply
<1>2. QED
  BY <1>1, Invariance, PTL

\* The collector's two-timeout horizon never reaches a row inside its deadline
\* (Scheduler.tick against the extension of _acknowledge).
THEOREM CollectorSafe == Spec => []CollectorSparesOpenDeadlines
<1>1. IInv => CollectorSparesOpenDeadlines
  BY TimeAssumption
  DEF IInv, TypeOK, Rows, ExecInv, RowInv, CollectorSparesOpenDeadlines, Collectable
<1>2. QED
  BY <1>1, Invariance, PTL

\* No step revives a tombstone or moves the deadline of an acknowledged row.
THEOREM RowNeverRevivesHolds == Spec => RowNeverRevives
<1>1. IInv /\ IInv' /\ [Next]_mcpVars =>
        [\A e \in Execs :
            /\ row[e].state = "tombstone" => row'[e].state # "live"
            /\ row[e].acked /\ row'[e].state # "absent" => row'[e].deadline = row[e].deadline]_mcpVars
  <2> SUFFICES ASSUME IInv, Next, NEW f \in Execs
               PROVE  /\ row[f].state = "tombstone" => row'[f].state # "live"
                      /\ row[f].acked /\ row'[f].state # "absent" =>
                            row'[f].deadline = row[f].deadline
    BY DEF mcpVars
  <2> TypeOK /\ \A e \in Execs : ExecInv(e)
    BY DEF IInv
  <2> USE DEF TypeOK, Rows, NoRow, ExecInv, IdleInv, TxInv, RowInv
  <2>1. CASE row' = row
    BY <2>1
  <2>2. CASE \E e \in Execs : (\E p \in Pods : Execute(p, e)) \/ SetupFails(e)
    BY <2>2 DEF Execute, SetupFails
  <2>3. CASE \E e \in Execs : \E who \in {"watchdog", "cancel"} : Expire(e, who)
    BY <2>3 DEF Expire
  <2>4. CASE \E e \in Execs : AckCommit(e)
    <3> PICK e \in Execs : AckCommit(e)
      BY <2>4
    <3>1. CASE f # e
      BY <3>1 DEF AckCommit
    <3>2. CASE f = e /\ tx[e].verdict = "reset"
      BY <3>2 DEF AckCommit
    <3>3. CASE f = e /\ tx[e].verdict = "reply"
      BY <3>3 DEF AckCommit
    <3>4. QED
      BY <3>1, <3>2, <3>3 DEF Transactions
  <2>5. CASE \E e \in Execs : ResultCommit(e)
    BY <2>5 DEF ResultCommit
  <2>6. CASE Collect
    BY <2>6 DEF Collect
  <2>7. QED
    BY <2>1, <2>2, <2>3, <2>4, <2>5, <2>6
    DEF Next, CallStep, WatchdogStep, AckStep, ResultStep, PublishRequest, Return, Disconnect,
        CleanupFails, CleanupFindsResult, WatchdogObserves, WatchdogGivesUp, ExpireReturns,
        AckOpen, AckSend, AckRollback, ResultComplete, PodRestart, Tick
<1>2. QED
  BY <1>1, Invariance, PTL DEF Spec, RowNeverRevives
=============================================================================
