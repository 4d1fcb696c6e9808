------------------------------- MODULE AdsRun -------------------------------
(***************************************************************************)
(* One chat session in ads: its transcript, its runs and their buffered    *)
(* deltas (SendService, EngineOutputService, Watchdog).                    *)
(*                                                                         *)
(* A run is named by its message id.  Each database transaction is one     *)
(* step: none contains an await, and ads is one process.  What lies        *)
(* between two transactions (publications, the watchdog's list of due      *)
(* runs) is state.  Standing alone, outputs of any run with any order      *)
(* number arrive at any time, any number of times.                         *)
(***************************************************************************)
EXTENDS Integers, FiniteSets, Sequences

CONSTANTS
    Msgs,       \* message ids, one run each
    MaxOrder,   \* bound on order numbers
    Tombs,      \* order numbers of tombstone deltas
    None        \* no tombstone

ASSUME AdsAssumption ==
    /\ MaxOrder \in Nat
    /\ Tombs \subseteq 0..MaxOrder

VARIABLES
    run,        \* session_run and session_run_buffer
    chain,      \* the entries from head to latest: <<message, order>>, the user's is -1
    committed,  \* chat.committed_tombstone_id
    overdue,    \* ping-death, or in finishing the gap, deadline has passed
    sending,    \* sends whose request is still to be produced
    acking,     \* runs whose ack-response is still to be produced
    watch,      \* how far the watchdog got with each run it found due
    toEngine    \* records of ads.engine.request not yet consumed

rowVars == <<run, chain, committed, overdue>>
adsVars == <<rowVars, sending, acking, watch, toEngine>>

Orders == 0..MaxOrder
Statuses == {"new", "pending", "running", "finishing", "finished", "broken"}
Runs == [status : Statuses, watermark : -1..MaxOrder, last : -1..MaxOrder,
         buffer : SUBSET Orders, tomb : Orders \cup {-1}]
NewRun == [status |-> "new", watermark |-> -1, last |-> -1, buffer |-> {}, tomb |-> -1]
Control(t, m) == [type |-> t, msg |-> m]

InFlight(m) == run[m].status \in {"pending", "running", "finishing"}

Init ==
    /\ run = [m \in Msgs |-> NewRun]
    /\ chain = <<>> /\ committed = None
    /\ overdue = [m \in Msgs |-> FALSE]
    /\ sending = {} /\ acking = {}
    /\ watch = [m \in Msgs |-> "no"]
    /\ toEngine = {}

-----------------------------------------------------------------------------
(***************************************************************************)
(* SendService.send.                                                       *)
(***************************************************************************)

\* Mutant: a second run may be claimed.
UnclaimedAnyway == TRUE

Unclaimed == \A m \in Msgs : ~InFlight(m)

\* The user's entry and a pending run, if no run of the session is in flight.
Send(m) ==
    /\ run[m].status = "new" /\ Unclaimed
    /\ run' = [run EXCEPT ![m].status = "pending"]
    /\ chain' = Append(chain, <<m, -1>>)
    /\ sending' = sending \cup {m}
    /\ UNCHANGED <<committed, overdue, acking, watch, toEngine>>

\* The request is produced, or fails to be; the run stays pending either way.
SendProduce(m) ==
    /\ m \in sending
    /\ sending' = sending \ {m}
    /\ toEngine' \in {toEngine, toEngine \cup {Control("request", m)}}
    /\ UNCHANGED <<rowVars, acking, watch>>

-----------------------------------------------------------------------------
(***************************************************************************)
(* EngineOutputService: one engine output each.                            *)
(***************************************************************************)

\* acknowledge: only the pending run of this message starts running.
Acknowledge(m) ==
    /\ run[m].status = "pending"
    /\ run' = [run EXCEPT ![m].status = "running"]
    /\ overdue' = [overdue EXCEPT ![m] = FALSE]
    /\ acking' = acking \cup {m}
    /\ UNCHANGED <<chain, committed, sending, watch, toEngine>>

AckProduce(m) ==
    /\ m \in acking
    /\ acking' = acking \ {m}
    /\ toEngine' \in {toEngine, toEngine \cup {Control("ack-response", m)}}
    /\ UNCHANGED <<rowVars, sending, watch>>

\* The end of the continuous prefix that starts after w.
Reach(w, B) ==
    CHOOSE v \in w..MaxOrder :
        /\ \A k \in (w + 1)..v : k \in B
        /\ v + 1 \notin B

\* _promote: the newly continuous deltas, appended in order.
Promoted(m, v) == [k \in 1..(v - run[m].watermark) |-> <<m, run[m].watermark + k>>]

\* Mutant: a tombstone counts as soon as it is buffered.
CandidateBuffered(m, v) ==
    LET held == Tombs \cap run[m].buffer
    IN  IF held = {} THEN run[m].tomb ELSE CHOOSE k \in held : \A j \in held : j <= k

\* The tombstone among them becomes the run's candidate; the last one wins.
Candidate(m, v) ==
    LET fresh == {k \in Tombs : run[m].watermark < k /\ k <= v}
    IN  IF fresh = {} THEN run[m].tomb ELSE CHOOSE k \in fresh : \A j \in fresh : j <= k

\* _finish_run commits the candidate.
CommitTomb(m, t) == committed' = IF t = -1 THEN committed ELSE <<m, t>>

\* Mutant: a finish that leaves a gap counts as complete.
CompleteAnyway(last, v) == last # -1

Complete(last, v) == last # -1 /\ v >= last

\* partial_response: buffer the delta, promote, and finish when nothing is missing.
Partial(m, o) ==
    /\ InFlight(m)
    /\ run[m].last = -1 \/ o <= run[m].last
    /\ o \notin run[m].buffer
    /\ LET B == run[m].buffer \cup {o}
           v == Reach(run[m].watermark, B)
           t == Candidate(m, v)
           done == v # run[m].watermark /\ Complete(run[m].last, v)
       IN  /\ run' = [run EXCEPT ![m] =
                          [status |-> IF done THEN "finished" ELSE run[m].status,
                           watermark |-> v, last |-> run[m].last, buffer |-> B, tomb |-> t]]
           /\ chain' = chain \o Promoted(m, v)
           /\ IF done THEN CommitTomb(m, t) ELSE UNCHANGED committed
    /\ overdue' = IF run[m].status = "finishing" THEN overdue ELSE [overdue EXCEPT ![m] = FALSE]
    /\ UNCHANGED <<sending, acking, watch, toEngine>>

\* ping carries no message id: whichever run is in flight is kept alive.
Ping(m) ==
    /\ run[m].status \in {"pending", "running"}
    /\ overdue' = [overdue EXCEPT ![m] = FALSE]
    /\ UNCHANGED <<run, chain, committed, sending, acking, watch, toEngine>>

\* Position of the user's entry of m.
UserEntry(m) == CHOOSE k \in DOMAIN chain : chain[k] = <<m, -1>>

\* Mutant: a finished run is unwound too.
BreakableAnyway(m) == InFlight(m) \/ run[m].status = "finished"

\* _break_run spares a finished run (a deleted one is not found).
Breakable(m) == InFlight(m)

\* Mutant: the buffer is left behind and the entries stay.
UnwindRunOnly(m) ==
    /\ run' = [run EXCEPT ![m] = [NewRun EXCEPT !.status = "broken"]]
    /\ UNCHANGED chain

\* _break_run: latest moves before the user's entry; buffer, run and entries go.
Unwind(m) ==
    /\ chain' = SubSeq(chain, 1, UserEntry(m) - 1)
    /\ run' = [run EXCEPT ![m] = [NewRun EXCEPT !.status = "broken"]]

Break(m) == IF Breakable(m) THEN Unwind(m) ELSE UNCHANGED <<run, chain>>

\* finish with no, a negative or a too small last order breaks the run; a first
\* valid one fixes last_order; a missing delta leaves the run finishing.
Finish(m, l) ==
    /\ InFlight(m)
    /\ \/ /\ l < 0 \/ l < run[m].watermark
          /\ Break(m)
          /\ UNCHANGED <<committed, overdue>>
       \/ /\ l >= 0 /\ l >= run[m].watermark
          /\ LET last == IF run[m].last = -1 THEN l ELSE run[m].last
                 done == Complete(last, run[m].watermark)
             IN  /\ run' = [run EXCEPT ![m].last = last,
                                       ![m].status = IF done THEN "finished" ELSE "finishing"]
                 /\ IF done THEN CommitTomb(m, run[m].tomb) ELSE UNCHANGED committed
                 /\ overdue' = IF run[m].status = "finishing" THEN overdue
                               ELSE [overdue EXCEPT ![m] = FALSE]
          /\ UNCHANGED chain
    /\ UNCHANGED <<sending, acking, watch, toEngine>>

\* error of this message breaks its run, without an abort.
Error(m) ==
    /\ InFlight(m)
    /\ Break(m)
    /\ UNCHANGED <<committed, overdue, sending, acking, watch, toEngine>>

-----------------------------------------------------------------------------
(***************************************************************************)
(* Watchdog: a list of due runs first, then one run after the other.       *)
(***************************************************************************)
TimePasses(m) ==
    /\ InFlight(m) /\ ~overdue[m]
    /\ overdue' = [overdue EXCEPT ![m] = TRUE]
    /\ UNCHANGED <<run, chain, committed, sending, acking, watch, toEngine>>

\* _due: ping death of a pending or running run, or a gapped finish.
WatchDue(m) ==
    /\ watch[m] = "no" /\ InFlight(m) /\ overdue[m]
    /\ watch' = [watch EXCEPT ![m] = IF run[m].status = "finishing" THEN "unwind" ELSE "abort"]
    /\ UNCHANGED <<rowVars, sending, acking, toEngine>>

\* Mutant: an abort that cannot be produced skips the local unwind.
WatchAbortOrNothing(m) ==
    /\ watch[m] = "abort"
    /\ \/ /\ InFlight(m)
          /\ toEngine' = toEngine \cup {Control("abort", m)}
          /\ watch' = [watch EXCEPT ![m] = "unwind"]
       \/ watch' = [watch EXCEPT ![m] = "no"] /\ UNCHANGED toEngine
    /\ UNCHANGED <<rowVars, sending, acking>>

\* abort_and_break: the run is looked up again and its abort produced, or not,
WatchAbort(m) ==
    /\ watch[m] = "abort"
    /\ IF InFlight(m)
       THEN /\ toEngine' \in {toEngine, toEngine \cup {Control("abort", m)}}
            /\ watch' = [watch EXCEPT ![m] = "unwind"]
       ELSE /\ watch' = [watch EXCEPT ![m] = "no"]
            /\ UNCHANGED toEngine
    /\ UNCHANGED <<rowVars, sending, acking>>

\* and it is unwound locally either way; so is a gapped finish, without abort.
WatchUnwind(m) ==
    /\ watch[m] = "unwind"
    /\ Break(m)
    /\ watch' = [watch EXCEPT ![m] = "no"]
    /\ UNCHANGED <<committed, overdue, sending, acking, toEngine>>

\* ads is replaced: rows survive, publications and the due list do not.
AdsRestart ==
    /\ sending' = {} /\ acking' = {}
    /\ watch' = [m \in Msgs |-> "no"]
    /\ UNCHANGED <<rowVars, toEngine>>

-----------------------------------------------------------------------------
OutputStep(m) ==
    \/ Acknowledge(m) \/ Ping(m) \/ Error(m)
    \/ \E o \in Orders : Partial(m, o)
    \/ \E l \in -1..MaxOrder : Finish(m, l)

LocalStep(m) ==
    \/ Send(m) \/ SendProduce(m) \/ AckProduce(m)
    \/ TimePasses(m) \/ WatchDue(m) \/ WatchAbort(m) \/ WatchUnwind(m)

Next ==
    \/ \E m \in Msgs : OutputStep(m) \/ LocalStep(m)
    \/ AdsRestart

Spec == Init /\ [][Next]_adsVars

-----------------------------------------------------------------------------
TypeOK ==
    /\ run \in [Msgs -> Runs]
    /\ chain \in Seq(Msgs \X (Orders \cup {-1}))
    /\ committed \in (Msgs \X Orders) \cup {None}
    /\ overdue \in [Msgs -> BOOLEAN]
    /\ sending \subseteq Msgs /\ acking \subseteq Msgs
    /\ watch \in [Msgs -> {"no", "abort", "unwind"}]
    /\ toEngine \subseteq [type : {"request", "ack-response", "abort"}, msg : Msgs]

\* Where in the transcript a run has its entries, and how many: the user's and the
\* deltas 0..watermark; a run that was broken, or never sent, has none.
Block(m) == {k \in DOMAIN chain : chain[k][1] = m}
Shown(m) == IF InFlight(m) \/ run[m].status = "finished" THEN run[m].watermark + 2 ELSE 0

\* Whatever order deltas, finishes, errors and timeouts come in, a run contributes
\* its entries in order, once each, and with nothing of another turn between them.
TranscriptInOrder ==
    \A m \in Msgs : \E before \in 0..Len(chain) :
        /\ Block(m) = (before + 1)..(before + Shown(m))
        /\ \A k \in Block(m) : chain[k] = <<m, k - before - 2>>

\* Only the last turn of the transcript may be unfinished.
TurnsDoNotMix ==
    \A k \in DOMAIN chain : InFlight(chain[k][1]) => chain[Len(chain)][1] = chain[k][1]

\* The committed tombstone, from which the next history is cut, is an entry of the
\* transcript and belongs to a finished run.
CommittedTombstoneStands ==
    committed # None =>
        /\ run[committed[1]].status = "finished"
        /\ \E k \in DOMAIN chain : chain[k] = committed

\* A finished run has every delta up to the last order the engine announced.
FinishedIsComplete ==
    \A m \in Msgs : run[m].status = "finished" => run[m].last # -1 /\ run[m].watermark >= run[m].last

\* A finished turn is never taken out of the transcript again, also when the
\* watchdog found its run due before it finished.
FinishedStays ==
    [][\A m \in Msgs : run[m].status = "finished" =>
            run'[m].status = "finished" /\ Block(m)' = Block(m)]_adsVars
=============================================================================
