---------------------------- MODULE GuestExecutor ----------------------------
(***************************************************************************)
(* The exec/PID lifecycle of ads-sandbox-ipc: GuestExecutor, its PID store *)
(* on the IPC volume, and the guest's side of it (ads-session-exec, its    *)
(* PID file, the pod).                                                     *)
(*                                                                         *)
(* Every await is a step: between two of them the script may record its    *)
(* PID or exit, the process may crash, the pod may be replaced.  A guest   *)
(* command is refused when the pod's UID is no longer the expected one.    *)
(***************************************************************************)
EXTENDS Integers, FiniteSets

CONSTANTS
    Execs,      \* executions, the startup ping included
    Pids,       \* process ids of the guest
    MaxPods,    \* bound on guest pods
    MaxCrashes, \* bound on crashes of the IPC process
    None        \* no execution

VARIABLES
    podUid,     \* the guest pod that exists
    daemon,     \* PID of a process of the guest itself, not of a session
    used,       \* PIDs the guest pod has given out
    tree,       \* each execution's ads-session-exec in the guest
    pidOf,      \* the PID of that script, once it runs
    file,       \* /run/ads-session-exec.pid; 0 when absent
    store,      \* PidStore: entries on the IPC volume
    pod, clean, \* GuestExecutor.pod (0 is None) and .clean
    ready,      \* prepare() returned True
    pc, cur, pid, exited, \* the coroutine: where it is, its request, pid and exited
    todo,       \* the PIDs prepare still has to kill
    outcome,    \* how each execution ended
    escaped,    \* history: executions whose script had not recorded a PID when it was looked for
    harmed,     \* history: a process of the guest itself was killed
    crashes

guestSide == <<podUid, daemon, used, tree, pidOf, file>>
coroutine == <<pc, cur, pid, exited, todo>>
ghosts == <<escaped, harmed, crashes>>
vars == <<guestSide, store, pod, clean, ready, coroutine, outcome, ghosts>>

Entries == [exec : Execs, uid : 1..MaxPods, pid : Pids]
Alive(e) == tree[e] \in {"starting", "live"}

Init ==
    /\ podUid = 1 /\ daemon \in Pids /\ used = {daemon}
    /\ tree = [e \in Execs |-> "none"] /\ pidOf = [e \in Execs |-> 0]
    /\ file = 0 /\ store = {}
    /\ pod = 0 /\ clean = TRUE /\ ready = FALSE
    /\ pc = "boot" /\ cur = None /\ pid = 0 /\ exited = FALSE /\ todo = {}
    /\ outcome = [e \in Execs |-> "none"]
    /\ escaped = {} /\ harmed = FALSE /\ crashes = 0

-----------------------------------------------------------------------------
(***************************************************************************)
(* The guest.                                                              *)
(***************************************************************************)

\* The script writes $$ to the PID file and runs the command,
ScriptRecords(e) ==
    /\ tree[e] = "starting"
    /\ \E p \in Pids \ used :
        /\ pidOf' = [pidOf EXCEPT ![e] = p]
        /\ used' = used \cup {p}
        /\ file' = p
    /\ tree' = [tree EXCEPT ![e] = "live"]
    /\ UNCHANGED <<podUid, daemon, store, pod, clean, ready, coroutine, outcome, ghosts>>

\* or exits: its EXIT trap removes the file, whatever the file names by now; a
\* script that fails its own checks exits before the trap is set.
ScriptExits(e) ==
    /\ Alive(e)
    /\ tree' = [tree EXCEPT ![e] = "gone"]
    /\ file' = IF tree[e] = "live" THEN 0 ELSE file
    /\ UNCHANGED <<podUid, daemon, used, pidOf, store, pod, clean, ready, coroutine, outcome, ghosts>>

\* A replacement pod has a new UID and a new PID namespace.
PodReplaced ==
    /\ podUid < MaxPods
    /\ podUid' = podUid + 1
    /\ \E p \in Pids : daemon' = p /\ used' = {p}
    /\ tree' = [e \in Execs |-> IF Alive(e) THEN "gone" ELSE tree[e]]
    /\ file' = 0
    /\ UNCHANGED <<pidOf, store, pod, clean, ready, coroutine, outcome, ghosts>>

\* KILL_TREE: stop and kill the process and its descendants; SIGKILL runs no trap.
KillTree(p) ==
    /\ tree' = [e \in Execs |-> IF tree[e] = "live" /\ pidOf[e] = p THEN "gone" ELSE tree[e]]
    /\ harmed' = (harmed \/ p = daemon)

\* The scripts that were not looked at in time.
Missed(p) == {e \in Execs : p = 0 /\ tree[e] = "starting"}

-----------------------------------------------------------------------------
(***************************************************************************)
(* prepare: reap what an earlier process left, then ping the guest.        *)
(***************************************************************************)

\* Mutant: numbers of a pod that is gone are applied to its replacement.
RecordedAnywhere == {x.pid : x \in store}

Recorded == {x.pid : x \in {y \in store : y.uid = podUid}}

\* ready_pod and the entries of this pod.
PrepareScan ==
    /\ pc = "boot"
    /\ pod' = podUid
    /\ todo' = Recorded
    /\ pc' = "read"
    /\ UNCHANGED <<guestSide, store, clean, ready, cur, pid, exited, outcome, ghosts>>

\* The PID file covers a crash before the store was written.
PrepareRead ==
    /\ pc = "read" /\ pod = podUid
    /\ todo' = todo \cup ({file} \ {0})
    /\ escaped' = escaped \cup Missed(file)
    /\ pc' = "kill"
    /\ UNCHANGED <<guestSide, store, pod, clean, ready, cur, pid, exited, outcome, harmed, crashes>>

\* Mutant: the PID file and the store are emptied before the kill.
PrepareKillLast(p) ==
    /\ pc = "kill" /\ pod = podUid /\ p \in todo
    /\ file' = 0 /\ store' = {} /\ todo' = todo \ {p}
    /\ UNCHANGED <<podUid, daemon, used, tree, pidOf, pod, clean, ready, pc, cur, pid, exited, outcome,
                   ghosts>>

PrepareKill(p) ==
    /\ pc = "kill" /\ pod = podUid /\ p \in todo
    /\ KillTree(p)
    /\ todo' = todo \ {p}
    /\ UNCHANGED <<podUid, daemon, used, pidOf, file, store, pod, clean, ready, pc, cur, pid, exited,
                   outcome, escaped, crashes>>

PrepareClearFile ==
    /\ pc = "kill" /\ pod = podUid /\ todo = {}
    /\ file' = 0
    /\ pc' = "clear"
    /\ UNCHANGED <<podUid, daemon, used, tree, pidOf, store, pod, clean, ready, cur, pid, exited, todo,
                   outcome, ghosts>>

\* The store is cleared, trust is installed, and the ping is next.
PrepareClearStore ==
    /\ pc = "clear"
    /\ store' = {}
    /\ pc' = "idle"
    /\ UNCHANGED <<guestSide, pod, clean, ready, cur, pid, exited, todo, outcome, ghosts>>

\* A guest command failed, or the ping did: _startup tries again.
PrepareFails ==
    /\ pc \in {"read", "kill", "clear"} \/ (pc = "idle" /\ ~ready)
    /\ pc' = "boot" /\ todo' = {}
    /\ UNCHANGED <<guestSide, store, pod, clean, ready, cur, pid, exited, outcome, ghosts>>

-----------------------------------------------------------------------------
(***************************************************************************)
(* execute.                                                                *)
(***************************************************************************)

\* Mutant: a failed cleanup does not block the next execution.
UsableAnyway == pod # 0

Usable == pod # 0 /\ clean

\* One execution at a time: IpcService has one unit, and the ping comes before any.
Begin(e) ==
    /\ pc = "idle" /\ outcome[e] = "none"
    /\ \/ /\ Usable
          /\ clean' = FALSE
          /\ pc' = "start" /\ cur' = e /\ pid' = 0 /\ exited' = FALSE
          /\ UNCHANGED outcome
       \/ /\ ~Usable
          /\ outcome' = [outcome EXCEPT ![e] = "unavailable"]
          /\ UNCHANGED <<clean, pc, cur, pid, exited>>
    /\ UNCHANGED <<guestSide, store, pod, ready, todo, ghosts>>

\* kube.start: the guest spawns the script; the call may fail after that.
Start ==
    /\ pc = "start" /\ pod = podUid
    /\ tree' = [tree EXCEPT ![cur] = "starting"]
    /\ pc' \in {"poll", "cleanup"}
    /\ UNCHANGED <<podUid, daemon, used, pidOf, file, store, pod, clean, ready, cur, pid, exited, todo,
                   outcome, ghosts>>

\* The loop reads the PID file until it names a process,
PollRead ==
    /\ pc = "poll" /\ pid = 0 /\ pod = podUid /\ file # 0
    /\ pid' = file
    /\ pc' = "save"
    /\ UNCHANGED <<guestSide, store, pod, clean, ready, cur, exited, todo, outcome, ghosts>>

\* and stores it atomically.
PollSave ==
    /\ pc = "save"
    /\ store' = store \cup {[exec |-> cur, uid |-> pod, pid |-> pid]}
    /\ pc' = "poll"
    /\ UNCHANGED <<guestSide, pod, clean, ready, cur, pid, exited, todo, outcome, ghosts>>

\* The exit frame.
Exit ==
    /\ pc = "poll" /\ tree[cur] = "gone"
    /\ exited' = TRUE
    /\ pc' = "clearing"
    /\ UNCHANGED <<guestSide, store, pod, clean, ready, cur, pid, todo, outcome, ghosts>>

\* Abort, timeout, cancellation, or a guest command that raised.
Interrupt ==
    /\ pc \in {"start", "poll", "save"}
    /\ pc' = "cleanup"
    /\ UNCHANGED <<guestSide, store, pod, clean, ready, cur, pid, exited, todo, outcome, ghosts>>

\* Cleanup of an execution that did not exit: a PID still unknown is looked for,
CleanupRead ==
    /\ pc = "cleanup" /\ (pid # 0 \/ pod = podUid)
    /\ pid' = IF pid # 0 THEN pid ELSE file
    /\ escaped' = IF pid # 0 THEN escaped ELSE escaped \cup Missed(file)
    /\ pc' = IF pid' = 0 THEN "clearing" ELSE "reap"
    /\ store' = IF pid' = 0 THEN store ELSE store \cup {[exec |-> cur, uid |-> pod, pid |-> pid']}
    /\ UNCHANGED <<guestSide, pod, clean, ready, cur, exited, todo, outcome, harmed, crashes>>

\* Mutant: the tree is left to itself.
CleanupKillNothing ==
    /\ pc = "reap" /\ pod = podUid
    /\ pc' = "clearing"
    /\ UNCHANGED <<guestSide, store, pod, clean, ready, cur, pid, exited, todo, outcome, ghosts>>

\* and its tree is killed.
CleanupKill ==
    /\ pc = "reap" /\ pod = podUid
    /\ KillTree(pid)
    /\ pc' = "clearing"
    /\ UNCHANGED <<podUid, daemon, used, pidOf, file, store, pod, clean, ready, cur, pid, exited, todo,
                   outcome, escaped, crashes>>

CleanupClear ==
    /\ pc = "clearing" /\ pod = podUid
    /\ file' = 0
    /\ pc' = "remove"
    /\ UNCHANGED <<podUid, daemon, used, tree, pidOf, store, pod, clean, ready, cur, pid, exited, todo,
                   outcome, ghosts>>

\* The ping's success makes the executor ready.
CleanupRemove ==
    /\ pc = "remove"
    /\ store' = {x \in store : x.exec # cur}
    /\ clean' = TRUE
    /\ outcome' = [outcome EXCEPT ![cur] = IF exited THEN "exited" ELSE "interrupted"]
    /\ ready' = (ready \/ exited)
    /\ pc' = "idle" /\ cur' = None
    /\ UNCHANGED <<guestSide, pod, pid, exited, todo, ghosts>>

\* A cleanup command fails or times out: the entry stays and so does ~clean.
CleanupFails ==
    /\ pc \in {"cleanup", "reap", "clearing", "remove"}
    /\ outcome' = [outcome EXCEPT ![cur] = "uncleaned"]
    /\ pc' = "idle" /\ cur' = None
    /\ UNCHANGED <<guestSide, store, pod, clean, ready, pid, exited, todo, ghosts>>

\* The IPC process dies and is started again: the store and the guest survive.
Crash ==
    /\ crashes < MaxCrashes
    /\ crashes' = crashes + 1
    /\ pod' = 0 /\ clean' = TRUE /\ ready' = FALSE
    /\ pc' = "boot" /\ cur' = None /\ pid' = 0 /\ exited' = FALSE /\ todo' = {}
    /\ outcome' = IF cur = None THEN outcome ELSE [outcome EXCEPT ![cur] = "crashed"]
    /\ UNCHANGED <<guestSide, store, escaped, harmed>>

-----------------------------------------------------------------------------
GuestStep == PodReplaced \/ \E e \in Execs : ScriptRecords(e) \/ ScriptExits(e)

PrepareStep ==
    \/ PrepareScan \/ PrepareRead \/ PrepareClearFile \/ PrepareClearStore \/ PrepareFails
    \/ \E p \in Pids : PrepareKill(p)

ExecuteStep ==
    \/ Start \/ PollRead \/ PollSave \/ Exit \/ Interrupt
    \/ CleanupRead \/ CleanupKill \/ CleanupClear \/ CleanupRemove \/ CleanupFails
    \/ \E e \in Execs : Begin(e)

Next == GuestStep \/ PrepareStep \/ ExecuteStep \/ Crash

Spec == Init /\ [][Next]_vars

-----------------------------------------------------------------------------
TypeOK ==
    /\ podUid \in 1..MaxPods /\ daemon \in Pids /\ used \subseteq Pids
    /\ tree \in [Execs -> {"none", "starting", "live", "gone"}]
    /\ pidOf \in [Execs -> Pids \cup {0}]
    /\ file \in Pids \cup {0} /\ store \subseteq Entries
    /\ pod \in 0..MaxPods /\ clean \in BOOLEAN /\ ready \in BOOLEAN
    /\ pc \in {"boot", "read", "kill", "clear", "idle", "start", "poll", "save", "cleanup", "reap",
               "clearing", "remove"}
    /\ cur \in Execs \cup {None} /\ pid \in Pids \cup {0} /\ exited \in BOOLEAN
    /\ todo \subseteq Pids
    /\ outcome \in [Execs -> {"none", "unavailable", "exited", "interrupted", "uncleaned", "crashed"}]
    /\ escaped \subseteq Execs /\ harmed \in BOOLEAN /\ crashes \in Nat

\* "Never apply old numbers to it": across crashes and replaced pods, a kill meant
\* for a session's tree never hits a process of the guest itself.
OnlySessionTreesKilled == ~harmed

\* Unless a script was caught before it recorded its PID, the guest never holds
\* the trees of two executions: each starts in a guest that prepare or the
\* previous cleanup emptied, and a failed cleanup blocks the next.
OneTreeInGuest ==
    escaped = {} => \A d, e \in Execs : Alive(d) /\ Alive(e) => d = e

\* "Cleanup failure preserves PID state": a tree that outlives its execution is
\* named by the PID file or by an entry of its pod, where the next prepare looks.
SurvivorsAreRecorded ==
    escaped = {} => \A e \in Execs :
        tree[e] = "live" /\ outcome[e] \in {"uncleaned", "crashed"}
        => pidOf[e] = file \/ pidOf[e] \in Recorded

\* Whenever the executor is free for the next request, no interrupted or crashed
\* execution is left in the guest.
InterruptedIsReaped ==
    escaped = {} /\ pc = "idle" /\ clean =>
        \A e \in Execs : outcome[e] \in {"interrupted", "crashed"} => ~Alive(e)

\* "Abort/timeout reaps that tree": the same without the exception for a script
\* that had not recorded its PID yet.
AbortReaps ==
    pc = "idle" /\ clean => \A e \in Execs : outcome[e] = "interrupted" => ~Alive(e)
=============================================================================
