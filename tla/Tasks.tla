-------------------------------- MODULE Tasks --------------------------------
(***************************************************************************)
(* Several Tasks in one document: what each is bound to, the control gate  *)
(* of each, the commands that hold a gate, the schedulers that share the   *)
(* one slot, and recoveries, which need the gates of all Tasks.  What an   *)
(* activity does to its Change is left to ChangePipeline: here it is a     *)
(* lease ("attempt" or "ci") or a promotion, which has none.               *)
(***************************************************************************)
EXTENDS Naturals, FiniteSets, FiniteSetsExt

CONSTANTS
    MaxTasks,        \* bound: Tasks ever created
    Paths, Repos,    \* directories, and the Git directories they lead to
    Scheds, Procs,   \* processes of "scp run" and of other commands
    Recoverers,      \* processes of "scp recover"
    Operations,      \* what commands and schedulers are asked to do
    MaxCrashes,      \* bound: processes killed
    MaxMoves         \* bound: times a user changes what a path leads to

Tasks == 1..MaxTasks
None == 0
ASSUME TasksAssumption ==
    /\ MaxTasks \in Nat /\ MaxCrashes \in Nat /\ MaxMoves \in Nat
    /\ Scheds \cap Procs = {} /\ Scheds \cap Recoverers = {}
    /\ Procs \cap Recoverers = {}
    /\ {"none", "dead", "free", "stale"} \cap
          (Scheds \cup Procs \cup Recoverers) = {}

VARIABLES
    status, path, identity,  \* per Task: lifecycle, RepoPath, binding
    cancelled, pending,      \* the Tasks with a cancellation, an activity
    leases,                  \* active Attempts and CI runs, <<task, kind>>
    slot,                    \* the global slot: its owner and its Task
    blocked,                 \* an unresolved GLOBAL blocker
    gate,                    \* per Task: who holds its control lock
    runLock, at,             \* run.lock, and where the paths lead
    proc, sched, rec,        \* the processes
    crashes, moves
document == <<status, path, identity, cancelled, pending, leases, slot,
              blocked>>
env == <<at, crashes, moves>>
vars == <<document, gate, runLock, proc, sched, rec, env>>

Created == {t \in Tasks : status[t] # "NONE"}
IdleSlot == [owner |-> "none", task |-> None]
NoProc == [at |-> "off", op |-> "none", task |-> None, path |-> "none",
           identity |-> "none"]
NoSched == [at |-> "off", kind |-> "none", task |-> None]
NoRec == [at |-> "off", controlled |-> {}, locked |-> {}, snapshot |-> {}]

Init ==
    /\ status = [t \in Tasks |-> "NONE"]
    /\ path = [t \in Tasks |-> "none"]
    /\ identity = [t \in Tasks |-> "none"]
    /\ cancelled = {} /\ pending = {} /\ leases = {}
    /\ slot = IdleSlot /\ blocked = FALSE
    /\ gate = [t \in Tasks |-> "free"] /\ runLock = "free"
    /\ at \in [Paths -> Repos]
    /\ proc = [p \in Procs |-> NoProc]
    /\ sched = [s \in Scheds |-> NoSched]
    /\ rec = [r \in Recoverers |-> NoRec]
    /\ crashes = 0 /\ moves = 0

Unleased(t) == \A l \in leases : l[1] # t
TaskQuiescent(t) == slot.task # t /\ Unleased(t)
\* Mutant: a free gate is marked as one without a holder.
FreedToNone(who) ==
    [t \in Tasks |-> IF gate[t] = who THEN "none" ELSE gate[t]]
Freed(who) == [t \in Tasks |-> IF gate[t] = who THEN "free" ELSE gate[t]]
\* Core.Release: only the owner's slot, and with it the selected activity.
Release(who) ==
    IF slot.owner = who
    THEN slot' = IdleSlot /\ pending' = pending \ {slot.task}
    ELSE UNCHANGED <<slot, pending>>

-----------------------------------------------------------------------------
(* Commands.  Each holds the gate of its Task from Begin to its answer.    *)

Bound(repo, t) ==
    \E u \in Tasks \ {t} : status[u] = "ACTIVE" /\ identity[u] = repo
Cancels(op) == op \in {"suspend", "close", "stopOption"}

\* "task create" reads what the path leads to, and only then begins its
\* transaction, without any gate.
CreateReads(p, d) ==
    /\ "create" \in Operations /\ proc[p].at = "off"
    /\ Tasks # Created
    /\ proc' = [proc EXCEPT ![p] =
          [at |-> "create", op |-> "create", task |-> None, path |-> d,
           identity |-> at[d]]]
    /\ UNCHANGED <<document, gate, runLock, sched, rec, env>>
CreateTask(p) ==
    LET t == Min(Tasks \ Created) IN
    /\ proc[p].at = "create" /\ proc' = [proc EXCEPT ![p] = NoProc]
    /\ IF blocked \/ Tasks = Created \/ Bound(proc[p].identity, None)
       THEN UNCHANGED <<status, path, identity>>
       ELSE /\ status' = [status EXCEPT ![t] = "ACTIVE"]
            /\ path' = [path EXCEPT ![t] = proc[p].path]
            /\ identity' = [identity EXCEPT ![t] = proc[p].identity]
    /\ UNCHANGED <<cancelled, pending, leases, slot, blocked, gate, runLock,
              sched, rec, env>>

\* beginControl and the checks that follow it.  resume resolves the path.
Begin(p, op, t) ==
    /\ proc[p].at = "off" /\ op \in Operations
    /\ gate[t] = "free" /\ t \notin cancelled
    /\ CASE op = "resume" -> status[t] = "SUSPENDED"
         [] op = "close" -> status[t] \in {"ACTIVE", "SUSPENDED"}
         [] op = "stopOption" -> status[t] = "ACTIVE" /\ t \in pending
         [] OTHER -> status[t] = "ACTIVE"
    /\ gate' = [gate EXCEPT ![t] = p]
    /\ proc' = [proc EXCEPT ![p] =
          [at |-> IF Cancels(op) THEN "request" ELSE "finish", op |-> op,
           task |-> t, path |-> path[t],
           identity |-> IF op = "resume" THEN at[path[t]] ELSE "none"]]
    /\ UNCHANGED <<document, runLock, sched, rec, env>>

\* requestCancellation: from here on only this command or a recovery may
\* drop the flag.  A selected activity is left to its own scheduler.
RequestCancellation(p) ==
    LET t == proc[p].task IN
    /\ proc[p].at = "request"
    /\ cancelled' = cancelled \cup {t}
    /\ pending' = IF slot.task = t THEN pending ELSE pending \ {t}
    /\ proc' = [proc EXCEPT ![p].at = "wait"]
    /\ UNCHANGED <<status, path, identity, leases, slot, blocked, gate,
              runLock, sched, rec, env>>
Settled(p) ==
    /\ proc[p].at = "wait" /\ TaskQuiescent(proc[p].task)
    /\ proc' = [proc EXCEPT ![p].at = "finish"]
    /\ UNCHANGED <<document, gate, runLock, sched, rec, env>>

Answered(p) ==
    /\ proc' = [proc EXCEPT ![p] = NoProc]
    /\ gate' = Freed(p)
\* The wait times out or is interrupted, or the command is killed: the flag
\* stays, the gate does not.
GiveUp(p) ==
    /\ proc[p].at = "wait" \/ (proc[p].at # "off" /\ crashes < MaxCrashes)
    /\ crashes' = IF proc[p].at = "wait" THEN crashes ELSE crashes + 1
    /\ Answered(p)
    /\ UNCHANGED <<document, runLock, sched, rec, at, moves>>

\* Mutant: resume compares with the binding the Task had.
MayResumeOld(p, t) == status[t] = "SUSPENDED" /\ ~Bound(identity[t], t)
MayResume(p, t) ==
    status[t] = "SUSPENDED" /\ ~Bound(proc[p].identity, t)
\* The last transaction of a command; refused, it leaves the flag behind.
Finish(p) ==
    LET t == proc[p].task
        op == proc[p].op
        done == /\ ~blocked
                /\ CASE op = "resume" -> MayResume(p, t)
                     [] op = "close" -> status[t] # "CLOSED" /\ Unleased(t)
                     [] op = "option" -> status[t] = "ACTIVE"
                     [] OTHER -> status[t] = "ACTIVE" /\ TaskQuiescent(t)
        after == CASE op = "suspend" -> "SUSPENDED"
                   [] op = "close" -> "CLOSED"
                   [] OTHER -> "ACTIVE"
    IN
    /\ proc[p].at = "finish" /\ Answered(p)
    /\ blocked' = (blocked \/ (op = "close" /\ ~Unleased(t)))
    /\ IF ~done THEN UNCHANGED <<status, identity, cancelled, pending>>
       ELSE /\ status' = [status EXCEPT ![t] = after]
            /\ identity' = IF op = "resume"
                  THEN [identity EXCEPT ![t] = proc[p].identity]
                  ELSE identity
            /\ cancelled' = IF op = "resume" THEN cancelled
                                             ELSE cancelled \ {t}
            /\ pending' = IF Cancels(op) THEN pending \ {t} ELSE pending
    /\ UNCHANGED <<path, leases, slot, runLock, sched, rec, env>>

ResolveBlocker ==
    /\ blocked /\ "resolve" \in Operations /\ blocked' = FALSE
    /\ UNCHANGED <<status, path, identity, cancelled, pending, leases, slot,
              gate, runLock, proc, sched, rec, env>>
\* A user moves another repository to a path, or a link to it.
Move(d, repo) ==
    /\ moves < MaxMoves /\ moves' = moves + 1
    /\ at[d] # repo /\ at' = [at EXCEPT ![d] = repo]
    /\ UNCHANGED <<document, gate, runLock, proc, sched, rec, crashes>>

-----------------------------------------------------------------------------
(* Schedulers.                                                             *)

Attempts == {l \in leases : l[2] = "attempt"}
\* Run takes run.lock; refused by what the document shows, it leaves it.
SchedStart(s) ==
    /\ sched[s].at = "off" /\ runLock = "free"
    /\ IF Attempts # {} \/ slot.owner # "none" \/ blocked
       THEN runLock' = "stale" /\ UNCHANGED sched
       ELSE runLock' = s /\ sched' = [sched EXCEPT ![s].at = "idle"]
    /\ UNCHANGED <<document, gate, proc, rec, env>>
SchedStop(s) ==                         \* Ctrl+C or a fail-stop
    /\ sched[s].at = "idle" /\ sched' = [sched EXCEPT ![s] = NoSched]
    /\ runLock' = "free"
    /\ UNCHANGED <<document, gate, proc, rec, env>>

runnable(t) == status[t] = "ACTIVE" /\ t \notin cancelled /\ ~blocked
\* Next hands an activity of Task t to s.
Select(s, t, kind) ==
    /\ sched[s].at = "idle" /\ kind \in Operations
    /\ slot.owner = "none" /\ runnable(t)
    /\ slot' = [owner |-> s, task |-> t]
    /\ pending' = pending \cup {t}
    /\ sched' = [sched EXCEPT ![s] = [at |-> "selected", kind |-> kind,
                                      task |-> t]]
    /\ UNCHANGED <<status, path, identity, cancelled, leases, blocked, gate,
              runLock, proc, rec, env>>

Idle(s) == sched' = [sched EXCEPT ![s] = [NoSched EXCEPT !.at = "idle"]]
\* PrepareAttempt or PrepareCI: a lease, unless the activity is refused.  Two
\* activities at a time fail Store.Validate.
Admit(s) ==
    LET t == sched[s].task
        admitted == slot.owner = s /\ runnable(t)
    IN
    /\ sched[s].at = "selected" /\ sched[s].kind # "promotion"
    /\ IF admitted /\ leases = {}
       THEN /\ leases' = {<<t, sched[s].kind>>}
            /\ sched' = [sched EXCEPT ![s].at = "working"]
            /\ UNCHANGED <<slot, pending, blocked>>
       ELSE /\ Idle(s) /\ Release(s)
            /\ blocked' = (blocked \/ admitted)
            /\ UNCHANGED leases
    /\ UNCHANGED <<status, path, identity, cancelled, gate, runLock, proc,
              rec, env>>
\* A promotion needs the gate of its Task, and never waits for it.
LockForPromotion(s) ==
    LET t == sched[s].task IN
    /\ sched[s].at = "selected" /\ sched[s].kind = "promotion"
    /\ IF gate[t] = "free"
       THEN /\ gate' = [gate EXCEPT ![t] = s]
            /\ sched' = [sched EXCEPT ![s].at = "working"]
            /\ UNCHANGED <<slot, pending>>
       ELSE Idle(s) /\ Release(s) /\ UNCHANGED gate
    /\ UNCHANGED <<status, path, identity, cancelled, leases, blocked,
              runLock, proc, rec, env>>
\* The activity ends: settled, out of Pending, the slot given back.
EndActivity(s) ==
    LET t == sched[s].task IN
    /\ sched[s].at = "working" /\ Idle(s)
    /\ leases' = leases \ {<<t, sched[s].kind>>}
    /\ pending' = pending \ {t} /\ slot' = IdleSlot
    /\ gate' = Freed(s)
    /\ UNCHANGED <<status, path, identity, cancelled, blocked, runLock, proc,
              rec, env>>
SchedCrash(s) ==
    /\ sched[s].at # "off"
    /\ crashes < MaxCrashes /\ crashes' = crashes + 1
    /\ sched' = [sched EXCEPT ![s] = NoSched]
    /\ slot' = IF slot.owner = s THEN [slot EXCEPT !.owner = "dead"] ELSE slot
    /\ runLock' = IF runLock = s THEN "stale" ELSE runLock
    /\ gate' = Freed(s)
    /\ UNCHANGED <<status, path, identity, cancelled, pending, leases,
              blocked, proc, rec, at, moves>>

-----------------------------------------------------------------------------
(* Recovery.                                                               *)

Alive(who) == who \in Scheds \cup Recoverers
\* Recover returns: the deferred calls give the slot back and free the gates.
Leaves(r) == Release(r) /\ gate' = Freed(r) /\ rec' = [rec EXCEPT ![r] = NoRec]

\* run.lock names no live process.  The Tasks to lock are those seen now.
RecoverStart(r) ==
    /\ rec[r].at = "off" /\ runLock \notin Scheds
    /\ "recover" \in Operations
    /\ rec' = [rec EXCEPT ![r].at = "gates", ![r].controlled = Created]
    /\ UNCHANGED <<document, gate, runLock, proc, sched, env>>
\* The gates, one by one in the order of SortedTasks.  A busy gate ends the
\* recovery.  Mutant: recovery waits for it.
WaitsForGate(r, t) == gate[t] = "free" /\ gate' = [gate EXCEPT ![t] = r]
    /\ rec' = [rec EXCEPT ![r].locked = @ \cup {t}]
    /\ UNCHANGED <<slot, pending>>
TakesGate(r, t) ==
    IF gate[t] = "free"
    THEN /\ gate' = [gate EXCEPT ![t] = r]
         /\ rec' = [rec EXCEPT ![r].locked = @ \cup {t}]
         /\ UNCHANGED <<slot, pending>>
    ELSE Leaves(r)
RecoverGate(r) ==
    /\ rec[r].at = "gates" /\ rec[r].locked # rec[r].controlled
    /\ TakesGate(r, Min(rec[r].controlled \ rec[r].locked))
    /\ UNCHANGED <<status, path, identity, cancelled, leases, blocked,
              runLock, proc, sched, env>>
\* The document is read again: the Attempts to settle are those active now.
RecoverReads(r) ==
    /\ rec[r].at = "gates" /\ rec[r].locked = rec[r].controlled
    /\ IF Alive(slot.owner) THEN Leaves(r)
       ELSE /\ rec' = [rec EXCEPT ![r].at = "steal",
                                  ![r].snapshot = {l[1] : l \in Attempts}]
            /\ UNCHANGED <<slot, pending, gate>>
    /\ UNCHANGED <<status, path, identity, cancelled, leases, blocked,
              runLock, proc, sched, env>>
RecoverSteal(r) ==
    /\ rec[r].at = "steal"
    /\ IF Alive(slot.owner) THEN Leaves(r)
       ELSE /\ slot' = [owner |-> r, task |-> None]
            /\ rec' = [rec EXCEPT ![r].at = "settle"]
            /\ UNCHANGED <<pending, gate>>
    /\ UNCHANGED <<status, path, identity, cancelled, leases, blocked,
              runLock, proc, sched, env>>
\* A runner does not terminate, or a workspace cannot be captured.
RecoverFails(r) ==
    /\ rec[r].at = "settle" /\ "fail" \in Operations /\ Leaves(r)
    /\ UNCHANGED <<status, path, identity, cancelled, leases, blocked,
              runLock, proc, sched, env>>
RecoverAttempt(r, t) ==
    /\ rec[r].at = "settle" /\ t \in rec[r].snapshot
    /\ leases' = leases \ {<<t, "attempt">>}
    /\ pending' = pending \ {t}
    /\ rec' = [rec EXCEPT ![r].snapshot = @ \ {t}]
    /\ UNCHANGED <<status, path, identity, cancelled, slot, blocked, gate,
              runLock, proc, sched, env>>
\* Mutant: an Attempt the snapshot does not have is passed over.
NothingUnexpected == TRUE
NoAttemptLease == Attempts = {}
\* The leases left are those of CI runs; an Attempt's is a fail-stop.
RecoverLeases(r) ==
    /\ rec[r].at = "settle" /\ rec[r].snapshot = {}
    /\ IF NoAttemptLease
       THEN /\ leases' = Attempts
            /\ pending' = pending \ {l[1] : l \in leases}
            /\ rec' = [rec EXCEPT ![r].at = "unlock"]
            /\ UNCHANGED <<slot, blocked, gate>>
       ELSE Leaves(r) /\ blocked' = TRUE /\ UNCHANGED leases
    /\ UNCHANGED <<status, path, identity, cancelled, runLock, proc, sched,
              env>>
RecoverUnlock(r) ==
    /\ rec[r].at = "unlock"
    /\ runLock' = "free" /\ rec' = [rec EXCEPT ![r].at = "final"]
    /\ UNCHANGED <<document, gate, proc, sched, env>>
\* Mutant: every cancellation is dropped.
DropsAll(r) == cancelled
Drops(r) == rec[r].controlled \cap cancelled
\* The last transaction, then the answer.
RecoverFinal(r) ==
    /\ rec[r].at = "final"
    /\ IF \A t \in rec[r].controlled : TaskQuiescent(t)
       THEN /\ cancelled' = cancelled \ Drops(r)
            /\ pending' = pending \ Drops(r)
            /\ rec' = [rec EXCEPT ![r].at = "done"]
            /\ UNCHANGED <<slot, gate>>
       ELSE Leaves(r) /\ UNCHANGED cancelled
    /\ UNCHANGED <<status, path, identity, leases, blocked, runLock, proc,
              sched, env>>
RecoverDone(r) ==
    /\ rec[r].at = "done" /\ Leaves(r)
    /\ UNCHANGED <<status, path, identity, cancelled, leases, blocked,
              runLock, proc, sched, env>>
RecoverCrash(r) ==
    /\ rec[r].at # "off"
    /\ crashes < MaxCrashes /\ crashes' = crashes + 1
    /\ rec' = [rec EXCEPT ![r] = NoRec]
    /\ slot' = IF slot.owner = r THEN [slot EXCEPT !.owner = "dead"] ELSE slot
    /\ gate' = Freed(r)
    /\ UNCHANGED <<status, path, identity, cancelled, pending, leases,
              blocked, runLock, proc, sched, at, moves>>

RecoverStep(r) ==
    \/ RecoverGate(r) \/ RecoverReads(r) \/ RecoverSteal(r)
    \/ \E t \in Tasks : RecoverAttempt(r, t)
    \/ RecoverLeases(r) \/ RecoverUnlock(r) \/ RecoverFinal(r)
    \/ RecoverDone(r)
Next ==
    \/ \E p \in Procs :
          \/ \E d \in Paths : CreateReads(p, d)
          \/ CreateTask(p) \/ RequestCancellation(p) \/ Settled(p)
          \/ GiveUp(p) \/ Finish(p)
          \/ \E t \in Tasks : \E op \in {"resume", "suspend", "close",
                "option", "stopOption"} : Begin(p, op, t)
    \/ ResolveBlocker \/ \E d \in Paths, repo \in Repos : Move(d, repo)
    \/ \E s \in Scheds :
          \/ SchedStart(s) \/ SchedStop(s) \/ Admit(s) \/ LockForPromotion(s)
          \/ EndActivity(s) \/ SchedCrash(s)
          \/ \E t \in Tasks : \E kind \in {"attempt", "ci", "promotion"} :
                Select(s, t, kind)
    \/ \E r \in Recoverers :
          RecoverStart(r) \/ RecoverStep(r) \/ RecoverFails(r)
             \/ RecoverCrash(r)
Spec == Init /\ [][Next]_vars
\* A recovery that is not killed goes on: each of its steps is a bounded call.
FairSpec == Spec /\ \A r \in Recoverers : WF_vars(RecoverStep(r))

-----------------------------------------------------------------------------
SlotRecord ==
    [owner : {"none", "dead"} \cup Scheds \cup Recoverers,
     task : Tasks \cup {None}]
ProcRecord ==
    [at : {"off", "create", "request", "wait", "finish"},
     op : {"none", "create", "resume", "suspend", "close", "option",
           "stopOption"},
     task : Tasks \cup {None}, path : Paths \cup {"none"},
     identity : Repos \cup {"none"}]
SchedRecord ==
    [at : {"off", "idle", "selected", "working"},
     kind : {"none", "attempt", "ci", "promotion"}, task : Tasks \cup {None}]
RecRecord ==
    [at : {"off", "gates", "steal", "settle", "unlock", "final", "done"},
     controlled : SUBSET Tasks, locked : SUBSET Tasks,
     snapshot : SUBSET Tasks]
BindingOK ==
    /\ status \in [Tasks -> {"NONE", "ACTIVE", "SUSPENDED", "CLOSED"}]
    /\ path \in [Tasks -> Paths \cup {"none"}]
    /\ identity \in [Tasks -> Repos \cup {"none"}]
ActivitiesOK ==
    /\ cancelled \subseteq Tasks /\ pending \subseteq Tasks
    /\ leases \subseteq Tasks \X {"attempt", "ci"}
    /\ slot \in SlotRecord /\ blocked \in BOOLEAN
LocksOK ==
    /\ gate \in [Tasks -> {"free"} \cup Procs \cup Scheds \cup Recoverers]
    /\ runLock \in {"free", "stale"} \cup Scheds
ProcessesOK ==
    /\ proc \in [Procs -> ProcRecord] /\ sched \in [Scheds -> SchedRecord]
    /\ rec \in [Recoverers -> RecRecord]
EnvOK ==
    /\ at \in [Paths -> Repos]
    /\ crashes \in 0..MaxCrashes /\ moves \in 0..MaxMoves
TypeOK == BindingOK /\ ActivitiesOK /\ LocksOK /\ ProcessesOK /\ EnvOK

\* No two ACTIVE Tasks are bound to one repository, although "task create"
\* and "task resume" look the path up before their transactions and users
\* move repositories (core.go, CreateTask and finishLifecycle).
OneActivePerRepository ==
    \A t \in Tasks : status[t] = "ACTIVE" => ~Bound(identity[t], t)

\* A command that waits for its Task to settle keeps its cancellation until
\* its own last transaction: no recovery drops it, neither in the window
\* before the flag is set nor for a Task created after the recovery listed
\* the Tasks (control.go, beginControl; recover.go, Recover).
CancellationHeld ==
    \A p \in Procs : proc[p].at \in {"wait", "finish"} /\ Cancels(proc[p].op)
                        => proc[p].task \in cancelled

\* When a recovery is about to report success nothing is active any more, of
\* whatever Task, and of the Tasks it locked none is cancelled: although
\* Tasks are created and schedulers die while it locks the gates, and the
\* Attempts it settles are those it read before it had the slot (recover.go).
RecoverySettles ==
    \A r \in Recoverers : rec[r].at = "done" =>
        leases = {} /\ cancelled \cap rec[r].controlled = {}

\* A recovery ends, whoever holds a gate and for however long (recover.go,
\* Recover: a busy gate is an error, never a wait).
RecoveryEnds ==
    \A r \in Recoverers : rec[r].at # "off" ~> rec[r].at = "off"

=============================================================================
