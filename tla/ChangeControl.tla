--------------------------- MODULE ChangeControl ----------------------------
(***************************************************************************)
(* The operator's commands on a Task and its Changes.  The Task gate is a  *)
(* lock nobody waits for, so at most one command that needs it is under    *)
(* way; a second one fails at once and changes nothing.                    *)
(***************************************************************************)
EXTENDS Document

(* Control commands that need the gate for one transaction only.           *)

GateFree == gate = "free" /\ ~FailStop

\* ReleaseOption: a new Change on the Task's current base.  Its Option is one
\* without a nonterminal Change.
ReleaseOption(c) ==
    /\ GateFree /\ taskStatus = "ACTIVE" /\ ~cancelled
    /\ change[c].state = "ABSENT"
    /\ \A d \in 1..(c - 1) : change[d].state # "ABSENT"
    /\ change' = [change EXCEPT ![c] =
           [Set(@, "MUTATION", "QUEUED") EXCEPT !.base = taskSHA]]
    /\ UNCHANGED <<evidence, work, journal, activity, task, blockers,
              outside>>

\* The checks of ChangeAction that every action but pause and abort passes.
Actionable(c) ==
    /\ change[c].state # "ABSENT" /\ ~Terminal(c)
    /\ taskStatus = "ACTIVE" /\ ~cancelled /\ ~changeActive(c)
OnlyChange ==
    UNCHANGED <<evidence, work, journal, activity, task, blockers, outside>>

ChangePromote(c) ==
    /\ GateFree /\ Actionable(c)
    /\ change[c].stage = "AWAIT_PROMOTION" /\ change[c].state = "QUEUED"
    /\ HasEvidence(c)
    /\ change' = [change EXCEPT ![c] = Set(@, "PROMOTION", "QUEUED")]
    /\ OnlyChange

ChangeResume(c) ==
    /\ GateFree /\ Actionable(c)
    /\ change[c].state \in {"PAUSED", "BLOCKED"}
    /\ change' = [change EXCEPT ![c] =
           [Set(@, @.stage, "QUEUED") EXCEPT !.resetAt = RunsOf(c)]]
    /\ OnlyChange

\* retry-ci, retry-review and rework of the current Artifact.
ChangeRetry(c, stage) ==
    LET ci == IF stage = "REVIEW" THEN latestCI[change[c].artifact]
                                  ELSE change[c].ci IN
    /\ GateFree /\ Actionable(c)
    /\ change[c].state # "STALE" /\ change[c].artifact # None
    /\ stage = "REVIEW" => latestCI[change[c].artifact] # None
    /\ change' = [change EXCEPT ![c] =
           [Set(@, stage, "QUEUED") EXCEPT !.ci = ci, !.review = None,
                                           !.resetAt = RunsOf(c)]]
    /\ OnlyChange

-----------------------------------------------------------------------------
(* Commands that need no gate.                                             *)

QueueCI(a, r) ==
    /\ ~FailStop /\ owner[a] # None /\ taskStatus = "ACTIVE" /\ ~cancelled
    /\ Fresh(r, UnusedRuns)
    \* bound: a scheduler about to prepare a run still finds an identifier
    /\ UnusedRuns # {r} \/ \A s \in Scheds : pc[s] # "ciPrepare"
    /\ run' = [run EXCEPT ![r] = [status |-> "QUEUED", artifact |-> a,
                                  change |-> None, logs |-> FALSE]]
    /\ requests' = requests \cup {r}
    /\ UNCHANGED <<change, owner, latestCI, review, attempt, interrupts,
              journal, activity, task, blockers, outside>>

Interrupt(k) ==
    /\ attempt[k].status = "ACTIVE" /\ k \notin interrupts
    /\ interrupts' = interrupts \cup {k}
    /\ UNCHANGED <<change, evidence, attempt, requests, journal, activity,
              task, blockers, outside>>

ResolveBlocker(b) ==
    /\ b \in blockers
    /\ blockers' = blockers \ {b}
    /\ UNCHANGED <<change, evidence, work, journal, activity, task, outside>>

\* A transaction of any command meets a storage failure: Store.Update leaves
\* the GLOBAL blocker.
CommandFails ==
    /\ "STORAGE_FAILURE" \in Faults /\ ~FailStop
    /\ EmergencyBlock
    /\ UNCHANGED <<change, evidence, work, journal, activity, task, outside>>

\* Users push to the ref, or put it back on a value it has had.
ExternalMove(new) ==
    /\ new # ref
    \* bound: one commit is left for a promotion to construct
    /\ \/ new = commits + 1 /\ new < MaxCommits /\ commits' = new
       \/ new \in published /\ UNCHANGED commits
    /\ ref' = new /\ published' = published \cup {new}
    /\ UNCHANGED <<document, locks, processes>>

-----------------------------------------------------------------------------
(* Control commands that hold the gate while they wait.                    *)

\* pause and abort: the transaction, then the wait for the activity to settle.
ChangePause(c, state) ==
    /\ GateFree /\ ctl = NoControl
    /\ change[c].state # "ABSENT" /\ ~Terminal(c) /\ ~cancelled
    /\ change' = [change EXCEPT ![c] = Set(@, @.stage, state)]
    /\ interrupts' = interrupts \cup
           {k \in ActiveAttempts : attempt[k].change = c}
    /\ gate' = "control"
    /\ ctl' = [NoControl EXCEPT !.op = "pause", !.change = c]
    /\ UNCHANGED <<evidence, attempt, requests, journal, activity, task,
              blockers, git, runLock, schedVars, rec, crashes>>
ChangeSettled ==
    /\ ctl.op = "pause" /\ ~changeActive(ctl.change)
    /\ ctl' = NoControl /\ gate' = "free"
    /\ UNCHANGED <<document, git, runLock, schedVars, rec, crashes>>

\* suspend and close of the Task begin with requestCancellation.  Queued CI
\* requests end here, and the last becomes the latest run of its Artifact.
PausedAll ==
    [c \in Changes |->
        IF change[c].state = "ABSENT" \/ Terminal(c) THEN change[c]
        ELSE Set(change[c], change[c].stage, "PAUSED")]
requestCancellation(op) ==
    LET dropped == {r \in requests : run[r].status = "QUEUED"}
        Dropped(a) == {r \in dropped : run[r].artifact = a}
    IN
    /\ gate = "free" /\ ctl = NoControl /\ ~cancelled
    /\ taskStatus = "ACTIVE" \/ (op = "close" /\ taskStatus = "SUSPENDED")
    /\ gate' = "control" /\ cancelled' = TRUE
    /\ ctl' = [NoControl EXCEPT !.op = op]
    /\ change' = PausedAll
    /\ pending' = IF slot.task THEN pending ELSE NoStep
    /\ run' = [r \in CIRuns |-> IF r \in dropped
           THEN [run[r] EXCEPT !.status = "TERMINATED"] ELSE run[r]]
    /\ latestCI' = [a \in Artifacts |->
           IF Dropped(a) = {} THEN latestCI[a] ELSE Last(Dropped(a))]
    /\ requests' = {}
    /\ interrupts' = interrupts \cup ActiveAttempts
    /\ UNCHANGED <<owner, review, attempt, journal, slot, taskStatus, taskSHA,
              blockers, git, runLock, schedVars, rec, crashes>>

\* Mutant: cancel clears the flag itself.
CancellationClears ==
    /\ ctl.op \in {"suspend", "close"} /\ ~ctl.settled /\ TaskQuiescent
    /\ ctl' = [ctl EXCEPT !.settled = TRUE] /\ cancelled' = FALSE
    /\ UNCHANGED <<change, evidence, work, journal, activity, taskStatus,
              taskSHA, blockers, git, locks, schedVars, rec, crashes>>
\* cancel has seen the Task quiescent.  The flag stays until the final
\* transaction, lest new work starts in between.
CancellationSettles ==
    /\ ctl.op \in {"suspend", "close"} /\ ~ctl.settled /\ TaskQuiescent
    /\ ctl' = [ctl EXCEPT !.settled = TRUE]
    /\ UNCHANGED <<document, git, locks, schedVars, rec, crashes>>
\* The final transaction looks once more: suspend at everything, close only
\* at the leases, which an active Attempt or CI run has.
StillSettled ==
    IF ctl.op = "suspend" THEN TaskQuiescent
    ELSE ActiveAttempts = {} /\ ActiveRuns = {}
finishLifecycle ==
    /\ ctl.settled /\ StillSettled /\ ~FailStop
    /\ taskStatus' = IF ctl.op = "close" THEN "CLOSED" ELSE "SUSPENDED"
    /\ cancelled' = FALSE /\ pending' = NoStep
    /\ change' = IF ctl.op = "close" THEN PausedAll ELSE change
    /\ ctl' = NoControl /\ gate' = "free"
    /\ UNCHANGED <<evidence, work, journal, slot, taskSHA, blockers, git,
              runLock, schedVars, rec, crashes>>

\* A fail-stop refuses the final transaction; the cancellation flag stays.  So
\* does a Task that is at work again (and close would then fail-stop itself).
LifecycleRefused ==
    /\ \/ ctl.op = "resume" /\ FailStop
       \/ ctl.settled /\ (FailStop \/ ~StillSettled)
    /\ ctl' = NoControl /\ gate' = "free"
    /\ UNCHANGED <<document, git, runLock, schedVars, rec, crashes>>

\* The wait is interrupted or times out, or its process dies.
ControlGivesUp ==
    /\ ctl # NoControl
    /\ ctl' = NoControl /\ gate' = "free"
    /\ UNCHANGED <<document, git, runLock, schedVars, rec, crashes>>

\* Mutant: the value of the ref is not kept.
ResumeUnseen ==
    /\ gate = "free" /\ ctl = NoControl /\ ~cancelled
    /\ taskStatus = "SUSPENDED"
    /\ gate' = "control"
    /\ ctl' = [NoControl EXCEPT !.op = "resume"]
    /\ UNCHANGED <<document, git, runLock, schedVars, rec, crashes>>
\* resume of the Task reads the ref first and writes what it saw.
ResumeTask ==
    /\ gate = "free" /\ ctl = NoControl /\ ~cancelled
    /\ taskStatus = "SUSPENDED"
    /\ gate' = "control"
    /\ ctl' = [NoControl EXCEPT !.op = "resume", !.sha = ref]
    /\ UNCHANGED <<document, git, runLock, schedVars, rec, crashes>>
finishResume ==
    /\ ctl.op = "resume" /\ ~FailStop
    /\ taskStatus' = "ACTIVE" /\ taskSHA' = ctl.sha
    /\ change' = [c \in Changes |->
           IF /\ change[c].state # "ABSENT" /\ ~Terminal(c)
              /\ change[c].base # ctl.sha
           THEN Set(change[c], change[c].stage, "STALE") ELSE change[c]]
    /\ ctl' = NoControl /\ gate' = "free"
    /\ UNCHANGED <<evidence, work, journal, activity, cancelled, blockers,
              git, runLock, schedVars, rec, crashes>>

=============================================================================
