------------------------------ MODULE Document ------------------------------
(***************************************************************************)
(* The state of one Task's development pipeline: the durable document that *)
(* SQLite transactions read and write as a whole, what lies outside it     *)
(* (the Git ref, the run.lock directory, the Task gate) and the processes. *)
(* The operators here are shared by ChangeControl, Scheduler, Recovery.    *)
(***************************************************************************)
EXTENDS Integers, FiniteSets

CONSTANTS
    Scheds,          \* scheduler processes
    MaxChanges,      \* bound: Changes ever released
    MaxArtifacts,    \* bound: Artifacts ever captured
    MaxAttempts,     \* bound: Attempts ever prepared
    MaxCIRuns,       \* bound: CI runs ever created
    MaxJournals,     \* bound: promotion journals ever written
    MaxCommits,      \* bound: commits ever created, constructed or external
    MaxCrashes,      \* bound: processes killed
    Faults,          \* error codes the environment may produce
    Commands         \* commands used, besides release and promote

ReservedNames == {"none", "dead", "recovery", "free", "control", "stale"}

ASSUME SchedsAssumption == Scheds \cap ReservedNames = {}
ASSUME BoundsAssumption ==
    /\ MaxChanges \in Nat /\ MaxArtifacts \in Nat /\ MaxAttempts \in Nat
    /\ MaxCIRuns \in Nat /\ MaxJournals \in Nat /\ MaxCrashes \in Nat
    /\ MaxCommits \in Nat \ {0}

Changes == 1..MaxChanges
Artifacts == 1..MaxArtifacts
Attempts == 1..MaxAttempts
CIRuns == 1..MaxCIRuns
Journals == 1..MaxJournals
Commits == 1..MaxCommits
None == 0            \* the empty identifier

VARIABLES
    \* --- the durable document, written by Store.Update transactions ---
    change,      \* Change records
    owner,       \* Artifact -> the Change it belongs to
    run,         \* CI runs
    latestCI,    \* Artifact -> the run that ended last
    review,      \* Artifact -> its current review
    attempt,     \* worker Attempts
    interrupts,  \* Attempts asked to stop
    requests,    \* queued operator CI requests, in order of their run ids
    journal,     \* promotion journals
    slot,        \* the global execution slot
    pending,     \* the selected activity of the Task
    taskStatus, taskSHA,
    cancelled,   \* the durable cancellation flag of the Task
    blockers,    \* unresolved blockers, by scope
    \* --- outside the document ---
    ref,         \* the authoritative Git ref
    published,   \* history: every value the ref has had
    commits,     \* number of commits created so far
    runLock,     \* the run.lock directory: "free", "stale" or its owner
    gate,        \* the Task control gate: "free" or its holder
    \* --- processes ---
    pc, step, act, sha, err, ctx,   \* schedulers
    ctl,                            \* the control command holding the gate
    rec,                            \* recovery
    crashes

evidence == <<owner, run, latestCI, review>>
work == <<attempt, interrupts, requests>>
activity == <<slot, pending>>
task == <<taskStatus, taskSHA, cancelled>>
document == <<change, evidence, work, journal, activity, task, blockers>>
git == <<ref, published, commits>>
locks == <<runLock, gate>>
schedVars == <<pc, step, act, sha, err, ctx>>
others == <<ctl, rec, crashes>>
processes == <<schedVars, others>>
outside == <<git, locks, processes>>
vars == <<document, outside>>

-----------------------------------------------------------------------------
(* Records of the document (internal/model).                               *)

Stages == {"MUTATION", "CI", "REVIEW", "AWAIT_PROMOTION", "PROMOTION"}
States == {"ABSENT", "QUEUED", "RUNNING", "PAUSED", "BLOCKED", "STALE",
           "DONE", "ABORTED"}
Operations == {"mutation", "ci", "review", "promotion"}

\* TimeoutResetAt divides the Change's CI runs in two; "resetAt" holds the
\* ones that had started by then.
ChangeRecord ==
    [stage: Stages, state: States, base: Commits \cup {None},
     artifact: Artifacts \cup {None}, ci: CIRuns \cup {None},
     review: Attempts \cup {None}, started: BOOLEAN,
     resetAt: SUBSET CIRuns]
NoChange ==
    [stage |-> "MUTATION", state |-> "ABSENT", base |-> None,
     artifact |-> None, ci |-> None, review |-> None, started |-> FALSE,
     resetAt |-> {}]

\* A CI run; one queued by the operator has no Change.  "logs" says whether
\* its log files exist.
Outcomes == {"PASS", "FAIL", "TIMEOUT", "TERMINATED"}
RunRecord ==
    [status: {"NONE", "QUEUED", "PREPARING", "RUNNING"} \cup Outcomes,
     artifact: Artifacts \cup {None}, change: Changes \cup {None},
     logs: BOOLEAN]
NoRun == [status |-> "NONE", artifact |-> None, change |-> None,
          logs |-> FALSE]

ReviewRecord ==
    [attempt: Attempts \cup {None}, ci: CIRuns \cup {None},
     verdict: {"none", "APPROVE", "REJECT"}]
NoReview == [attempt |-> None, ci |-> None, verdict |-> "none"]

AttemptRecord ==
    [status: {"NONE", "ACTIVE", "ENDED"}, op: Operations \cup {"none"},
     change: Changes \cup {None}, target: Artifacts \cup {None}]
NoAttempt == [status |-> "NONE", op |-> "none", change |-> None,
              target |-> None]

JournalRecord ==
    [state: {"NONE", "PREPARED", "APPLIED", "CONFLICT", "NOT_APPLIED"},
     artifact: Artifacts \cup {None},
     old: Commits \cup {None}, new: Commits \cup {None}]
NoJournal == [state |-> "NONE", artifact |-> None, old |-> None,
              new |-> None]

StepRecord ==
    [op: Operations \cup {"none"}, change: Changes \cup {None},
     target: Artifacts \cup {None}, request: CIRuns \cup {None}]
NoStep == [op |-> "none", change |-> None, target |-> None,
           request |-> None]

\* owner "none" is an IDLE slot; "dead" stands for a process that is gone.
SlotRecord == [owner: Scheds \cup {"none", "dead", "recovery"},
               task: BOOLEAN]
IdleSlot == [owner |-> "none", task |-> FALSE]

Labels == {"off", "idle", "resolve", "drifted", "prepare", "context",
           "working", "starved", "ciPrepare", "ciSetup", "ciRun", "promote",
           "evidence", "construct", "conflicted", "journal", "cas",
           "casCheck", "apply", "failed", "unwind", "release"}
Codes == {"OK", "BLOCKED", "WORKER_UNAVAILABLE", "RUNNER_UNAVAILABLE",
          "REPOSITORY_UNAVAILABLE", "STORAGE_FAILURE", "CORE_INCONSISTENT",
          "LIMIT_EXCEEDED", "PRECONDITION_FAILED", "INVALID_STATE",
          "INTERNAL_ERROR"}
Scopes == {"GLOBAL", "TASK", "RUNNER", "TEST_RUNNER", "mutation", "review"}

NoControl ==
    [op |-> "none", change |-> None, sha |-> None, settled |-> FALSE]
NoRecovery == [at |-> "off", todo |-> {}, journal |-> None, sha |-> None]

-----------------------------------------------------------------------------
(* Predicates and projections of the document.                             *)

Terminal(c) == change[c].state \in {"DONE", "ABORTED"}
Set(ch, stage, state) == [ch EXCEPT !.stage = stage, !.state = state]
FailStop == "GLOBAL" \in blockers

ActiveRun(r) == run[r].status \in {"PREPARING", "RUNNING"}
ActiveAttempts == {k \in Attempts : attempt[k].status = "ACTIVE"}
ActiveRuns == {r \in CIRuns : ActiveRun(r)}

TaskQuiescent ==
    ~slot.task /\ ActiveAttempts = {} /\ ActiveRuns = {}

changeActive(c) ==
    \/ \E k \in ActiveAttempts : attempt[k].change = c
    \/ \E r \in ActiveRuns : run[r].change = c
    \/ slot.owner # "none" /\ slot.task /\ pending.change = c

\* The activity a Change's stage calls for.
StageOperation(stage) ==
    CASE stage = "MUTATION"  -> "mutation"
      [] stage = "CI"        -> "ci"
      [] stage = "REVIEW"    -> "review"
      [] stage = "PROMOTION" -> "promotion"
      [] stage = "AWAIT_PROMOTION" -> "none"
ChangeStep(c) ==
    [op |-> StageOperation(change[c].stage), change |-> c,
     target |-> change[c].artifact, request |-> None]

\* The approval is for the run that ended last, and that run passed.
Approved(c, ch, rv) ==
    /\ ch.artifact # None /\ owner[ch.artifact] = c
    /\ ch.ci # None /\ latestCI[ch.artifact] = ch.ci
    /\ run[ch.ci].artifact = ch.artifact /\ run[ch.ci].status = "PASS"
    /\ rv.attempt # None /\ rv.attempt = ch.review
    /\ rv.ci = ch.ci /\ rv.verdict = "APPROVE"
NoOpenRun(a) ==
    \A r \in CIRuns : run[r].artifact = a =>
        ~ActiveRun(r) /\ run[r].status # "QUEUED"
\* Mutant: an approval survives a later CI run of the Artifact.
StaleApproval(c, ch, rv) ==
    /\ NoOpenRun(ch.artifact) /\ ch.ci # None /\ run[ch.ci].status = "PASS"
    /\ rv.attempt # None /\ rv.ci = ch.ci /\ rv.verdict = "APPROVE"
PromotionEvidence(c, ch, rv) ==
    NoOpenRun(ch.artifact) /\ Approved(c, ch, rv)
HasEvidence(c) ==
    /\ change[c].artifact # None
    /\ PromotionEvidence(c, change[c], review[change[c].artifact])

\* Blockers that keep an operation from running (State.Blocked).
Blocking(op) ==
    {"GLOBAL", "TASK"} \cup
    (CASE op = "ci" -> {"TEST_RUNNER"}
       [] op \in {"mutation", "review"} -> {"RUNNER", op}
       [] OTHER -> {})
\* The scope an error code blocks (Core.block).
Scope(code, op) ==
    CASE code = "WORKER_UNAVAILABLE" -> op
      [] code = "RUNNER_UNAVAILABLE" ->
            IF op = "ci" THEN "TEST_RUNNER" ELSE "RUNNER"
      [] code = "REPOSITORY_UNAVAILABLE" -> "TASK"
      [] OTHER -> "GLOBAL"

\* May step p run now?  Whether its account still has funds is decided by the
\* ledger; here a lack of funds is the fault INSUFFICIENT_RESOURCE.
runnable(p) ==
    /\ p.change # None => change[p.change].state \in {"QUEUED", "RUNNING"}
    /\ taskStatus = "ACTIVE" /\ ~cancelled
    /\ blockers \cap Blocking(p.op) = {}

\* The CI runs of a Change so far; those that ended since TimeoutResetAt; and
\* how many of the latest of those timed out in a row.
RunsOf(c) == {r \in CIRuns : run[r].change = c}
EndedRuns(c, runs) ==
    {r \in CIRuns \ change[c].resetAt :
        runs[r].change = c /\ runs[r].status \in Outcomes}
\* Mutant: the runs of one Artifact are counted, whatever it was made from.
ArtifactStreak(c, runs) ==
    LET ended == {r \in EndedRuns(c, runs) :
                    runs[r].artifact = change[c].artifact}
    IN  Cardinality({r \in ended : \A later \in ended :
            later >= r => runs[later].status = "TIMEOUT"})
TimeoutStreak(c, runs) ==
    LET ended == EndedRuns(c, runs)
    IN  Cardinality({r \in ended : \A later \in ended :
            later >= r => runs[later].status = "TIMEOUT"})

\* The least unused identifier of a table.
Fresh(id, unused) == id \in unused /\ \A other \in unused : id <= other
UnusedArtifacts == {a \in Artifacts : owner[a] = None}
UnusedRuns == {r \in CIRuns : run[r].status = "NONE"}
UnusedAttempts == {k \in Attempts : attempt[k].status = "NONE"}
UnusedJournals == {j \in Journals : journal[j].state = "NONE"}
Last(ids) == CHOOSE id \in ids : \A other \in ids : other <= id

-----------------------------------------------------------------------------
(* The slot.  release gives it back and requeues the Change that was       *)
(* running; finishActivity drops the activity first, so it requeues none.  *)

\* Mutant: the Change stays RUNNING.
NotRequeued(chs) == chs
Released(chs) ==
    IF slot.task /\ pending.change # None
    THEN IF chs[pending.change].state = "RUNNING"
         THEN [chs EXCEPT ![pending.change].state = "QUEUED"]
         ELSE chs
    ELSE chs
release(chs) ==
    /\ change' = Released(chs)
    /\ pending' = IF slot.task THEN NoStep ELSE pending
    /\ slot' = IdleSlot
\* Mutant: the slot is kept.
KeepSlot(chs, who) == change' = chs /\ UNCHANGED activity
Release(chs, who) ==
    IF slot.owner = who
    THEN release(chs)
    ELSE change' = chs /\ UNCHANGED activity
finishActivity(p) ==
    /\ requests' = requests \ {p.request}
    /\ pending' = NoStep
    /\ slot' = IdleSlot

\* A newly captured Artifact has neither CI run nor review.
\* Mutant: the CI run of the previous Artifact is kept.
CapturedKeepsCI(ch, a) == [ch EXCEPT !.artifact = a, !.review = None]
Captured(ch, a) ==
    [ch EXCEPT !.artifact = a, !.ci = None, !.review = None]

\* A transaction the store refuses: nothing is written but the GLOBAL blocker,
\* and in an outage not even that.
Outage == "OUTAGE" \in Faults
EmergencyBlocked(b) ==
    {b \cup {"GLOBAL"}} \cup (IF Outage THEN {b} ELSE {})
EmergencyBlock == blockers' \in EmergencyBlocked(blockers)

\* Mutant: the store does not compare terminal Changes.
Mutable(c, ch) == TRUE
\* Store.immutable: the stage and state of a terminal Change never change.
Immutable(c, ch) ==
    Terminal(c) => ch.stage = change[c].stage /\ ch.state = change[c].state

=============================================================================
