# SCP Harness in TLA+

SCP Harness runs bounded agent work on a Git repository. An operator creates a
Task with a wall-time budget, a one-time exploration proposes Options, and a
released Option becomes a Change that goes through mutation, CI, review and an
explicitly authorised promotion of the repository's ref. All durable state is
one SQLite document. One scheduler process (`scp run`) executes one activity at
a time; operator commands, a recovery command and users of the repository act
beside it. This directory models that system, checks it with TLC and proves
most of its safety with TLAPS. Paths below are relative to `src/`.

## Inventory

| Component | State | Operations | Correct if |
| --- | --- | --- | --- |
| Change pipeline (`internal/core/change.go`, `ci.go`, `promotion.go`, `runtime.go`) | Changes, Artifacts, CI runs, reviews, Attempts, journals | release, pause, abort, resume, retry, promote, `ci run`; Prepare, Complete, FinishCI, ApplyPromotion | evidence belongs together, only current evidence is promoted, DONE means published, terminal is final |
| Scheduler (`internal/scheduler/scheduler.go`) | slot, Pending, `run.lock`, the step in memory | Run, Step, attempt, runCI, promote, monitor | one activity at a time, the slot comes back, a failing step requeues its Change |
| Recovery (`internal/scheduler/recover.go`) | takes the gates and the slot | settle Attempts, leases and journals, remove `run.lock` | never beside a live owner, tells published from unpublished |
| Task lifecycle (`internal/core/core.go`, `control*.go`) | Task status, cancellation flag, interrupts, the Task gate | create, suspend, resume, close, interrupt | a cancelled Task starts nothing, an inactive one runs nothing, the command is answered |
| Ledger (`internal/ledger`) | tree of accounts, leases, totals | Move, Reserve, Settle, LCA, Allocate, Refresh | time is conserved, the root keeps its reserve, allocation draws on the nearest ancestor |
| Option tree and exploration (`core.go`, `discussion.go`, `runtime.go`) | Options, exploration marker | propose, split, refine, merge, allocate, release, close, Claims; generation, judge, synthesis | an Option closes once, no time is spent on a closed Option, exploration ends |
| Store (`internal/store`) | the document, blockers | Read, Update, Validate, EmergencyBlock | refuses what breaks an invariant and then stops everything |
| Git (`internal/gitrepo`) | the ref, where paths lead | resolve, Construct, CAS, Identity | the ref moves only as authorised, a repository has one ACTIVE Task |
| Runners and subprocesses (`internal/boundedexec`, `wsl`, `worker`, `artifact`) | contexts, a process, its log, a workspace | upload, run, terminate, capture, publish, observe | a verdict is the program's own, captures are whole and of the right Attempt, an activity ends |
| Configuration, read-only observation, CLI | files | parse, print | not modelled, see below |

Components interact through the document (every Store.Update is one
transaction on all of it), the global slot, the Task gate (a lock nobody waits
for), the `run.lock` directory and the ref. What is hard: a step reads the
document, calls Git or a sandbox for minutes and writes later, while commands
change the same Change; commands cancel, wait and commit in separate
transactions; processes die between any two of these; the compare-and-swap of
the ref and the transaction that records it cannot be atomic. `PROJECT.json`
lists the hazards at their lines, with the properties that cover them.

## Modules

    Document ── ChangeControl ─┐             ┌─ MCChangePipeline
        ├────── Scheduler ─────┼─ ChangePipeline ── PipelineTypes ─ PipelineSafety ─ PipelineChanges ─┐
        └────── Recovery ──────┘             └─ implements     ┌──────────────────────────────────────┘
                                                Publication    └─ PipelinePublication ─ PipelineEvidence
    Ledger ── Funding ── MCFunding           Tasks ── TasksProofs
                    └─── FundingProofs       Activity ── ActivityProofs

The modules in the right half of each line, `MC...` apart, hold proofs only.

**Document** declares the state of one Task's pipeline (durable document; ref,
lock and gate; processes) and the operators on it that the code shares:
`runnable`, `ChangeStep`, `PromotionEvidence`, `release`, `finishActivity`, the
store's `Immutable` and `EmergencyBlock`. **ChangeControl** has one action per
operator command; pause, abort, suspend and close are a first transaction, a
wait that holds the gate (`ctl`) and, for suspend and close, a final transaction
that comes after the wait has seen the Task quiescent (`ctl.settled`) and looks
again. **Scheduler** has one
action per transaction, Git call or lock operation of `Run`, `Step`, `attempt`,
`runCI` and `promote`; `pc[s]` is where process `s` is, `step`, `act`, `sha` and
`err` are its local variables, `ctx` its Ctrl+C. Failures are actions of their
own (`GitFails`, `StorageFails`, `Endings`), enabled by the constant `Faults`,
except those an operator causes, which need no fault. **Recovery** follows
`Recover` step by step, its own crash included. **ChangePipeline** composes the
three, with users who move the ref, and states the properties.

**Publication** is what the harness promises about the ref: it moves only for an
authorised Change, from its base and to a new commit, and a Change is done only
after a commit of its own has been the ref. `ChangePipeline!Abstract` instantiates
it: an authorisation is a Change in PROMOTION that is not DONE or ABORTED (STALE
does not withdraw it: pause and resume lead back to its stage), what landed is read off the journals and the published commits, and
the abstract specification is the property `PublishesAsAuthorised`.

**Ledger** has the functions of `internal/ledger` as operators on a ledger
record: `Addable` is the checked addition, `Wrap` Go's plain one, and `ok` the
error result that makes the enclosing transaction roll back. **Funding** is the
state machine of the transactions that call them: the operator shapes the
Option tree, the exploration and the Changes lease time and settle it, commands
cancel and close. Its `job` is the step in the scheduler's memory and `pending`
the durable copy of it, which a command can delete in between.

**Tasks** has several Tasks and what they share: repositories, one gate each, the
slot, `run.lock`. An activity is reduced to its lease; a command, a scheduler and
a recovery are each a process (`proc`, `sched`, `rec`) that dies anywhere. It
shows what one Task cannot: recovery lists the Tasks, takes their gates one
after the other and reads the Attempts before it owns the slot, while Tasks are
created and other processes start and die.

**Activity** opens up what is one action ("working", "ciRun") in Scheduler: the
three nested contexts of `attempt` and `runCI`, `boundedexec.Run` with its timer,
kill, `WaitDelay` and `capWriter`, the upload member by member, Terminate, and
the helper's capture, which takes two inventories and copies in between. The
outcome is decided where the code decides it (`Decide`, `verdict`): for an Attempt
after Terminate and before the capture (`scheduler.go:392-418`); `Record` then
overrides it only for an interrupt or a cancellation (`runtime.go:360`), and not
for a pause, Ctrl+C or a fail-stop first seen during the capture. `stopped` is a
history variable: a stop was seen while the outcome was undecided. A transaction
whose error is returned at once, without Terminate, is `TransactionFails`. A file
is a version number; `scan.moved` records that a directory changed, which its
identity shows.

What is abstracted:

- one Task, except in Tasks; identifiers are small numbers in order of creation; texts, hashes,
  timestamps, role cards and capabilities (assumed granted) are left out;
- ChangePipeline has no Options, exploration, discussions and funds: lack of
  funds is the fault `INSUFFICIENT_RESOURCE`, which may hit any step. Discussion
  requests would be queued like CI requests;
- Funding reduces a Change to none, queued, running and held, and mutation, CI
  and review to one kind of step, since all three lease and settle alike. Its
  recovery is one action: ChangePipeline has the steps. Groups of one Option,
  which `explorationStep` skips, are left out of a partition;
- a worker is what it may return: how an Attempt ends, the verdict or
  disposition, and whether an Artifact was captured;
- an outage of the store (`OUTAGE`) refuses any transaction of a scheduler, the
  emergency blocker and the deferred Release, Block and pause included, and the
  blocker with which a recovery reports; commands meet failing transactions one at
  a time;
- some transactions that follow one another at the end of a step are one action.
  `FailedStep` blocks and releases (`scheduler.go:189-193`); `EndStep` releases,
  blocks and removes the lock (`scheduler.go:61`, `107-111`, `150`). The scheduler
  owns the slot and the lock up to the second, a blocker only stops others from
  selecting, and each may be refused by an outage; what the merge leaves out is a
  kill between the two;
- a read whose failure only adds the GLOBAL blocker is left out where a failing
  write of the same place is present: a scheduler that starts and cannot read the
  document leaves its lock, and a monitor whose read fails cancels its activity
  (`MonitorFires`, under an outage);
- a close whose final transaction found a lease again would fail-stop; `LifecycleRefused`
  only refuses it, and `InactiveIsQuiet` shows that it never happens;
- Activity assumes that a write to a file changes the identity the helper
  compares (size, timestamps, inode), follows one reader of a workspace at a time
  and an observer until the process ends, and leaves out processes that
  leave their process group on Linux, failing log flushes, and the test runner's
  workspace, from which nothing is read back. After a failed Terminate the
  operator who resolves the blocker is assumed to have ended what survived.

## Runs

`CHECK_DEADLOCK FALSE` throughout: a scheduler that was stopped, a closed Task
and a used-up bound are states in which the system may rest.

| Run | Bounds | Shows |
| --- | --- | --- |
| development | 1 Change, 1 Artifact, 2 Attempts, 1 CI run, all commands, Ctrl+C; fair | `TypeOK`; `NoNewWork`: once cancellation is durable nothing becomes active; `InactiveIsQuiet`: an inactive Task runs nothing, nor does one between the wait of a suspend or close and its final transaction; `CommandAnswered`, `SlotReturned` |
| drift | 1 Change, 2 Artifacts, 3 Attempts, 2 CI runs, 3 commits; `ci run`, abort, retry, users move the ref | `PromotionAuthorised` at `update-ref`; `EvidenceBelongs`, what Validate would fail-stop on; `TimeoutsBlock`: the last two CI runs of a Change that goes on did not both time out, unless recovery put it back (`PutBack`, which takes `recover` and so never holds here); `TerminalForever`; `PublishesAsAuthorised` |
| faults | 2 Changes, 1 CI run, all faults, outages included; resume, resolve, `ci run` | `NothingBesideAttempt`; `RunningIsPending`; `FailStopIsDurable`: a scheduler that fail-stops leaves a blocker or its lock |
| crash | 2 interchangeable schedulers (symmetry), 2 kills, storage failures (recovery's own included), no outage; resume, abort, recover | `Exclusive`; `LeftRunningShows`: a Change that is RUNNING and that nobody executes shows in the slot, the lock or a blocker; `DoneIsPublished`; `PublishesAsAuthorised` |
| funding | 3 Options, budget 3, MaxInt 4, root reserve 1, every command, crash, give-up | `TypeOK`, `Conserved`, `RootRetained`, `ClosedOnce`, `LeaseOnLive`; `MergesDeepest`: `LCA` against its reference definition |
| explore | 4 Options, budget 3, 2 generations; fair | `AllocatesNearestFirst`: `Allocate` against its reference definition; `ExplorationEnds` |
| tasks | 2 Tasks, 2 repositories, 1 scheduler, 1 command, 1 recovery, 2 kills; fair | `OneActivePerRepository`, `CancellationHeld`, `RecoverySettles`, `RecoveryEnds` |
| activity | 2 files, 2 activities, mutations and CI, 1 kill, log cap 1 of 2 bytes written; fair | `TypeOK`; `ResultIsOwn`; `StopIsNoVerdict`: a stop seen before the outcome is decided is no verdict, nor is an interrupt or a cancellation up to the transaction that records an Attempt; `TruncationTold`, `SnapshotConsistent`, `CapturesOwn`, `ActivityEnds` |

The bounds are the least at which the interesting cases meet: a CI run of a
Change and one queued by the operator on the same Artifact; an Artifact and its
rework; a commit constructed, one pushed by a user and the base; a crash and a
crash of its recovery; a second scheduler that starts after a lock was removed;
a tree deep enough that allocation fills two deficits (4 Options) and a merge of
three participants with different ancestors; a budget so near `MaxInt` that an
extension or a refund overflows; a Task created after recovery listed the Tasks;
two files, so that one can change while the other is copied; an activity that
finds the tree of the one before; output that meets the cap exactly and one that
exceeds it. `Commands` switches commands off where the
question does not need them.

Fairness. In `FairSpec` of ChangePipeline a live scheduler continues with the
activity it has (every subprocess has a timeout, the lease or `ProcessMS`) and a
waiting command polls. Nothing makes an operator, a user, a crash or a new
scheduler act. In Funding the scheduler selects when it can, admits or gives up
what it selected and settles what it leased; the loop of `Run` polls every
100 ms, and a scheduler that exits after an error is assumed to be started again. In
Tasks only a recovery that is not killed is fair: each of its steps is a bounded
call, and it never waits for a gate. In Activity the host goes on and the timer
of a process fires; the process itself may run, write and refuse to exit for
ever, and neither the lease nor a stop request has to come.

### Where the code differs from its documents

Four runs violate the one property they check; `PROJECT.json` quotes the
document.

- `reconciled` (`ReconciledToDone`): an abort in the crash window makes recovery
  fail for good, although the ref is at the new commit.
- `logs` (`WorkerSeesLogs`): a queued CI request dropped by a suspend becomes the
  latest run of its Artifact; the next review or rework lacks its logs and
  fail-stops.
- `candidates` (`ExplorationEnds`): closing a candidate before it is judged
  leaves an exploration that never ends and Options that can never be released.
- `preserved` (`WorkPreserved`): a stop request, or the deadline, during the upload
  of a workspace makes the half-extracted workspace, possibly an empty one, the
  current Artifact of the Change, and resume continues from it
  (`scheduler.go:420`; recovery does the same).

The models contain these behaviours too, as the code has them, without a run of
their own:

- Ctrl+C during `update-ref` can leave a published commit with a PAUSED Change,
  a PREPARED journal and no lock, although
  `docs/spec/scp_harness_v0_execution_plan.md:1164` maps a successful CAS to
  PROMOTION/DONE (`scheduler.go:624`).
- A pause whose wait is given up just before `promote` reads the document stops
  the harness as CORE_INCONSISTENT; `docs/operations.md:236` reserves that for
  durability and invariant failures (`scheduler.go:591`).
- Recovery removes the lock of a scheduler that started meanwhile, while
  `execution_plan.md:1177` speaks of a lock confirmed dead (`recover.go:281`). The
  slot still keeps them apart: `crash` has `Exclusive` with that behaviour.
- A pause, Ctrl+C or a fail-stop first seen while the workspace of an Attempt is
  captured leaves it RETURNED or CRASHED; an interrupt makes it INTERRUPTED even
  then (`scheduler.go:420`, `runtime.go:360`).
- Pausing a Change during its CI setup is recorded as a failing runner
  (`scheduler.go:181`, `docs/operations.md:232`).
- A recovery whose terminate call fails gives the slot it took back while the
  Change of the dead scheduler is RUNNING (`recover.go:79`); the stale lock and
  the blocker it leaves still show it, see `LeftRunningShows`.
- A worker that exits with 0 and leaves descendants holding its output longer than
  `WaitDelay` counts as an unavailable runner, and a test command that does so
  ends `scp run` (`exec.go:89`).
- A storage failure between PrepareCI and FinishCI leaves the run active and
  unowned (`scheduler.go:522`); so does one at `scheduler.go:362` with an Attempt.
- Closing an Option between selection and admission of its step deletes the
  Pending step and leaves the Change RUNNING with nobody executing it, until the
  operator pauses or retries it (`core.go:362`).
- Synthesis closes the raw Options it merges (`runtime.go:479`), which
  `execution_plan.md:655` says never happens.
- A PREPARED journal of a failed promotion stays until recovery. If recovery then
  finds it NOT_APPLIED it queues the Change in AWAIT_PROMOTION, whatever has
  stopped the Change since, two timeouts in a row included: `PutBack` excepts that
  case from `TimeoutsBlock`.
- A step that was selected but not admitted stays Pending after recovery; the
  balance of a superseded Option is reachable only through its children; closing
  an Option whose parent is closed moves its balance to the closed parent; an
  Option superseded while a close waits leaves the cancellation flag set until
  recovery.

## Proofs

The theorems hold for every value of the constants that satisfies the
assumptions below, so for any number of Changes, schedulers, Options, Tasks,
files, crashes and faults. TLC finds each inductive invariant to hold
in all states of the configurations named with it.

Assumptions. `SchedsAssumption`, `TasksAssumption`: a process is not called
"none", "free" or another word the model uses for the absence of one, and
schedulers, commands and recoveries are different processes. `BoundsAssumption`
and `ActivityAssumption`: bounds are natural numbers. `LedgerAssumption`,
`FundingAssumption`: the root's reserve fits into an integer, a budget and a
lease limit are positive and fit too (configuration and CreateTask refuse
others). Nothing is assumed of `Faults` and `Commands` but where a theorem says so.

### The pipeline (development, drift, faults, crash)

- **PipelineTypes** `TypeCorrect`: `TypeOK` is not inductive, since that an
  action writes well-formed records depends on what `pc`, `step`, `act`, `rec`
  and `ctl` refer to (a scheduler in "ciRun" has a CI run in `act`, a recovery in
  "reconcile" a PREPARED journal whose Artifact has an owner). `Shape` states
  these links; `Typed == TypeOK /\ Shape` is inductive, with one step per action.
- **PipelineSafety** `ExclusiveInvariant`: the slot changes hands only when it is
  idle, by its owner, or by a recovery that found no live owner; the gate only
  when it is free. `AuthorisedInvariant` (`PromotionAuthorised`): `StepMatches`
  links a scheduler's step in memory to the Change it was derived from while it
  executes; with `Exclusive`, nobody else can alter the Change's evidence or its
  authorisation between the transaction that writes the journal and `update-ref`.
  `CancelSeen` is part of it: a suspend or close keeps the cancellation until its
  answer, and once its wait has ended the slot is not the Task's.
- **PipelineChanges** `StaysTerminal` (`TerminalForever`): every step is shown to
  be `Ordinary` for each Change, or a release, a promote command, or one of the
  two transactions that write DONE (`Finishes`). An ordinary step keeps terminal
  Changes. That one of the last two never hits an ABORTED Change is
  `AuthorisedInvariant` and `Unfinished` (nobody works on a Change that is DONE);
  `Named` says that whatever is referred to was released.
- **PipelineChanges** also says what a process that failed or was killed leaves
  behind. `LockIsHeld`: whoever is alive has `run.lock`, so at most one is.
  `StopIsDurable` (`FailStopIsDurable`) and `NothingBeside`
  (`NothingBesideAttempt`) follow from it with `Calm` (a scheduler at rest has no
  error) and `BesideAttempt` (beside an ACTIVE Attempt the one process that is
  alive has it at work or is on its way out after a fail-stop error).
  `RunningHasSlot` (`RunningIsPending`): every step is a `PendingStep`, which
  starts no Change and takes no slot from one that stays RUNNING, or the `Next`
  that starts one, or the theft of the slot by a recovery (`NextPending`, one
  lemma per action or group of them). These four theorems have the hypothesis that nobody
  recovers: recovery removes the lock of a scheduler that started meanwhile, so
  two may be alive, and TLC finds all three properties violated when `recover` is
  among the commands. `RunningShows` (`LeftRunningShows`) is what
  remains then: `Shown` lists what shows a Change that is RUNNING without the
  slot (a blocker, a recovery that has yet to come to it, the slot of a recovery
  that was killed, or an `Orphan`, an ACTIVE Attempt that no process has at
  work), and each of these stays until recovery pauses the Change. Its hypotheses
  are that the operator resolves no blocker and that no outage refuses one: the
  blocker of a recovery whose terminate call failed may be all that shows the
  Change. TLC finds the property violated when `recover` and `resolve` are among
  the commands, and when `recover` meets an outage.
- **PipelinePublication** `DoneInvariant` (`DoneIsPublished`) and `Refinement`
  (`PublishesAsAuthorised`). The argument is about commits: one that is
  constructed is new and stays in one journal (`Distinct`), what anyone remembers
  from the ref was once published (`Remembered`), only PREPARED journals
  are settled, each once (`Prepared`), and a Change is DONE exactly if a journal of
  its own is APPLIED, which names a published commit (`Settled`). The step that moves the ref then
  maps to `Land`, by `PromotionAuthorised`; the others map to the authorisation,
  the withdrawal or the completion of a Change, a push by a user, or a stutter
  (`StepMaps`, one case per action).
- **PipelineEvidence** `EvidenceIsWhole` (`EvidenceBelongs`): runs and Attempts
  never change what they are about; what is executed is about the current
  Artifact (`Current`); and whatever is named as evidence exists (`Used`).
  `Evident` says what one step may do to the evidence a
  Change names. `CancellationStopsWork` (`NoNewWork`) and `StaysQuiet`
  (`InactiveIsQuiet`): whatever becomes active does so in a transaction that found
  the Task ACTIVE and not cancelled (`WorkBegins`), and the Task becomes inactive
  only in transactions that see nothing active. That holds from what the wait
  saw to the final transaction (`SettledWrites`, `NextQuiet`), since the
  cancellation flag stays until then.
- **PipelineEvidence** `TimeoutsStop` (`TimeoutsBlock`). `resetAt` divides the runs
  of a Change into epochs. `FinishCIBlocks`: if the last two runs of an epoch timed
  out, `TimeoutStreak` is at least 2 and the Change is not queued. Then nothing may
  queue it again in that epoch: in every other step a Change either
  `Follows` its old record (it was queued or running before, and does not come back
  from the promotion stages), or begins an epoch, or is new, or was put back by
  recovery (`StepEpoch`, one lemma per group of actions). That takes an
  inductive `TimeoutsInv`. `OwnRuns` says that a run gets its Change when it is prepared and
  keeps it, so that no run of another Change or epoch joins the two; `Underway`
  that a Change whose Attempt is at work was at most paused or aborted meanwhile,
  so that `Complete` queues none that was blocked; `Resuming` that only a Task that
  is SUSPENDED is being resumed, so that no Change is resumed under an Attempt.
  `Prepared` (PipelinePublication) keeps a journal NOT_APPLIED. TLC finds
  `TimeoutsBlock` without `PutBack` violated when `recover` and a second CI run are
  possible, and `TimeoutsInv` to hold in all states of drift, crash, development and faults.

### The ledger and the exploration (funding, explore)

**FundingProofs**: `TypeCorrect`, `Conservation` (`Conserved`), `LeasesAreLive`
(`LeaseOnLive`), `MergesBelowDeepest` (`MergesDeepest`), `AllocatesNearest`
(`AllocatesNearestFirst`), `OptionsCloseOnce` (`ClosedOnce`) and `ReserveKept`
(`RootRetained`). The ledger's functions recurse over accounts and along the
tree. That every parent is older than its child (`Descends`) makes account
numbers a measure; a claim about all of them is then proved from its least
counterexample (`WFMin`), which needs no induction theorem that takes an
operator. On the way:

- `SumsChange`, `SumsBound`: the sum of the balances changes by what one balance
  changes, and no balance exceeds it. `Sound` (balances, lease, charged and retired
  time add up to what was minted, which is at most `MaxInt`) therefore bounds every
  balance, which is why Go's unchecked additions in `Move` and
  `Settle` never wrap: the checked one in the extension is enough.
- `Transfer`: `Move`, `MoveEach` and `Allocate` preserve `Sound` and the root's
  reserve, or set `ok` to FALSE and the transaction rolls back.
- `LCAReference`: `LCA` finds the deepest account above all participants, for any
  number of them; `AllocateNearest`: `Allocate` takes from the nearest ancestors
  what they have (`ParentPays`, `ParentLacks`).
- the state machine: what a step does to accounts and Options (`TreeStep`) is kept
  apart from what it does to the marker, the slot and the command (`ExecStep`).
  They meet in the lease, which only the step that has the slot draws and settles.

### Several Tasks (tasks)

**TasksProofs**: `TypeCorrect`, `UniqueBinding` (`OneActivePerRepository`),
`CancellationIsHeld` (`CancellationHeld`) and `RecoveryHasSettled`
(`RecoverySettles`). The invariant states what each process relies on: a command
holds its Task's gate, and the cancellation stays, from its first transaction to
its answer (`CommandOK`); a scheduler with a lease owns the slot (`SchedulerOK`);
a recovery holds the gates it counted, owns the slot once it took it, and leaves
no lease behind its settling (`RecoveryOK`). One lemma per process shows what
its steps guarantee to the others.

### Inside an activity (activity)

**ActivityProofs**: `TypeCorrect`, `OwnResult` (`ResultIsOwn`), `StopWins`
(`StopIsNoVerdict`), `TruncationIsTold` (`TruncationTold`), `ConsistentSnapshot`
(`SnapshotConsistent`) and `OwnTreeCaptured` (`CapturesOwn`). `Contexts`,
`Process` and `Results` say what an ended context, process or call implies about
the ones around it. `StopWins` rests on `Stops` (a stop that was seen is visible to
whoever decides) and `Decided` (the verdict made then is the program's own, and
none after a stop); it keeps to `Recorded` because only `Record` may still change
it, and only to a stop. `Log` counts what was written, kept and dropped. For captures,
`Clock` says that no version is used twice, and `Copying` that a file whose
version is what the first inventory saw has been copied as that version: if the
second inventory sees it too, the copy is of one moment. `HostScan` says whose
tree it is.

### Only model-checked

- Liveness (`CommandAnswered`, `SlotReturned`, `ExplorationEnds`, `RecoveryEnds`,
  `ActivityEnds`): the prover does not do fairness or ENABLED.

## Not modelled

Archive names, limits and digests, the Windows invocation of WSL, configuration
and the protocol's JSON, Git snapshots and attributes are I/O and parsing without
interleaving; observation commands other than `attempt diff` only read; the CLI
maps arguments to the operations above; scripts and test workers are not part of
the system. Comments, informational Claims, discussion requests and objective
revisions change no lifecycle and are left out.

## Plan

1. Done: the pipeline and its composition, the abstract Publication and the
   refinement, Ledger and Funding, Tasks, Activity.
2. Done: types, every safety invariant and action property of all four state
   machines, and the refinement, proved. Liveness stays with TLC.
