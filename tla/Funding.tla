------------------------------ MODULE Funding -------------------------------
(***************************************************************************)
(* How one Task spends its budget: the operator shapes the Option tree and *)
(* moves wall time along it, the initial exploration and the released      *)
(* Changes lease time and settle it, control commands cancel what runs and *)
(* close Options or the Task.  Each action is one Store.Update transaction *)
(* (core.go, runtime.go, discussion.go), so that a command's read, its     *)
(* cancellation and its final transaction interleave with the scheduler.   *)
(* The stages of a Change and the steps of recovery are in ChangePipeline; *)
(* here a Change waits to be selected, runs, or waits for the operator.    *)
(***************************************************************************)
EXTENDS Ledger

CONSTANTS
    Budget,       \* initial budget of the Task
    ExplorationN, \* option_generation Attempts of the initial exploration
    Amounts,      \* bound: amounts an operator names, times a step takes
    LeaseLimit,   \* min(profile timeout, card lease.wall_ms)
    Commands      \* the commands used

ASSUME FundingAssumption ==
    /\ Budget \in 1..MaxInt
    /\ ExplorationN \in Nat \ {0}
    /\ Amounts \subseteq 0..MaxInt
    /\ LeaseLimit \in 1..MaxInt

VARIABLES
    led,        \* accounts, lease and totals
    option,     \* status of every Option
    status,     \* status of the Task
    change,     \* the nonterminal Change of every Option
    x,          \* the exploration marker of the Task
    busy,       \* the execution slot is taken for this Task
    pending,    \* the durable projection of the selected activity
    job,        \* the same step in the memory of the scheduler
    cancelled,  \* the durable cancellation flag
    ctl         \* the command that holds the Task gate

vars == <<led, option, status, change, x, busy, pending, job, cancelled, ctl>>
tree == <<led, option, status>>
execution == <<x, busy, pending, job>>

\* "develop" is an activity of a Change: mutation, CI or review.
NoStep == [op |-> "none", option |-> Root, participants |-> {}]
StepRecord ==
    [op: {"none", "develop", "option_generation", "merge_judge",
          "merge_synth"},
     option: Accounts, participants: SUBSET Options]
Idle == [op |-> "none", target |-> Root, at |-> "idle"]
CommandRecord ==
    [op: {"none", "suspend", "closeTask", "FULFILLED", "SUPERSEDED",
          "ABANDONED"},
     target: Accounts, at: {"idle", "cancel", "wait", "finish"}]

TypeOK ==
    /\ led \in LedgerRecord /\ led.ok
    /\ \A a \in Accounts : led.remaining[a] \in 0..MaxInt
    /\ option \in [Options -> {"NONE", "OPEN", "FULFILLED", "SUPERSEDED",
                               "ABANDONED"}]
    /\ status \in {"ACTIVE", "SUSPENDED", "CLOSED"}
    /\ change \in [Options -> {"NONE", "QUEUED", "RUNNING", "HELD"}]
    /\ x.count \in 0..ExplorationN /\ x.batch \subseteq Options
    /\ x.groups \in SUBSET (SUBSET x.batch)
    /\ {x.judged, x.done, busy, cancelled} \subseteq BOOLEAN
    /\ pending \in StepRecord /\ job \in StepRecord
    /\ ctl \in CommandRecord

Init ==
    /\ led = NewLedger(Budget)
    /\ option = [o \in Options |-> "NONE"]
    /\ status = "ACTIVE"
    /\ change = [o \in Options |-> "NONE"]
    /\ x = [count |-> 0, batch |-> {}, judged |-> FALSE, groups |-> {},
            done |-> FALSE]
    /\ busy = FALSE /\ pending = NoStep /\ job = NoStep
    /\ cancelled = FALSE /\ ctl = Idle

-----------------------------------------------------------------------------
(* Helpers.                                                                *)

openOption(o) == option[o] = "OPEN" /\ status = "ACTIVE"
Leased == led.lease # NoLease
TaskQuiescent == ~busy /\ ~Leased
GateFree == ctl = Idle

Unused(opts) == {o \in Options : opts[o] = "NONE"}
\* Options are numbered in order of creation; the next n numbers.
Created(opts) ==
    CHOOSE n \in Accounts : \A o \in Options : opts[o] = "NONE" <=> o > n
NewIds(opts, n) ==
    [i \in 1..Min({n, MaxOptions - Created(opts)}) |-> Created(opts) + i]
createOptions(opts, new) ==
    [o \in Options |-> IF Contains(new, o) THEN "OPEN" ELSE opts[o]]
Adopt(L, new, p) ==
    [L EXCEPT !.parent = [o \in Options |-> IF Contains(new, o) THEN p
                                            ELSE L.parent[o]]]

LeasedFrom(L, o) == L.lease # NoLease /\ L.lease.anchor = o
\* Mutants: the state read when the command began is trusted; a lease drawn
\* on the Option meanwhile is overlooked.
CanCloseUnchecked(L, o) == status = "ACTIVE" /\ ~LeasedFrom(L, o)
CanCloseLeased(L, o) == option[o] = "OPEN" /\ status = "ACTIVE"
CanCloseOption(L, o) ==
    option[o] = "OPEN" /\ status = "ACTIVE" /\ ~LeasedFrom(L, o)
\* A closed Option gives its balance to its parent, whatever became of that.
closeOption(L, o) == Move(L, o, L.parent[o], L.remaining[o])

ForOption(p, o) == p.op # "none" /\ p.option = o

-----------------------------------------------------------------------------
(* Operator transactions that take no gate.                                *)

Extend(n) ==
    LET L == Extended(led, n) IN
    /\ "extend" \in Commands /\ status # "CLOSED" /\ L.ok
    /\ led' = L
    /\ UNCHANGED <<option, status, change, execution, cancelled, ctl>>

\* A new Option under the Task or under an open Option starts with nothing.
Propose(source) ==
    LET new == NewIds(option, 1) IN
    /\ "propose" \in Commands /\ status = "ACTIVE" /\ Len(new) = 1
    /\ source # Root => openOption(source)
    /\ led' = Adopt(led, new, source)
    /\ option' = createOptions(option, new)
    /\ UNCHANGED <<status, change, execution, cancelled, ctl>>

\* Children paid by their parent; a refinement closes the parent.
Split(o, walls, refine) ==
    LET new == NewIds(option, Len(walls))
        L == MoveEach(Adopt(led, new, o), [i \in DOMAIN walls |-> o], new,
                      walls)
        opts == createOptions(option, new)
    IN
    /\ (IF refine THEN "refine" ELSE "split") \in Commands
    /\ Len(walls) >= (IF refine THEN 1 ELSE 2) /\ Len(new) = Len(walls)
    /\ openOption(o)
    /\ L.ok
    /\ led' = L
    /\ option' = IF refine THEN [opts EXCEPT ![o] = "SUPERSEDED"] ELSE opts
    /\ UNCHANGED <<status, change, execution, cancelled, ctl>>

\* One Option replaces several: each names what it gives.
Merge(ids, walls) ==
    LET new == NewIds(option, 1)
        L == MoveEach(Adopt(led, new, LCA(led, ids)), ids,
                      [i \in DOMAIN ids |-> new[1]], walls)
    IN
    /\ "merge" \in Commands /\ Len(new) = 1
    /\ \A i \in DOMAIN ids : openOption(ids[i])
    /\ L.ok
    /\ led' = L
    /\ option' = [o \in Options |-> IF Contains(ids, o) THEN "SUPERSEDED"
                                    ELSE createOptions(option, new)[o]]
    /\ UNCHANGED <<status, change, execution, cancelled, ctl>>

AllocateOption(o, n) ==
    LET L == Allocate(led, o, n) IN
    /\ "allocate" \in Commands /\ n > 0 /\ openOption(o) /\ L.ok
    /\ led' = L
    /\ UNCHANGED <<option, status, change, execution, cancelled, ctl>>

\* Seeds a Change, once the exploration is over.
ReleaseOption(o) ==
    /\ openOption(o) /\ GateFree /\ ~cancelled /\ x.done
    /\ led.remaining[o] > 0 /\ change[o] = "NONE"
    /\ change' = [change EXCEPT ![o] = "QUEUED"]
    /\ UNCHANGED <<tree, execution, cancelled, ctl>>

\* change pause and change resume.
PauseChange(o) ==
    /\ "pause" \in Commands /\ GateFree /\ ~cancelled
    /\ change[o] \in {"QUEUED", "RUNNING"}
    /\ change' = [change EXCEPT ![o] = "HELD"]
    /\ UNCHANGED <<tree, execution, cancelled, ctl>>
ResumeChange(o) ==
    /\ "pause" \in Commands /\ GateFree /\ ~cancelled /\ status = "ACTIVE"
    /\ change[o] = "HELD"
    /\ ~ (busy /\ ForOption(pending, o)) /\ ~LeasedFrom(led, o)
    /\ change' = [change EXCEPT ![o] = "QUEUED"]
    /\ UNCHANGED <<tree, execution, cancelled, ctl>>

-----------------------------------------------------------------------------
(* The scheduler: select, lease, settle.                                   *)

Develop(o) == [op |-> "develop", option |-> o, participants |-> {}]
Explore(op, ids) == [op |-> op, option |-> Root, participants |-> ids]

\* What is left to do of the one-time exploration m.  Groups of one are
\* never synthesised, so that m.groups holds only the others.
explorationStep(m) ==
    IF m.count < ExplorationN THEN Explore("option_generation", {})
    ELSE IF Cardinality(m.batch) < 2 THEN NoStep
    ELSE IF ~m.judged THEN Explore("merge_judge", m.batch)
    ELSE IF m.groups = {} THEN NoStep
    ELSE Explore("merge_synth", CHOOSE g \in m.groups : TRUE)

\* The account that pays for a step.
Anchor(p) ==
    CASE p.op = "develop" -> p.option
      [] p.op = "option_generation" -> Root
      [] OTHER -> LCA(led, SetToSeq(p.participants))

runnable(p) ==
    /\ p.op = "develop" => /\ change[p.option] \in {"QUEUED", "RUNNING"}
                           /\ option[p.option] \in {"OPEN", "SUPERSEDED"}
    /\ status = "ACTIVE" /\ ~cancelled
    /\ led.remaining[Anchor(p)] > 0

Queued == {o \in Options : change[o] = "QUEUED"}
Exhausted == {o \in Queued : led.remaining[o] <= 0}
Ready == {o \in Queued : runnable(Develop(o))}
Hold(opts) ==
    [o \in Options |-> IF o \in opts THEN "HELD" ELSE change[o]]
ExplorationDue == status = "ACTIVE" /\ ~cancelled /\ ~x.done

Select(p) == busy' = TRUE /\ pending' = p /\ job' = p
SlotIdle == ~busy /\ job = NoStep

\* Next selects a queued Change; it holds those without time that it passes.
NextChange(o) ==
    /\ SlotIdle /\ o \in Ready
    /\ \E passed \in SUBSET Exhausted :
          change' = [Hold(passed) EXCEPT ![o] = "RUNNING"]
    /\ Select(Develop(o))
    /\ UNCHANGED <<tree, x, cancelled, ctl>>
ExplorationReady ==
    /\ ExplorationDue
    /\ explorationStep(x) # NoStep /\ runnable(explorationStep(x))
NextExploration ==
    /\ SlotIdle /\ Ready = {} /\ ExplorationReady
    /\ change' = Hold(Exhausted)
    /\ Select(explorationStep(x))
    /\ UNCHANGED <<tree, x, cancelled, ctl>>
\* Nothing is selected; an exploration with no step left is done.
NextNothing ==
    /\ SlotIdle /\ Ready = {} /\ ~ExplorationReady
    /\ change' = Hold(Exhausted)
    /\ x' = [x EXCEPT !.done =
                @ \/ (ExplorationDue /\ explorationStep(x) = NoStep)]
    /\ UNCHANGED <<tree, busy, pending, job, cancelled, ctl>>

Admitted(p) ==
    runnable(p) /\ \A o \in p.participants : option[o] = "OPEN"
\* PrepareAttempt and PrepareCI lease what the anchor has, up to the limit.
Prepare ==
    LET a == Anchor(job)
        L == Reserve(led, a, Min({led.remaining[a], LeaseLimit}))
    IN
    /\ job # NoStep /\ ~Leased /\ Admitted(job) /\ L.ok
    /\ led' = L
    /\ UNCHANGED <<option, status, change, execution, cancelled, ctl>>

\* release requeues the Change of the pending step and frees the slot;
\* finishActivity forgets the pending step first.
Requeued(chs) ==
    [o \in Options |->
        IF ForOption(pending, o) /\ chs[o] = "RUNNING" THEN "QUEUED" ELSE chs[o]]
Finish == busy' = FALSE /\ pending' = NoStep /\ job' = NoStep
\* A step that is not admitted any more is given up.
PrepareRefused ==
    /\ job # NoStep /\ ~Leased /\ ~Admitted(job)
    /\ change' = Requeued(change)
    /\ Finish
    /\ UNCHANGED <<tree, x, cancelled, ctl>>

\* The step of a cancelled Task or of a held Change only settles.
Stopped == cancelled \/ (job.op = "develop" /\ change[job.option] = "HELD")
CompleteStopped(elapsed) ==
    /\ job # NoStep /\ Leased /\ Stopped
    /\ led' = Settle(led, elapsed, FALSE)
    /\ change' = IF job.op = "develop" THEN Hold({job.option}) ELSE change
    /\ Finish
    /\ UNCHANGED <<option, status, x, cancelled, ctl>>
\* An infrastructure failure settles too, and the Change is queued again.
CompleteTerminated(elapsed) ==
    /\ "faults" \in Commands
    /\ job # NoStep /\ Leased /\ ~Stopped
    /\ led' = Settle(led, elapsed, FALSE)
    /\ change' = Requeued(change)
    /\ Finish
    /\ UNCHANGED <<option, status, x, cancelled, ctl>>

NoClaim == -1
\* A development step ends.  Its worker may claim that an Option or the Task
\* (Root) is fulfilled, which closes it unless a command holds the gate, and
\* may propose k Options below its own, if that is still open.
CompleteDevelop(elapsed, claim, k) ==
    LET o == job.option
        S == Settle(led, elapsed, FALSE)
        closes == claim \in Options /\ GateFree /\ CanCloseOption(S, claim)
        closesTask == claim = Root /\ GateFree
        C == IF closes THEN closeOption(S, claim)
             ELSE IF closesTask THEN Retired(S) ELSE S
        opts == [q \in Options |->
                    IF closes /\ q = claim THEN "FULFILLED" ELSE option[q]]
        new == IF opts[o] = "OPEN" /\ ~closesTask THEN NewIds(opts, k)
               ELSE <<>>
    IN
    /\ job.op = "develop" /\ Leased /\ ~Stopped
    /\ claim # NoClaim => "claim" \in Commands
    /\ C.ok
    /\ led' = Adopt(C, new, o)
    /\ option' = createOptions(opts, new)
    /\ IF closesTask
       THEN /\ status' = "CLOSED" /\ x' = [x EXCEPT !.done = TRUE]
            /\ change' = Hold({q \in Options : change[q] # "NONE"})
       ELSE /\ UNCHANGED <<status, x>>
            /\ \E next \in {"QUEUED", "HELD"} :
                  \* only a worker's completion looks at the Option, CI does not
                  /\ opts[o] \in {"OPEN", "SUPERSEDED"} \/ next = "HELD"
                     \/ (claim = NoClaim /\ k = 0)
                  /\ change' = [change EXCEPT ![o] = next]
    /\ Finish
    /\ UNCHANGED <<cancelled, ctl>>

\* Mutant: the index of the group to synthesise does not advance.
ExploredSameGroup(p, new, groups) ==
    LET m == CASE p.op = "option_generation" ->
                    [x EXCEPT !.count = @ + 1, !.batch = @ \cup ToSet(new)]
               [] p.op = "merge_judge" ->
                    [x EXCEPT !.judged = TRUE, !.groups = groups]
               [] OTHER -> x
    IN  [m EXCEPT !.done = explorationStep(m) = NoStep]
\* The exploration marker after a step; invalid output counts as a step.
Explored(p, new, groups) ==
    LET m == CASE p.op = "option_generation" ->
                    [x EXCEPT !.count = @ + 1, !.batch = @ \cup ToSet(new)]
               [] p.op = "merge_judge" ->
                    [x EXCEPT !.judged = TRUE, !.groups = groups]
               [] OTHER -> [x EXCEPT !.groups = @ \ {p.participants}]
    IN  [m EXCEPT !.done = explorationStep(m) = NoStep]
\* Disjoint groups of two or more of the batch: what is left of a partition.
Partitions(batch) ==
    {G \in SUBSET {g \in SUBSET batch : Cardinality(g) >= 2} :
        \A g, h \in G : g = h \/ g \cap h = {}}
\* Generation proposes k Options under the Task, the judge partitions them,
\* and synthesis replaces a group whose members are all still open.
CompleteExploration(elapsed, valid, k, groups) ==
    LET S == Settle(led, elapsed, FALSE)
        merges == /\ job.op = "merge_synth" /\ valid
                  /\ \A o \in job.participants : option[o] = "OPEN"
        new == IF job.op = "option_generation" /\ valid THEN NewIds(option, k)
               ELSE IF merges THEN NewIds(option, 1) ELSE <<>>
        p == IF merges THEN LCA(S, SetToSeq(job.participants)) ELSE Root
    IN
    /\ job.op \in {"option_generation", "merge_judge", "merge_synth"}
    /\ Leased /\ ~Stopped
    /\ merges => Len(new) = 1
    /\ groups # {} => job.op = "merge_judge" /\ valid
    /\ led' = Adopt(S, new, p)
    /\ option' = [o \in Options |->
                    IF merges /\ o \in job.participants THEN "SUPERSEDED"
                    ELSE createOptions(option, new)[o]]
    /\ x' = Explored(job, new, groups)
    /\ Finish
    /\ UNCHANGED <<status, change, cancelled, ctl>>

\* The scheduler dies: slot, pending step and lease stay.
Crash ==
    /\ "crash" \in Commands /\ job # NoStep
    /\ job' = NoStep
    /\ UNCHANGED <<tree, change, x, busy, pending, cancelled, ctl>>
\* Recovery charges the lease whole and holds the Change it interrupted.  A
\* step that was selected and not leased stays pending.
Recover ==
    /\ job = NoStep /\ GateFree /\ (busy \/ cancelled)
    /\ led' = IF Leased THEN Settle(led, 0, TRUE) ELSE led
    /\ x' = IF Leased /\ pending.op # "develop"
            THEN [Explored(pending, <<>>, {}) EXCEPT !.done = x.done] ELSE x
    /\ change' = Hold({o \in Options : change[o] = "RUNNING"})
    /\ busy' = FALSE
    /\ pending' = IF Leased \/ cancelled THEN NoStep ELSE pending
    /\ cancelled' = FALSE
    /\ UNCHANGED <<option, status, job, ctl>>

-----------------------------------------------------------------------------
(* Control commands: they hold the Task gate, cancel what runs, wait for it *)
(* to settle and only then commit.                                          *)

Begin(op, o, at) ==
    /\ GateFree /\ ~cancelled
    /\ ctl' = [op |-> op, target |-> o, at |-> at]
    /\ UNCHANGED <<tree, change, execution, cancelled>>
\* option close cancels only if the Option's own step is pending.
BeginClose(o, reason) ==
    /\ "close" \in Commands /\ openOption(o)
    /\ Begin(reason, o, IF ForOption(pending, o) THEN "cancel" ELSE "finish")
\* A qualifying "fulfilled" Claim on an Option always cancels.
BeginClaim(o) ==
    /\ "claim" \in Commands /\ openOption(o)
    /\ Begin("FULFILLED", o, "cancel")
BeginTask(op) ==
    /\ op \in Commands
    /\ status = "ACTIVE" \/ (op = "closeTask" /\ status = "SUSPENDED")
    /\ Begin(op, Root, "cancel")
ResumeTask ==
    /\ GateFree /\ ~cancelled /\ status = "SUSPENDED"
    /\ status' = "ACTIVE"
    /\ UNCHANGED <<led, option, change, execution, cancelled, ctl>>

requestCancellation ==
    /\ ctl.at = "cancel"
    /\ cancelled' = TRUE
    /\ change' = Hold({o \in Options : change[o] # "NONE"})
    /\ pending' = IF busy THEN pending ELSE NoStep
    /\ ctl' = [ctl EXCEPT !.at = "wait"]
    /\ UNCHANGED <<tree, x, busy, job>>
Settled ==
    /\ ctl.at = "wait" /\ TaskQuiescent
    /\ ctl' = [ctl EXCEPT !.at = "finish"]
    /\ UNCHANGED <<tree, change, execution, cancelled>>
\* The deadline passes, or the command is killed; its flag stays.
GiveUp ==
    /\ "giveUp" \in Commands /\ ~GateFree
    /\ ctl' = Idle
    /\ UNCHANGED <<tree, change, execution, cancelled>>

\* The final transaction reads the state again.
Closable(o) ==
    CanCloseOption(led, o) /\ (cancelled => TaskQuiescent)
FinishClose ==
    LET o == ctl.target IN
    /\ ctl.at = "finish" /\ o \in Options /\ Closable(o)
    /\ led' = closeOption(led, o)
    /\ option' = [option EXCEPT ![o] = ctl.op]
    /\ pending' = IF ForOption(pending, o) THEN NoStep ELSE pending
    /\ cancelled' = FALSE /\ ctl' = Idle
    /\ UNCHANGED <<status, change, x, busy, job>>
FinishSuspend ==
    /\ ctl.at = "finish" /\ ctl.op = "suspend"
    /\ status = "ACTIVE" /\ TaskQuiescent
    /\ status' = "SUSPENDED"
    /\ pending' = NoStep /\ cancelled' = FALSE /\ ctl' = Idle
    /\ UNCHANGED <<led, option, change, x, busy, job>>
\* Validate also refuses a Task that is inactive and not quiescent.
FinishCloseTask ==
    /\ ctl.at = "finish" /\ ctl.op = "closeTask"
    /\ status # "CLOSED" /\ TaskQuiescent
    /\ led' = Retired(led)
    /\ status' = "CLOSED"
    /\ change' = Hold({o \in Options : change[o] # "NONE"})
    /\ pending' = NoStep /\ cancelled' = FALSE
    /\ x' = [x EXCEPT !.done = TRUE]
    /\ ctl' = Idle
    /\ UNCHANGED <<option, busy, job>>
\* The Option was closed, or time was leased from it, in the meantime.
FinishRefused ==
    /\ ctl.at = "finish" /\ ctl.target \in Options /\ ~Closable(ctl.target)
    /\ ctl' = Idle
    /\ UNCHANGED <<tree, change, execution, cancelled>>

-----------------------------------------------------------------------------

Operator ==
    \/ \E n \in Amounts : Extend(n)
    \/ \E a \in Accounts : Propose(a)
    \/ \E o \in Options, n \in Amounts : Split(o, <<n>>, TRUE)
    \/ \E o \in Options, n, m \in Amounts : Split(o, <<n, m>>, FALSE)
    \/ \E o, q \in Options, n, m \in Amounts :
          o # q /\ Merge(<<o, q>>, <<n, m>>)
    \/ \E o \in Options, n \in Amounts : AllocateOption(o, n)
    \/ \E o \in Options :
          ReleaseOption(o) \/ PauseChange(o) \/ ResumeChange(o)
Selection ==
    (\E o \in Options : NextChange(o)) \/ NextExploration \/ NextNothing
Completion ==
    \E elapsed \in Amounts :
        \/ CompleteStopped(elapsed) \/ CompleteTerminated(elapsed)
        \/ \E claim \in Accounts \cup {NoClaim}, k \in 0..1 :
              CompleteDevelop(elapsed, claim, k)
        \/ \E valid \in BOOLEAN, k \in 0..2, groups \in Partitions(x.batch) :
              CompleteExploration(elapsed, valid, k, groups)
Control ==
    \/ \E o \in Options, reason \in {"FULFILLED", "SUPERSEDED", "ABANDONED"} :
          BeginClose(o, reason)
    \/ \E o \in Options : BeginClaim(o)
    \/ \E op \in {"suspend", "closeTask"} : BeginTask(op)
    \/ ResumeTask \/ requestCancellation \/ Settled \/ GiveUp
    \/ FinishClose \/ FinishSuspend \/ FinishCloseTask \/ FinishRefused

Next ==
    \/ Operator \/ Selection \/ Prepare \/ PrepareRefused \/ Completion
    \/ Crash \/ Recover \/ Control

Spec == Init /\ [][Next]_vars
\* The scheduler polls: it selects when it can, and what it selected is
\* leased or refused and then settled, since every lease is a timeout.
FairSpec ==
    /\ Spec
    /\ WF_vars(Selection)
    /\ WF_vars(Prepare \/ PrepareRefused)
    /\ WF_vars(Completion)

-----------------------------------------------------------------------------
(* Properties.                                                             *)

\* No sequence of transfers, leases, settlements, closings and recoveries
\* creates or loses time: the equation Refresh would fail-stop on.
Conserved == Balanced(led)

\* A transfer never takes the root below its reserve; leases may, and closing
\* the Task empties it (Move, and every path of Allocate that ends in it).
RootRetained ==
    [][ \/ led'.remaining[Root] >= led.remaining[Root]
        \/ led'.lease # led.lease
        \/ status' = "CLOSED"
        \/ led'.remaining[Root] >= MinRootAfterTransferMS ]_vars

\* However the tree was shaped, Allocate takes from the nearest ancestor
\* first and succeeds exactly if the ancestors together can pay.
AllocatesNearestFirst ==
    \A o \in Options, n \in 1..MaxInt :
        openOption(o) =>
            LET got == Allocate(led, o, n)
                want == NearestFirst(led, o, n)
            IN  got.ok = want.ok /\ (got.ok => got = want)

\* A merged Option hangs below the deepest account above all participants,
\* in whichever order they are named (LCA).
MergesDeepest ==
    \A o, q, r \in Options :
        o \notin {q, r} /\ {option[o], option[q], option[r]} = {"OPEN"} =>
            LCA(led, <<o, q, r>>) = DeepestCommon(led, <<o, q, r>>)

\* No step runs on the time of an Option that was fulfilled or abandoned,
\* though closing and selecting interleave (closeOption, runnable).
LeaseOnLive ==
    Leased => \/ led.lease.anchor = Root
              \/ option[led.lease.anchor] \in {"OPEN", "SUPERSEDED"}

\* An Option is closed once, for one reason, though operators, workers and
\* synthesis race to close it (openOption inside every transaction).
ClosedOnce ==
    [][\A o \in Options : option[o] \notin {"NONE", "OPEN"} =>
          option'[o] = option[o]]_vars

\* The one-time exploration ends, unless the Task runs out of time or is
\* stopped ("then the scheduler idles", docs/operations.md).
ExplorationEnds ==
    <>(x.done \/ led.remaining[Root] = 0 \/ status # "ACTIVE" \/ cancelled
         \/ Unused(option) = {})

=============================================================================
