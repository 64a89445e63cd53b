--------------------------- MODULE ChangePipeline ---------------------------
(***************************************************************************)
(* The development pipeline of one Task: Changes go through mutation, CI,  *)
(* review and an explicitly authorised promotion of the Git ref, while     *)
(* scheduler processes, the operator's commands, recovery and users who    *)
(* move the ref interleave.                                                *)
(***************************************************************************)
EXTENDS ChangeControl, Scheduler, Recovery

(* Initial state: an ACTIVE Task whose exploration is done.                *)

Init ==
    /\ change = [c \in Changes |-> NoChange]
    /\ owner = [a \in Artifacts |-> None]
    /\ run = [r \in CIRuns |-> NoRun]
    /\ latestCI = [a \in Artifacts |-> None]
    /\ review = [a \in Artifacts |-> NoReview]
    /\ attempt = [k \in Attempts |-> NoAttempt]
    /\ interrupts = {} /\ requests = {}
    /\ journal = [j \in Journals |-> NoJournal]
    /\ slot = IdleSlot /\ pending = NoStep
    /\ taskStatus = "ACTIVE" /\ taskSHA = 1 /\ cancelled = FALSE
    /\ blockers = {}
    /\ ref = 1 /\ published = {1} /\ commits = 1
    /\ runLock = "free" /\ gate = "free"
    /\ pc = [s \in Scheds |-> "off"]
    /\ step = [s \in Scheds |-> NoStep]
    /\ act = [s \in Scheds |-> None]
    /\ sha = [s \in Scheds |-> None]
    /\ err = [s \in Scheds |-> "OK"]
    /\ ctx = [s \in Scheds |-> FALSE]
    /\ ctl = NoControl /\ rec = NoRecovery /\ crashes = 0

-----------------------------------------------------------------------------
Operator ==
    \/ \E c \in Changes : ReleaseOption(c) \/ ChangePromote(c)
    \/ "resume" \in Commands /\ \E c \in Changes : ChangeResume(c)
    \/ "retry" \in Commands /\
          \E c \in Changes, stage \in {"CI", "REVIEW", "MUTATION"} :
              ChangeRetry(c, stage)
    \/ "pause" \in Commands /\ \E c \in Changes : ChangePause(c, "PAUSED")
    \/ "abort" \in Commands /\ \E c \in Changes : ChangePause(c, "ABORTED")
    \/ "ci" \in Commands /\ \E a \in Artifacts, r \in CIRuns : QueueCI(a, r)
    \/ "interrupt" \in Commands /\ \E k \in Attempts : Interrupt(k)
    \/ "resolve" \in Commands /\ \E b \in Scopes : ResolveBlocker(b)
    \/ "suspend" \in Commands /\
          (requestCancellation("suspend") \/ ResumeTask)
    \/ "close" \in Commands /\ requestCancellation("close")
    \/ "giveUp" \in Commands /\ ControlGivesUp
    \/ CommandFails
    \/ "move" \in Commands /\ \E new \in Commits : ExternalMove(new)
    \/ "signal" \in Commands /\ \E s \in Scheds : Interrupted(s)
    \/ "recover" \in Commands /\ RecoverStart
\* What a waiting control command does by itself.
Control ==
    \/ ChangeSettled \/ CancellationSettles \/ finishLifecycle
    \/ LifecycleRefused \/ finishResume

Activity(s) ==
    \/ ResolveRef(s) \/ ResolveRefFails(s) \/ EndPromotion(s) \/ Refused(s)
    \/ \E k \in Attempts : PrepareAttempt(s, k)
    \/ Materialize(s) \/ StorageFails(s)
    \/ \E how \in Endings, result \in Verdicts,
          a \in Artifacts \cup {None} : Complete(s, how, result, a)
    \/ \E r \in CIRuns : PrepareCI(s, r)
    \/ OpenLogs(s) \/ MarkCIRunning(s)
    \/ \E outcome \in Outcomes, code \in CIErrors :
          FinishCI(s, outcome, code)
    \/ PromoteBusy(s) \/ PromoteStart(s) \/ EvidenceChanged(s)
    \/ Construct(s) \/ ConstructFails(s)
    \/ \E j \in Journals : PreparePromotion(s, j)
    \/ PreparePromotionFails(s)
    \/ CAS(s) \/ CASFails(s) \/ CASRejected(s) \/ CASConflict(s)
    \/ CASUnexplained(s) \/ ApplyPromotion(s)
    \/ FailedStep(s) \/ PauseOnSignal(s) \/ EndStep(s)
Schedule(s) ==
    SchedStop(s) \/ IdleFails(s) \/ NextRequest(s) \/ NextChange(s)

Recovery ==
    \/ RecoverRefused \/ RecoverSteal \/ RecoverTerminate
    \/ \E k \in Attempts, a \in Artifacts \cup {None} : RecoverAttempt(k, a)
    \/ RecoverLeases \/ \E j \in Journals : RecoverResolve(j)
    \/ RecoverJournal \/ RecoverUnlock \/ RecoverDone

Next ==
    \/ Operator \/ Control
    \/ \E s \in Scheds : \/ SchedStart(s) \/ Crash(s)
                          \/ Schedule(s) \/ Activity(s)
    \/ Recovery \/ RecoverFails \/ RecoverCrash

Spec == Init /\ [][Next]_vars

\* A live scheduler goes on with the activity it has (every subprocess runs
\* under a timeout) and a waiting command polls the document.
FairSpec ==
    Spec /\ WF_vars(Control) /\ \A s \in Scheds : WF_vars(Activity(s))

-----------------------------------------------------------------------------
DocumentOK ==
    /\ change \in [Changes -> ChangeRecord]
    /\ owner \in [Artifacts -> Changes \cup {None}]
    /\ run \in [CIRuns -> RunRecord]
    /\ latestCI \in [Artifacts -> CIRuns \cup {None}]
    /\ review \in [Artifacts -> ReviewRecord]
    /\ attempt \in [Attempts -> AttemptRecord]
    /\ interrupts \subseteq Attempts /\ requests \subseteq CIRuns
    /\ journal \in [Journals -> JournalRecord]
    /\ slot \in SlotRecord /\ pending \in StepRecord
    /\ taskStatus \in {"ACTIVE", "SUSPENDED", "CLOSED"}
    /\ taskSHA \in Commits /\ cancelled \in BOOLEAN
    /\ blockers \subseteq Scopes
OutsideOK ==
    /\ ref \in Commits /\ published \subseteq Commits /\ commits \in Commits
    /\ runLock \in Scheds \cup {"free", "stale"}
    /\ gate \in Scheds \cup {"free", "control", "recovery"}
SchedulersOK ==
    /\ pc \in [Scheds -> Labels] /\ step \in [Scheds -> StepRecord]
    /\ act \in [Scheds -> Nat] /\ sha \in [Scheds -> Commits \cup {None}]
    /\ err \in [Scheds -> Codes] /\ ctx \in [Scheds -> BOOLEAN]
OthersOK ==
    /\ ctl \in [op: {"none", "pause", "suspend", "close", "resume"},
                change: Changes \cup {None}, sha: Commits \cup {None},
                settled: BOOLEAN]
    /\ rec \in [at: {"off", "lock", "terminate", "attempts", "journals",
                     "reconcile", "final"},
                todo: SUBSET Journals, journal: Journals \cup {None},
                sha: Commits \cup {None}]
    /\ crashes \in 0..MaxCrashes
TypeOK == DocumentOK /\ OutsideOK /\ SchedulersOK /\ OthersOK

-----------------------------------------------------------------------------
(* Properties.                                                             *)

Recovering == rec.at \notin {"off", "lock"}

\* Whoever executes owns the slot for the activity it was given, and whoever
\* promotes, controls or recovers holds the Task gate: at most one activity
\* runs at any time, whatever schedulers, commands and recoveries overlap.
Exclusive ==
    /\ \A s \in Scheds :
          /\ pc[s] \in Executing => /\ slot = [owner |-> s, task |-> TRUE]
                                   /\ pending = step[s]
          /\ pc[s] \in Gated => gate = s
    /\ Recovering => slot.owner = "recovery" /\ gate = "recovery"
    /\ ctl # NoControl => gate = "control"

\* When git update-ref is about to run, the operator's authorisation still
\* stands, the journal that recovery would need is durable and names the
\* Change's own base and Artifact, and the reviewer approved that Artifact on
\* the CI run that ended last, which passed.
Authorised(s) ==
    LET c == step[s].change IN
    /\ change[c].stage = "PROMOTION" /\ ~Terminal(c) /\ ~cancelled
    /\ Approved(c, change[c], review[change[c].artifact])
    /\ act[s] \in Journals /\ journal[act[s]].state = "PREPARED"
    /\ journal[act[s]].artifact = change[c].artifact
    /\ journal[act[s]].old = change[c].base
PromotionAuthorised == \A s \in Scheds : pc[s] = "cas" => Authorised(s)

\* A Change is DONE exactly if one of its journals is APPLIED and the commit
\* that journal names has been the value of the ref.
DoneIsPublished ==
    \A c \in Changes : change[c].state = "DONE" <=>
        \E j \in Journals : /\ journal[j].state = "APPLIED"
                            /\ owner[journal[j].artifact] = c
                            /\ journal[j].new \in published

\* What Store.Validate demands of the evidence of a Change: a stage past
\* MUTATION has an Artifact, and CI run, review and Artifact belong together.
EvidenceBelongs ==
    /\ \A c \in Changes : LET ch == change[c] IN
        /\ ch.stage # "MUTATION" => ch.artifact # None
        /\ ch.artifact # None => owner[ch.artifact] = c
        /\ ch.ci # None => run[ch.ci].artifact = ch.artifact
        /\ ch.review # None => attempt[ch.review].target = ch.artifact
    /\ \A a \in Artifacts :
        /\ latestCI[a] # None => run[latestCI[a]].artifact = a
        /\ review[a].attempt # None => attempt[review[a].attempt].target = a

\* A Change left RUNNING by a process that is gone always shows: the slot is
\* BUSY, an Attempt is ACTIVE, run.lock exists or a recovery that failed left
\* its blocker, so no scheduler goes on as if nothing had happened.
LeftRunningShows ==
    \A c \in Changes : change[c].state = "RUNNING" =>
        \/ slot.owner # "none" \/ ActiveAttempts # {}
        \/ runLock # "free" \/ blockers # {}

\* Recovery found one of the Change's promotions NOT_APPLIED and queued it for
\* authorisation again, whatever had stopped it.
PutBack(c) ==
    /\ change[c].stage \in {"AWAIT_PROMOTION", "PROMOTION"}
    /\ \E j \in Journals : /\ journal[j].state = "NOT_APPLIED"
                            /\ owner[journal[j].artifact] = c
\* A second consecutive CI timeout stops a Change: as long as it is queued or
\* running, its last two CI runs since the operator last resumed or retried it
\* did not both time out, whichever Artifacts they tested.
TimeoutsBlock ==
    \A c \in Changes, r \in CIRuns : \A q \in 1..(r - 1) :
        /\ change[c].state \in {"QUEUED", "RUNNING"} /\ ~PutBack(c)
        /\ {q, r} \subseteq RunsOf(c) \ change[c].resetAt
        /\ run[q].status = "TIMEOUT" /\ run[r].status = "TIMEOUT"
        => \E p \in RunsOf(c) : p > q /\ p # r /\ ~ActiveRun(p)

\* The pipeline implements Publication: authorised are the Changes the
\* operator's promote put in PROMOTION and nothing has taken out since (STALE
\* does not: a STALE Change that is paused can be resumed in its stage); landed
\* are those with a journal whose commit has been the ref.
AuthorisedChanges ==
    {c \in Changes : change[c].stage = "PROMOTION" /\ ~Terminal(c)}
LandedChanges ==
    {owner[journal[j].artifact] :
        j \in {i \in Journals : journal[i].new \in published}}
Abstract == INSTANCE Publication WITH
    seen <- published,
    base <- [c \in Changes |-> change[c].base],
    authorised <- AuthorisedChanges,
    landed <- LandedChanges,
    done <- {c \in Changes : change[c].state = "DONE"}
\* Whatever schedulers, commands, users, crashes and recoveries do, the ref
\* moves and Changes end as Publication allows (promote, CAS, recover).
PublishesAsAuthorised == Abstract!Spec

\* DONE and ABORTED are final.
TerminalForever ==
    [][\A c \in Changes : Terminal(c) =>
          /\ change'[c].state = change[c].state
          /\ change'[c].stage = change[c].stage]_vars

\* Once a cancellation is durable no Attempt or CI run becomes active.
NoNewWork ==
    [][cancelled => ActiveAttempts' \subseteq ActiveAttempts
                    /\ ActiveRuns' \subseteq ActiveRuns]_vars

\* A SUSPENDED or CLOSED Task executes nothing; and what cancel saw, that the
\* Task executes nothing any more, still holds when the transaction comes that
\* suspends or closes it, whatever is selected or queued in between.
InactiveIsQuiet == taskStatus # "ACTIVE" \/ ctl.settled => TaskQuiescent
\* While an Attempt is left ACTIVE, no scheduler executes anything but it.
NothingBesideAttempt ==
    \A k \in ActiveAttempts, s \in Scheds : pc[s] \in Executing =>
        pc[s] \in {"context", "working", "starved"} /\ act[s] = k

\* The one RUNNING Change is the one whose activity has the slot, be its
\* process alive or not: whatever calls fail, one after the other, a Change
\* whose slot was given back is queued again.
RunningIsPending ==
    \A c \in Changes : change[c].state = "RUNNING" =>
        slot.owner \in Scheds \cup {"dead"} /\ slot.task /\ pending.change = c

\* A process that stops after a fail-stop error leaves something durable that
\* keeps the next one from going on: a GLOBAL blocker, or run.lock if not even
\* the blocker could be written.
FailStopIsDurable ==
    [][\A s \in Scheds :
          err[s] \in FailStopCodes /\ pc'[s] = "off" =>
              "GLOBAL" \in blockers' \/ runLock' = "stale"]_vars

\* A command that waits for an activity to settle is answered.  promote does
\* not wait for the gate this command holds, so neither waits for the other.
CommandAnswered == ctl.op # "none" ~> ctl.op = "none"

\* Every activity gives the slot back.
SlotReturned == \A s \in Scheds : slot.owner = s ~> slot.owner # s

-----------------------------------------------------------------------------
(* What the documents say and the code does not do: each of these is       *)
(* violated by the run that checks it.                                     *)

\* Recovery that finds the ref at the new commit of a PREPARED journal
\* confirms the Change as DONE (recover.go).
ReconciledToDone ==
    [][rec.at = "reconcile" /\ rec.sha = journal[rec.journal].new
         /\ rec'.at # "reconcile" /\ crashes' = crashes =>
             LET c == owner[journal[rec.journal].artifact]
             IN  change'[c].state = "DONE"]_vars

\* Reviewer and rework contexts contain the CI log files (materializeCI).
WorkerSeesLogs ==
    \A s \in Scheds : pc[s] # "starved"

=============================================================================
