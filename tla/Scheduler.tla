----------------------------- MODULE Scheduler ------------------------------
(***************************************************************************)
(* "scp run": the loop that takes the slot, runs one activity of a Change  *)
(* and gives the slot back.  Each action is one SQLite transaction, one    *)
(* Git call or one lock operation; between two of them anyone may run.     *)
(***************************************************************************)
EXTENDS Document

\* What a scheduler does between Next and the end of the activity, and the
\* part of a promotion that runs under the Task gate.
Executing == {"resolve", "drifted", "prepare", "context", "working",
              "starved", "ciPrepare", "ciSetup", "ciRun", "promote",
              "evidence", "construct", "conflicted", "journal", "cas",
              "casCheck", "apply"}
Gated == {"evidence", "construct", "conflicted", "journal", "cas",
          "casCheck", "apply"}

\* A transaction or call of s returned an error.  Step's error path follows,
\* except for the calls Step makes itself before it starts the activity.
Fails(s, code) ==
    /\ pc' = [pc EXCEPT ![s] = IF @ \in {"resolve", "drifted"} THEN "unwind"
                               ELSE "failed"]
    /\ err' = [err EXCEPT ![s] = code]
\* The activity returned without an error.
Returns(s) == pc' = [pc EXCEPT ![s] = "unwind"]
           /\ err' = [err EXCEPT ![s] = "OK"]
Goto(s, label) == pc' = [pc EXCEPT ![s] = label]
UnlockGate(s) == gate' = IF gate = s THEN "free" ELSE gate

\* Mutant: an Attempt left ACTIVE is overlooked.
SlotNeedsRecovery == slot.owner # "none"
NeedsRecovery == ActiveAttempts # {} \/ slot.owner # "none"
\* Run takes run.lock and refuses a document that needs recovery; a refusal
\* leaves the lock behind.
SchedStart(s) ==
    /\ pc[s] = "off" /\ runLock = "free"
    /\ \/ /\ NeedsRecovery \/ FailStop \/ "STORAGE_FAILURE" \in Faults
          /\ runLock' = "stale" /\ UNCHANGED pc
       \/ /\ ~NeedsRecovery /\ ~FailStop
          /\ runLock' = s /\ Goto(s, "idle")
    /\ UNCHANGED <<document, git, gate, step, act, sha, err, ctx, others>>

Interrupted(s) ==                       \* Ctrl+C cancels the run context
    /\ pc[s] # "off" /\ ~ctx[s]
    /\ ctx' = [ctx EXCEPT ![s] = TRUE]
    /\ UNCHANGED <<document, git, locks, pc, step, act, sha, err, others>>

Stopped(s) ==
    /\ pc' = [pc EXCEPT ![s] = "off"]
    /\ step' = [step EXCEPT ![s] = NoStep]
    /\ act' = [act EXCEPT ![s] = None]
    /\ sha' = [sha EXCEPT ![s] = None]
    /\ err' = [err EXCEPT ![s] = "OK"]
    /\ ctx' = [ctx EXCEPT ![s] = FALSE]

\* The process leaves without Core.Release, or without removing its lock.
KeepsSlot(s) ==
    /\ slot' = IF slot.owner = s THEN [slot EXCEPT !.owner = "dead"] ELSE slot
    /\ UNCHANGED <<change, pending>>
KeepsLock(s) == runLock' = IF runLock = s THEN "stale" ELSE runLock
\* Run leaves after a fail-stop error: it removes its lock only if its own
\* blocker could be written.  Mutant: it always does.
LeavesUnlocked(s) == EmergencyBlock /\ runLock' = "free"
FailStopLock(s) ==
    \/ blockers' = blockers \cup {"GLOBAL"} /\ runLock' = "free"
    \/ Outage /\ EmergencyBlock /\ KeepsLock(s)

\* The top of Run's loop: Ctrl+C and a fail-stop end it cleanly.
SchedStop(s) ==
    /\ pc[s] = "idle" /\ Stopped(s)
    /\ \/ /\ ctx[s] /\ Release(change, s)
          /\ runLock' = "free" /\ UNCHANGED blockers
       \/ /\ ctx[s] /\ Outage /\ KeepsSlot(s)
          /\ KeepsLock(s) /\ EmergencyBlock
       \/ /\ ~ctx[s] /\ FailStop /\ KeepsSlot(s)
          /\ runLock' = "free" /\ UNCHANGED blockers
    /\ UNCHANGED <<evidence, work, journal, task, git, gate, others>>
\* The loop's read fails, or the transaction of Next does.
IdleFails(s) ==
    /\ pc[s] = "idle" /\ "STORAGE_FAILURE" \in Faults
    /\ Stopped(s) /\ KeepsSlot(s)
    /\ \/ KeepsLock(s) /\ EmergencyBlock
       \/ FailStopLock(s)
    /\ UNCHANGED <<evidence, work, journal, task, git, gate, others>>

\* bound: an activity is only selected while identifiers are left for it
Room(p) ==
    CASE p.op = "ci" -> p.request # None \/ UnusedRuns # {}
      [] p.op = "promotion" -> UnusedJournals # {} /\ commits < MaxCommits
      [] OTHER -> UnusedAttempts # {}
\* Next hands activity p to s.
Select(s, p) ==
    /\ Room(p) /\ pending' = p
    /\ slot' = [owner |-> s, task |-> TRUE]
    /\ step' = [step EXCEPT ![s] = p]
    /\ Goto(s, IF p.op = "ci" THEN "ciPrepare" ELSE "resolve")
NextEnabled(s) == pc[s] = "idle" /\ ~FailStop /\ slot.owner = "none"
RequestStep(r) == [op |-> "ci", change |-> None,
                   target |-> run[r].artifact, request |-> r]
Unfunded == "INSUFFICIENT_RESOURCE" \in Faults

\* Next: operator requests come first, in their order.
NextRequest(s) ==
    /\ NextEnabled(s)
    /\ \E r \in requests :
          /\ Unfunded \/ \A other \in requests : r <= other
          /\ runnable(RequestStep(r)) /\ Select(s, RequestStep(r))
    /\ UNCHANGED <<change, evidence, work, journal, task, blockers, git,
              locks, act, sha, err, ctx, others>>

\* Next: then the QUEUED Changes, started ones first, then by age.  Those it
\* passes over become STALE or BLOCKED for want of funds ("poor").
Before(c, d) ==
    IF change[c].started # change[d].started THEN change[c].started
    ELSE c < d
NextChange(s) ==
    LET queue == {c \in Changes : /\ change[c].state = "QUEUED"
                                  /\ change[c].stage # "AWAIT_PROMOTION"}
        Drifted(c) == change[c].base # taskSHA
    IN
    /\ NextEnabled(s)
    /\ \A r \in requests : Unfunded \/ ~runnable(RequestStep(r))
    /\ \E poor \in IF Unfunded THEN SUBSET queue ELSE {{}} :
       LET ready == {c \in queue \ poor :
                        ~Drifted(c) /\ runnable(ChangeStep(c))}
           First(c) == \A d \in ready \ {c} : Before(c, d)
           Passed(d) == \A c \in ready : Before(d, c)
       IN
       /\ change' = [d \in Changes |->
             IF d \in ready /\ First(d)
             THEN [change[d] EXCEPT !.state = "RUNNING", !.started = TRUE]
             ELSE IF d \in queue /\ Passed(d) /\ Drifted(d)
             THEN [change[d] EXCEPT !.state = "STALE"]
             ELSE IF d \in poor /\ Passed(d)
             THEN [change[d] EXCEPT !.state = "BLOCKED"]
             ELSE change[d]]
       /\ IF ready = {} THEN UNCHANGED <<activity, step, pc>>
          ELSE \E c \in ready : First(c) /\ Select(s, ChangeStep(c))
    /\ UNCHANGED <<evidence, work, journal, task, blockers, git, locks, act,
              sha, err, ctx, others>>

\* Step resolves the ref of a Change before anything but CI.
ResolveRef(s) ==
    /\ pc[s] = "resolve"
    /\ IF ref = change[step[s].change].base
       THEN /\ Goto(s, IF step[s].op = "promotion" THEN "promote"
                                                   ELSE "prepare")
            /\ UNCHANGED sha
       ELSE Goto(s, "drifted") /\ sha' = [sha EXCEPT ![s] = ref]
    /\ UNCHANGED <<document, git, locks, step, act, err, ctx, others>>
\* A Git call fails, or is killed because the run context was cancelled.
GitFails(s) == ctx[s] \/ "REPOSITORY_UNAVAILABLE" \in Faults
ResolveRefFails(s) ==
    /\ pc[s] = "resolve" /\ GitFails(s)
    /\ blockers' = blockers \cup {"TASK"} \/ (Outage /\ EmergencyBlock)
    /\ Fails(s, "REPOSITORY_UNAVAILABLE")
    /\ UNCHANGED <<change, evidence, work, journal, activity, task, git,
              locks, step, act, sha, ctx, others>>

\* A read of the document or a transaction of the activity fails.  Whatever
\* it was to settle stays as it is: an Attempt or a CI run stays active, a
\* journal stays PREPARED.
StorageFails(s) ==
    /\ pc[s] \in Executing \ {"cas"} /\ "STORAGE_FAILURE" \in Faults
    /\ Fails(s, "STORAGE_FAILURE") /\ EmergencyBlock /\ UnlockGate(s)
    /\ UNCHANGED <<change, evidence, work, journal, activity, task, git,
              runLock, step, act, sha, ctx, others>>

\* EndPromotion: the base moved.  The store refuses it on a terminal Change.
EndPromotion(s) ==
    LET c == step[s].change
        ch == Set(change[c], change[c].stage, "STALE")
    IN
    /\ pc[s] \in {"drifted", "conflicted"}
    /\ IF Immutable(c, ch)
       THEN /\ change' = [change EXCEPT ![c] = ch]
            /\ taskSHA' = IF sha[s] # None THEN sha[s] ELSE taskSHA
            /\ finishActivity(step[s])
            /\ Returns(s)
            /\ UNCHANGED blockers
       ELSE /\ EmergencyBlock
            /\ Fails(s, "CORE_INCONSISTENT")
            /\ UNCHANGED <<change, taskSHA, requests, activity>>
    /\ UnlockGate(s)
    /\ UNCHANGED <<evidence, attempt, interrupts, journal, taskStatus,
              cancelled, git, runLock, step, act, sha, ctx, others>>

-----------------------------------------------------------------------------
(* Mutation and review Attempts.                                           *)

\* Mutant: what was selected is not asked about again.
AdmissionSelected(s) ==
    LET p == step[s] IN
    IF FailStop THEN "BLOCKED"
    ELSE IF slot.owner # s THEN "BLOCKED"
    ELSE IF p.request # None /\ run[p.request].status # "QUEUED"
    THEN "INVALID_STATE"
    ELSE IF ActiveAttempts # {} \/ ActiveRuns # {} THEN "CORE_INCONSISTENT"
    ELSE "OK"
\* What the transactions that admit an activity check, in the code's order.
\* The last test is Store.Validate: two activities may never be active.
AdmissionError(s) ==
    LET p == step[s] IN
    IF FailStop THEN "BLOCKED"
    ELSE IF p.op # "ci" /\ (\/ ChangeStep(p.change).op # p.op
                            \/ ChangeStep(p.change).target # p.target)
    THEN "PRECONDITION_FAILED"
    ELSE IF slot.owner # s \/ ~runnable(p) THEN "BLOCKED"
    ELSE IF p.request # None /\ run[p.request].status # "QUEUED"
    THEN "INVALID_STATE"
    ELSE IF ActiveAttempts # {} \/ ActiveRuns # {} THEN "CORE_INCONSISTENT"
    ELSE "OK"

\* PrepareAttempt and PrepareCI refuse the activity.
Refused(s) ==
    /\ pc[s] \in {"prepare", "ciPrepare"} /\ AdmissionError(s) # "OK"
    /\ Fails(s, AdmissionError(s))
    /\ IF AdmissionError(s) = "CORE_INCONSISTENT" THEN EmergencyBlock
       ELSE UNCHANGED blockers
    /\ UNCHANGED <<change, evidence, work, journal, activity, task, git,
              locks, step, act, sha, ctx, others>>

PrepareAttempt(s, k) ==
    LET p == step[s] IN
    /\ pc[s] = "prepare" /\ AdmissionError(s) = "OK"
    /\ Fresh(k, UnusedAttempts)
    /\ attempt' = [attempt EXCEPT ![k] =
           [status |-> "ACTIVE", op |-> p.op, change |-> p.change,
            target |-> p.target]]
    /\ change' = IF p.op = "review"
                 THEN [change EXCEPT ![p.change].review = k] ELSE change
    /\ act' = [act EXCEPT ![s] = k]
    /\ Goto(s, "context")
    /\ UNCHANGED <<evidence, interrupts, requests, journal, activity, task,
              blockers, git, locks, step, sha, err, ctx, others>>

\* The monitor goroutine cancels the activity of s, also when it cannot read
\* the document.
MonitorFires(s) ==
    \/ ctx[s] \/ cancelled \/ FailStop \/ Outage
    \/ pc[s] \in {"context", "working"} /\ act[s] \in interrupts
    \/ /\ pending.change # None
       /\ change[pending.change].state \in {"PAUSED", "ABORTED"}

\* The evidence directory needs the log files of the Change's current run, or
\* of the Artifact's latest one.
EvidenceRun(p) ==
    IF change[p.change].ci # None THEN change[p.change].ci
    ELSE latestCI[p.target]
EvidenceReadable(p) ==
    p.target # None /\ EvidenceRun(p) # None => run[EvidenceRun(p)].logs

\* Materialize writes the worker's context; without the logs it fails.
Materialize(s) ==
    /\ pc[s] = "context"
    /\ Goto(s, IF EvidenceReadable(step[s]) THEN "working" ELSE "starved")
    /\ UNCHANGED <<document, git, locks, step, act, sha, err, ctx, others>>

\* How an Attempt can end: its status, and the reason of a TERMINATED one.
Endings == {"RETURNED", "INVALID", "TIMED_OUT", "INTERRUPTED",
            "WORKER_UNAVAILABLE", "RUNNER_UNAVAILABLE", "STORAGE_FAILURE",
            "LIMIT_EXCEEDED", "BLOCKED"}
Infrastructure == {"WORKER_UNAVAILABLE", "RUNNER_UNAVAILABLE",
                   "STORAGE_FAILURE", "BLOCKED"}
CanEnd(s, how) ==
    CASE how \in {"RETURNED", "INVALID"} -> pc[s] = "working"
      [] how = "TIMED_OUT" -> pc[s] # "starved"
      [] how = "INTERRUPTED" -> pc[s] # "starved" /\ MonitorFires(s)
      [] how = "BLOCKED" ->                 \* MarkRunning was refused
            pc[s] = "working" /\ FailStop
      [] how = "STORAGE_FAILURE" -> how \in Faults \/ pc[s] = "starved"
      [] OTHER -> how \in Faults
Verdicts == {"none", "PROMOTE_FINAL", "CONTINUE_FINAL", "DROP_FINAL",
             "APPROVE", "REJECT", "REJECT_WITH_FINDINGS"}
Results(op) == IF op = "mutation"
               THEN {"PROMOTE_FINAL", "CONTINUE_FINAL", "DROP_FINAL"}
               ELSE {"APPROVE", "REJECT", "REJECT_WITH_FINDINGS"}

\* Complete: records the captured Artifact a, if any, settles the Attempt and
\* moves the Change on.  A stop request overrides what the worker returned.
Complete(s, how, result, a) ==
    LET p == step[s]
        k == act[s]
        c == p.change
        stopped == how = "INTERRUPTED" \/ k \in interrupts \/ cancelled
        ch == IF a # None THEN Captured(change[c], a) ELSE change[c]
        paused == stopped \/ ch.state \in {"PAUSED", "ABORTED"}
        reviewed == /\ p.op = "review" /\ how = "RETURNED" /\ ~paused
        rv == [attempt |-> k, ci |-> ch.ci,
               verdict |-> IF result = "APPROVE" THEN "APPROVE"
                                                 ELSE "REJECT"]
        rch == [ch EXCEPT !.review = k]
        moved ==
            IF paused
            THEN IF ch.state = "ABORTED" THEN ch
                 ELSE Set(ch, ch.stage, "PAUSED")
            ELSE IF how \in Infrastructure THEN ch
            ELSE IF how # "RETURNED" THEN Set(ch, ch.stage, "BLOCKED")
            ELSE IF p.op = "mutation"
            THEN IF a = None \/ result = "DROP_FINAL"
                 THEN Set(ch, "MUTATION", "BLOCKED")
                 ELSE IF result = "PROMOTE_FINAL" THEN Set(ch, "CI", "QUEUED")
                 ELSE Set(ch, "MUTATION", "QUEUED")
            ELSE IF PromotionEvidence(c, rch, rv)
            THEN Set(rch, "AWAIT_PROMOTION", "QUEUED")
            ELSE IF result = "REJECT_WITH_FINDINGS"
            THEN Set(rch, "MUTATION", "QUEUED")
            ELSE Set(rch, "REVIEW", "BLOCKED")
    IN
    /\ pc[s] \in {"context", "working", "starved"} /\ CanEnd(s, how)
    /\ result \in IF how = "RETURNED" THEN Results(p.op) ELSE {"none"}
    /\ a # None => p.op = "mutation" /\ Fresh(a, UnusedArtifacts)
    /\ attempt' = [attempt EXCEPT ![k].status = "ENDED"]
    /\ interrupts' = interrupts \ {k}
    /\ owner' = IF a # None THEN [owner EXCEPT ![a] = c] ELSE owner
    /\ review' = IF reviewed THEN [review EXCEPT ![p.target] = rv]
                             ELSE review
    /\ IF ~paused /\ how \in Infrastructure
       THEN /\ release([change EXCEPT ![c] = moved])
            /\ blockers' = blockers \cup {Scope(how, p.op)}
            /\ UNCHANGED requests
       ELSE /\ change' = [change EXCEPT ![c] = moved]
            /\ finishActivity(p)
            /\ UNCHANGED blockers
    /\ IF how \in Infrastructure \cup {"LIMIT_EXCEEDED"} THEN Fails(s, how)
       ELSE Returns(s)
    /\ UNCHANGED <<run, latestCI, journal, task, git, locks, step, act, sha,
              ctx, others>>

-----------------------------------------------------------------------------
(* CI runs, of a Change or of an operator request.                         *)

PrepareCI(s, r) ==
    LET p == step[s] IN
    /\ pc[s] = "ciPrepare" /\ AdmissionError(s) = "OK"
    /\ IF p.request # None THEN r = p.request ELSE Fresh(r, UnusedRuns)
    /\ run' = [run EXCEPT ![r] =
           [status |-> "PREPARING", artifact |-> p.target,
            change |-> p.change, logs |-> FALSE]]
    /\ change' = IF p.change = None THEN change
                 ELSE [change EXCEPT ![p.change].ci = r,
                                     ![p.change].review = None]
    /\ act' = [act EXCEPT ![s] = r]
    /\ Goto(s, "ciSetup")
    /\ UNCHANGED <<owner, latestCI, review, work, journal, activity, task,
              blockers, git, locks, step, sha, err, ctx, others>>

\* The log files are created, the sandbox is set up and the run is marked
\* RUNNING.  Under a fail-stop that transaction is refused and runCI returns
\* at once, without FinishCI.
OpenLogs(s) ==
    /\ pc[s] = "ciSetup" /\ ~run[act[s]].logs
    /\ run' = [run EXCEPT ![act[s]].logs = TRUE]
    /\ UNCHANGED <<change, owner, latestCI, review, work, journal, activity,
              task, blockers, outside>>
MarkCIRunning(s) ==
    /\ pc[s] = "ciSetup" /\ run[act[s]].logs
    /\ IF FailStop
       THEN Fails(s, "BLOCKED") /\ UNCHANGED run
       ELSE /\ run' = [run EXCEPT ![act[s]].status = "RUNNING"]
            /\ Goto(s, "ciRun") /\ UNCHANGED err
    /\ UNCHANGED <<change, owner, latestCI, review, work, journal, activity,
              task, blockers, git, locks, step, act, sha, ctx, others>>

\* How a run can end, and the error runCI returns with it.  A monitor that
\* cancels the setup makes its commands fail with RUNNER_UNAVAILABLE; one that
\* cancels just before the launch makes it fail with an untyped error.  A
\* run whose logs cannot be created may find its runner unavailable too.
CIErrors == {"OK", "RUNNER_UNAVAILABLE", "STORAGE_FAILURE",
             "INTERNAL_ERROR", "LIMIT_EXCEEDED"}
CICanEnd(s, outcome, code) ==
    IF ~run[act[s]].logs
    THEN /\ outcome = "TERMINATED" /\ "STORAGE_FAILURE" \in Faults
         /\ code \in Faults \cap {"STORAGE_FAILURE", "RUNNER_UNAVAILABLE"}
    ELSE IF pc[s] = "ciSetup"
    THEN \/ outcome = "TIMEOUT" /\ code = "OK"
         \/ /\ outcome = "TERMINATED"
            /\ \/ code = "RUNNER_UNAVAILABLE" /\ MonitorFires(s)
               \/ code \in Faults \cap CIErrors
    ELSE \/ outcome \in {"PASS", "FAIL", "TIMEOUT"} /\ code = "OK"
         \/ /\ outcome = "TERMINATED" /\ MonitorFires(s)
            /\ code \in {"OK", "INTERNAL_ERROR"}
         \/ outcome = "TERMINATED" /\ code \in Faults \cap CIErrors

\* FinishCI: the second consecutive timeout blocks the Change, any other
\* outcome goes to review.
FinishCI(s, outcome, code) ==
    LET p == step[s]
        c == p.change
        r == act[s]
        ch == change[c]
    IN
    /\ pc[s] \in {"ciSetup", "ciRun"} /\ CICanEnd(s, outcome, code)
    /\ run' = [run EXCEPT ![r].status = outcome]
    /\ latestCI' = [latestCI EXCEPT ![p.target] = r]
    /\ change' =
          IF c = None THEN change
          ELSE [change EXCEPT ![c] =
             IF ch.state = "ABORTED" THEN ch
             ELSE IF ch.state = "PAUSED" \/ cancelled
                     \/ outcome = "TERMINATED"
             THEN Set(ch, ch.stage, "PAUSED")
             ELSE IF TimeoutStreak(c, run') >= 2
             THEN Set(ch, "CI", "BLOCKED")
             ELSE Set(ch, "REVIEW", "QUEUED")]
    /\ finishActivity(p)
    /\ IF code = "OK" THEN Returns(s) ELSE Fails(s, code)
    /\ UNCHANGED <<owner, review, attempt, interrupts, journal, task,
              blockers, git, locks, step, act, sha, ctx, others>>

-----------------------------------------------------------------------------
(* Promotion: gate, evidence, commit, journal PREPARED, CAS, APPLIED.      *)

\* promote takes the gate and reads the document.  Another holder makes it
\* fail at once.  Mutant: it waits.
PromoteWaits(s) == FALSE /\ UNCHANGED vars
PromoteBusy(s) ==
    /\ pc[s] = "promote" /\ gate # "free"
    /\ Fails(s, "BLOCKED")
    /\ UNCHANGED <<document, git, locks, step, act, sha, ctx, others>>
InPromotion(c) ==
    change[c].stage = "PROMOTION" /\ change[c].state = "RUNNING"
PromoteStart(s) ==
    LET c == step[s].change IN
    /\ pc[s] = "promote" /\ gate = "free"
    /\ IF ~InPromotion(c)
       THEN Fails(s, "CORE_INCONSISTENT") /\ UNCHANGED gate
       ELSE /\ gate' = s /\ UNCHANGED err
            /\ Goto(s, IF HasEvidence(c) THEN "construct" ELSE "evidence")
    /\ UNCHANGED <<document, git, runLock, step, act, sha, ctx, others>>

\* The evidence changed since promotion was authorised.
EvidenceChanged(s) ==
    /\ pc[s] = "evidence"
    /\ IF FailStop
       THEN Fails(s, "BLOCKED") /\ UNCHANGED change
       ELSE /\ change' = [change EXCEPT ![step[s].change] =
                             Set(@, "REVIEW", "BLOCKED")]
            /\ Returns(s)
    /\ UnlockGate(s)
    /\ UNCHANGED <<evidence, work, journal, activity, task, blockers, git,
              runLock, step, act, sha, ctx, others>>

\* Git.Construct compares the ref with the base and builds the commit.
Construct(s) ==
    /\ pc[s] = "construct"
    /\ IF ref # change[step[s].change].base
       THEN Goto(s, "conflicted") /\ UNCHANGED <<commits, sha>>
       ELSE /\ commits < MaxCommits /\ commits' = commits + 1
            /\ sha' = [sha EXCEPT ![s] = commits + 1]
            /\ Goto(s, "journal")
    /\ UNCHANGED <<document, ref, published, locks, step, act, err, ctx,
              others>>
ConstructFails(s) ==
    /\ pc[s] = "construct" /\ GitFails(s)
    /\ Fails(s, "REPOSITORY_UNAVAILABLE") /\ UnlockGate(s)
    /\ UNCHANGED <<document, git, runLock, step, act, sha, ctx, others>>

\* PreparePromotion checks authority and evidence again and writes PREPARED.
Promotable(c) == ~cancelled /\ InPromotion(c) /\ HasEvidence(c)
PreparePromotion(s, j) ==
    LET p == step[s] IN
    /\ pc[s] = "journal" /\ Fresh(j, UnusedJournals) /\ Promotable(p.change)
    /\ journal' = [journal EXCEPT ![j] =
           [state |-> "PREPARED", artifact |-> p.target,
            old |-> change[p.change].base, new |-> sha[s]]]
    /\ act' = [act EXCEPT ![s] = j]
    /\ sha' = [sha EXCEPT ![s] = None]
    /\ Goto(s, "cas")
    /\ UNCHANGED <<change, evidence, work, activity, task, blockers, git,
              locks, step, err, ctx, others>>
PreparePromotionFails(s) ==
    /\ pc[s] = "journal" /\ ~Promotable(step[s].change)
    /\ Fails(s, "PRECONDITION_FAILED") /\ UnlockGate(s)
    /\ UNCHANGED <<document, git, runLock, step, act, sha, ctx, others>>

\* Mutant: update-ref is given no old value to compare with.
CASUnconditional(s) ==
    /\ pc[s] = "cas" /\ ref' = journal[act[s]].new
    /\ published' = published \cup {ref'}
    /\ Goto(s, "apply")
    /\ UNCHANGED <<document, commits, locks, step, act, sha, err, ctx,
              others>>
\* git update-ref moves the ref iff it still has the old value.
CAS(s) ==
    /\ pc[s] = "cas" /\ ref = journal[act[s]].old
    /\ ref' = journal[act[s]].new /\ published' = published \cup {ref'}
    /\ Goto(s, "apply")
    /\ UNCHANGED <<document, commits, locks, step, act, sha, err, ctx,
              others>>
\* The subprocess is killed or times out: the error is the same whether
\* or not it had moved the ref by then.
CASFails(s) ==
    /\ pc[s] = "cas" /\ GitFails(s)
    /\ \/ UNCHANGED <<ref, published>>
       \/ /\ ref = journal[act[s]].old
          /\ ref' = journal[act[s]].new /\ published' = published \cup {ref'}
    /\ Fails(s, "REPOSITORY_UNAVAILABLE") /\ UnlockGate(s)
    /\ UNCHANGED <<document, commits, runLock, step, act, sha, ctx, others>>
\* update-ref refuses; CAS reads the ref again to tell why.  If it has moved,
\* the journal becomes CONFLICT and EndPromotion runs.
CASRejected(s) ==
    /\ pc[s] = "cas" /\ ref # journal[act[s]].old
    /\ Goto(s, "casCheck")
    /\ UNCHANGED <<document, git, locks, step, act, sha, err, ctx, others>>
CASConflict(s) ==
    /\ pc[s] = "casCheck" /\ ref # journal[act[s]].old
    /\ journal' = [journal EXCEPT ![act[s]].state = "CONFLICT"]
    /\ Goto(s, "conflicted")
    /\ UNCHANGED <<change, evidence, work, activity, task, blockers, git,
           locks, step, act, sha, err, ctx, others>>
CASUnexplained(s) ==
    /\ pc[s] = "casCheck" /\ (ref = journal[act[s]].old \/ GitFails(s))
    /\ Fails(s, "REPOSITORY_UNAVAILABLE") /\ UnlockGate(s)
    /\ UNCHANGED <<document, git, runLock, step, act, sha, ctx, others>>

ApplyPromotion(s) ==
    LET j == act[s]
        c == owner[journal[j].artifact]
        ch == Set(change[c], "PROMOTION", "DONE")
    IN
    /\ pc[s] = "apply"
    /\ IF journal[j].state = "PREPARED" /\ Immutable(c, ch)
       THEN /\ journal' = [journal EXCEPT ![j].state = "APPLIED"]
            /\ change' = [change EXCEPT ![c] = ch]
            /\ taskSHA' = journal[j].new
            /\ finishActivity(pending)
            /\ Returns(s) /\ UNCHANGED blockers
       ELSE /\ EmergencyBlock /\ Fails(s, "CORE_INCONSISTENT")
            /\ UNCHANGED <<journal, change, taskSHA, requests, activity>>
    /\ UnlockGate(s)
    /\ UNCHANGED <<evidence, attempt, interrupts, taskStatus, cancelled, git,
              runLock, step, act, sha, ctx, others>>

-----------------------------------------------------------------------------
(* The end of a step: Step's error path, its deferred calls, Run's loop.   *)

\* Core.Release, which an outage refuses.
TryRelease(s, b) ==
    \/ Release(change, s) /\ blockers' = b
    \/ /\ Outage /\ blockers' \in EmergencyBlocked(b)
       /\ UNCHANGED <<change, activity>>
Blockable == {"WORKER_UNAVAILABLE", "RUNNER_UNAVAILABLE",
              "REPOSITORY_UNAVAILABLE", "STORAGE_FAILURE",
              "CORE_INCONSISTENT"}
FailedStep(s) ==
    /\ pc[s] = "failed" /\ Goto(s, "unwind")
    /\ \/ /\ err[s] \in Blockable /\ UNCHANGED err
          /\ TryRelease(s, blockers \cup {Scope(err[s], step[s].op)})
       \/ /\ err[s] \in Blockable /\ Outage       \* Core.Block fails
          /\ err' = [err EXCEPT ![s] = "STORAGE_FAILURE"]
          /\ EmergencyBlock /\ UNCHANGED <<change, activity>>
       \/ /\ err[s] \notin Blockable /\ UNCHANGED err
          /\ TryRelease(s, blockers)
    /\ UNCHANGED <<evidence, work, journal, task, git, locks, step, act, sha,
              ctx, others>>

\* After Ctrl+C the Change of the step is left PAUSED.
AfterSignal(c) ==
    IF c = None THEN change
    ELSE IF Terminal(c) \/ change[c].state = "STALE" THEN change
    ELSE [change EXCEPT ![c] = Set(@, @.stage, "PAUSED")]
\* A deferred transaction fails: its error counts if there is no other.
Worsened(s) == IF err[s] = "OK" THEN "STORAGE_FAILURE" ELSE err[s]
PauseOnSignal(s) ==
    /\ pc[s] = "unwind" /\ ctx[s] /\ Goto(s, "release")
    /\ \/ /\ change' = AfterSignal(step[s].change)
          /\ UNCHANGED <<blockers, err>>
       \/ /\ Outage /\ EmergencyBlock /\ UNCHANGED change
          /\ err' = [err EXCEPT ![s] = Worsened(s)]
    /\ UNCHANGED <<evidence, work, journal, activity, task, git, locks, step,
              act, sha, ctx, others>>

\* Step gives the slot back, unless that fails too, and Run looks at the
\* error: it goes on after none, after a refusal or an unavailable service; it
\* blocks everything after a fail-stop error; after any other error it tries
\* to release once more and the process exits.
Tolerated == {"OK", "BLOCKED", "WORKER_UNAVAILABLE", "RUNNER_UNAVAILABLE",
              "REPOSITORY_UNAVAILABLE", "LIMIT_EXCEEDED"}
FailStopCodes == {"STORAGE_FAILURE", "CORE_INCONSISTENT"}
Unwound(s) == pc[s] = "release" \/ (pc[s] = "unwind" /\ ~ctx[s])
GoesOn(s) ==
    /\ pc' = [pc EXCEPT ![s] = "idle"]
    /\ step' = [step EXCEPT ![s] = NoStep]
    /\ act' = [act EXCEPT ![s] = None]
    /\ sha' = [sha EXCEPT ![s] = None]
    /\ err' = [err EXCEPT ![s] = "OK"]
    /\ UNCHANGED <<ctx, runLock>>
EndStep(s) ==
    /\ Unwound(s)
    /\ \/ /\ err[s] \in Tolerated /\ GoesOn(s)
          /\ Release(change, s) /\ UNCHANGED blockers
       \/ /\ Outage /\ Worsened(s) \in Tolerated /\ GoesOn(s)
          /\ UNCHANGED <<change, activity>> /\ EmergencyBlock
       \/ /\ err[s] \in FailStopCodes /\ Stopped(s)
          /\ Release(change, s) /\ FailStopLock(s)
       \/ /\ Outage /\ Worsened(s) \in FailStopCodes /\ Stopped(s)
          /\ KeepsSlot(s) /\ FailStopLock(s)
       \/ /\ err[s] \notin Tolerated \cup FailStopCodes /\ Stopped(s)
          /\ Release(change, s) /\ runLock' = "free" /\ UNCHANGED blockers
       \/ /\ err[s] \notin Tolerated \cup FailStopCodes /\ Stopped(s)
          /\ Outage /\ (Release(change, s) \/ KeepsSlot(s))
          /\ runLock' = "free" /\ EmergencyBlock
    /\ UNCHANGED <<evidence, work, journal, task, git, gate, others>>

\* The process is killed: the operating system frees its gate, the durable
\* document and run.lock stay as they are.
Crash(s) ==
    /\ pc[s] # "off" /\ crashes < MaxCrashes /\ crashes' = crashes + 1
    /\ Stopped(s) /\ UnlockGate(s) /\ KeepsSlot(s) /\ KeepsLock(s)
    /\ UNCHANGED <<evidence, work, journal, task, blockers, git, ctl, rec>>

=============================================================================
