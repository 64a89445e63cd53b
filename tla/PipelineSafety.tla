--------------------------- MODULE PipelineSafety ---------------------------
(***************************************************************************)
(* The two safety invariants of ChangePipeline that the others rest on,    *)
(* for every value of its constants: at most one activity runs at a time,  *)
(* and the ref only moves under an authorisation that still stands.        *)
(***************************************************************************)
EXTENDS PipelineTypes

\* No process is called like one of the marks in slot, gate and run.lock.
LEMMA SchedNames ==
    ASSUME NEW s \in Scheds
    PROVE  s \notin {"none", "dead", "recovery", "free", "control"}
  BY SchedsAssumption DEF ReservedNames

\* A command that suspends or closes the Task has cancelled it, and once
\* cancel returned the slot is not the Task's any more.
CancelSeen ==
    /\ ctl.op \in {"suspend", "close"} => cancelled
    /\ ctl.settled => ctl.op \in {"suspend", "close"} /\ ~slot.task

-----------------------------------------------------------------------------
(* Who writes what.                                                        *)

\* No command touches what the schedulers hold, journals or Attempts.
LEMMA OperatorFrame ==
    ASSUME Operator
    PROVE  /\ UNCHANGED <<owner, review, attempt, journal, slot, taskStatus,
                          taskSHA, pc, step, act, sha, crashes>>
           /\ \/ UNCHANGED <<run, latestCI>>
              \/ \E a \in Artifacts, r \in CIRuns : QueueCI(a, r)
              \/ \E op \in {"suspend", "close"} : requestCancellation(op)
           /\ \/ UNCHANGED git
              \/ \E new \in Commits : ExternalMove(new)
           /\ UNCHANGED rec \/ RecoverStart
  <1> USE DEF outside, processes, schedVars, others, document, evidence, work,
              activity, task, OnlyChange, git
  <1>1. CASE \E c \in Changes :
                \/ ReleaseOption(c) \/ ChangePromote(c) \/ ChangeResume(c)
                \/ \E stage \in {"CI", "REVIEW", "MUTATION"} :
                      ChangeRetry(c, stage)
    BY <1>1, Zenon DEF ReleaseOption, ChangePromote, ChangeResume, ChangeRetry
  <1>2. CASE \/ \E a \in Artifacts, r \in CIRuns : QueueCI(a, r)
             \/ \E k \in Attempts : Interrupt(k)
             \/ \E b \in Scopes : ResolveBlocker(b)
             \/ CommandFails
    BY <1>2 DEF QueueCI, Interrupt, ResolveBlocker, CommandFails
  <1>3. CASE \/ \E new \in Commits : ExternalMove(new)
             \/ \E s \in Scheds : Interrupted(s)
             \/ RecoverStart
    BY <1>3 DEF ExternalMove, Interrupted, RecoverStart
  <1>4. CASE \/ \E c \in Changes, state \in {"PAUSED", "ABORTED"} :
                   ChangePause(c, state)
             \/ ResumeTask \/ ControlGivesUp
    BY <1>4 DEF ChangePause, ResumeTask, ControlGivesUp
  <1>5. ASSUME NEW op \in {"suspend", "close"}, requestCancellation(op)
        PROVE  UNCHANGED <<owner, review, attempt, journal, slot, taskStatus,
                           taskSHA, pc, step, act, sha, crashes, git, rec>>
    BY <1>5 DEF requestCancellation
  <1> QED BY <1>1, <1>2, <1>3, <1>4, <1>5 DEF Operator

\* Nor does what such a command does by itself.
LEMMA ControlFrame ==
    ASSUME Control
    PROVE  /\ UNCHANGED <<evidence, work, journal, slot, blockers, git,
                          runLock, schedVars, rec, crashes>>
           /\ UNCHANGED taskSHA \/ finishResume
  BY DEF Control, ChangeSettled, CancellationSettles, finishLifecycle,
     LifecycleRefused, finishResume, document, activity, task, locks

\* A command that has waited stays the command it is.
LEMMA WaitFrame ==
    ASSUME Typed, CancellationSettles
    PROVE  ctl'.op = ctl.op /\ ctl'.op \in {"suspend", "close"}
  BY DEF CancellationSettles, Typed, TypeOK, OthersOK

\* A scheduler at rest writes slot, Changes, blockers and its lock.
LEMMA ScheduleFrame ==
    ASSUME NEW s \in Scheds, SchedStart(s) \/ Crash(s) \/ Schedule(s)
    PROVE  UNCHANGED <<evidence, work, journal, task, git, ctl, rec>>
  <1> USE DEF document, others
  <1>1. CASE SchedStart(s) \/ Crash(s)
    BY <1>1 DEF SchedStart, Crash
  <1>2. CASE SchedStop(s) \/ IdleFails(s)
    BY <1>2 DEF SchedStop, IdleFails
  <1>3. CASE NextRequest(s)
    BY <1>3 DEF NextRequest
  <1>4. CASE NextChange(s)
    BY <1>4, Zenon DEF NextChange
  <1> QED BY <1>1, <1>2, <1>3, <1>4 DEF Schedule

\* Recovery settles Attempts, then runs, then journals.
LEMMA RecoveryFrame ==
    ASSUME Recovery \/ RecoverFails \/ RecoverCrash
    PROVE  /\ UNCHANGED <<review, taskStatus, git, schedVars, ctl>>
           /\ \/ UNCHANGED <<owner, attempt>>
              \/ \E k \in Attempts, a \in Artifacts \cup {None} :
                    RecoverAttempt(k, a)
           /\ UNCHANGED <<run, latestCI>> \/ RecoverLeases
           /\ UNCHANGED <<journal, taskSHA>> \/ RecoverJournal
  <1> USE DEF document, evidence, work, task, outside, processes, others
  <1>1. CASE \/ RecoverRefused \/ RecoverSteal \/ RecoverTerminate
             \/ \E j \in Journals : RecoverResolve(j)
             \/ RecoverUnlock \/ RecoverDone \/ RecoverFails \/ RecoverCrash
    BY <1>1 DEF RecoverRefused, RecoverSteal, RecoverTerminate,
       RecoverResolve, RecoverUnlock, RecoverDone, RecoverFails, RecoverCrash
  <1>2. ASSUME NEW k \in Attempts, NEW a \in Artifacts \cup {None},
               RecoverAttempt(k, a)
        PROVE  UNCHANGED <<review, taskStatus, git, schedVars, ctl, run,
                           latestCI, journal, taskSHA>>
    BY <1>2, Zenon DEF RecoverAttempt
  <1>3. CASE RecoverLeases
    BY <1>3 DEF RecoverLeases
  <1>4. CASE RecoverJournal
    <2>1. UNCHANGED <<review, taskStatus, git, schedVars, ctl, owner,
                      attempt, run, latestCI>>
      BY <1>4, Zenon DEF RecoverJournal
    <2> QED BY <1>4, <2>1
  <1> QED BY <1>1, <1>2, <1>3, <1>4 DEF Recovery

\* The actions of an activity that write more than its own locals.
LEMMA CompleteFrame ==
    ASSUME NEW s, NEW how, NEW result, NEW a, Complete(s, how, result, a)
    PROVE  /\ pc[s] \in {"context", "working", "starved"}
           /\ a # None => step[s].op = "mutation" /\ Fresh(a, UnusedArtifacts)
           /\ attempt' = [attempt EXCEPT ![act[s]].status = "ENDED"]
           /\ owner' = IF a # None
                       THEN [owner EXCEPT ![a] = step[s].change] ELSE owner
           /\ UNCHANGED <<run, latestCI, journal, task, git, locks, step, act,
                          sha, ctx, others>>
           /\ Returns(s) \/ \E code : Fails(s, code)
  BY Zenon DEF Complete
\* The same for FinishCI.
LEMMA FinishCIFrame ==
    ASSUME NEW s, NEW outcome, NEW code, FinishCI(s, outcome, code)
    PROVE  /\ pc[s] \in {"ciSetup", "ciRun"}
           /\ run' = [run EXCEPT ![act[s]].status = outcome]
           /\ latestCI' = [latestCI EXCEPT ![step[s].target] = act[s]]
           /\ UNCHANGED <<owner, review, attempt, interrupts, journal, task,
                          blockers, git, locks, step, act, sha, ctx, others>>
           /\ Returns(s) \/ \E x : Fails(s, x)
  BY Zenon DEF FinishCI
\* The same for EndPromotion.
LEMMA EndPromotionFrame ==
    ASSUME NEW s, EndPromotion(s)
    PROVE  /\ pc[s] \in {"drifted", "conflicted"}
           /\ taskSHA' = taskSHA \/ (sha[s] # None /\ taskSHA' = sha[s])
           /\ UNCHANGED <<evidence, attempt, interrupts, journal, taskStatus,
                          cancelled, git, runLock, step, act, sha, ctx,
                          others>>
           /\ Returns(s) \/ \E code : Fails(s, code)
  BY Zenon DEF EndPromotion
\* The same for ApplyPromotion.
LEMMA ApplyFrame ==
    ASSUME NEW s, ApplyPromotion(s)
    PROVE  /\ pc[s] = "apply"
           /\ \/ UNCHANGED <<journal, change, taskSHA>>
              \/ /\ journal[act[s]].state = "PREPARED"
                 /\ journal' = [journal EXCEPT ![act[s]].state = "APPLIED"]
                 /\ taskSHA' = journal[act[s]].new
           /\ UNCHANGED <<evidence, attempt, interrupts, taskStatus,
                          cancelled, git, runLock, step, act, sha, ctx,
                          others>>
           /\ Returns(s) \/ \E code : Fails(s, code)
  BY Zenon DEF ApplyPromotion
\* The same for RecoverJournal.
LEMMA RecoverJournalFrame ==
    ASSUME RecoverJournal
    PROVE  /\ rec.at = "reconcile"
           /\ UNCHANGED <<evidence, work, taskStatus, cancelled, git, runLock,
                          schedVars, ctl, crashes>>
           /\ \/ /\ journal' = [journal EXCEPT ![rec.journal].state =
                                   Outcome(rec.journal, rec.sha)]
                 /\ taskSHA' = IF Outcome(rec.journal, rec.sha) = "APPLIED"
                               THEN journal[rec.journal].new ELSE taskSHA
                 /\ rec' = [rec EXCEPT !.at = "journals", !.journal = None,
                                       !.sha = None]
              \/ UNCHANGED <<journal, taskSHA>> /\ rec' = NoRecovery
  BY Zenon DEF RecoverJournal, RecoverBails

\* An activity writes one table at a time.
LEMMA ActivityFrame ==
    ASSUME NEW s \in Scheds, Activity(s)
    PROVE  /\ UNCHANGED <<taskStatus, cancelled, ctl, rec, crashes>>
           /\ \/ UNCHANGED <<owner, review>>
              \/ \E how \in Endings, result \in Verdicts,
                    a \in Artifacts \cup {None} : Complete(s, how, result, a)
           /\ \/ UNCHANGED attempt
              \/ \E k \in Attempts : PrepareAttempt(s, k)
              \/ \E how \in Endings, result \in Verdicts,
                    a \in Artifacts \cup {None} : Complete(s, how, result, a)
           /\ \/ UNCHANGED <<run, latestCI>>
              \/ \E r \in CIRuns : PrepareCI(s, r)
              \/ OpenLogs(s) \/ MarkCIRunning(s)
              \/ \E outcome \in Outcomes, code \in CIErrors :
                    FinishCI(s, outcome, code)
           /\ \/ UNCHANGED journal
              \/ \E j \in Journals : PreparePromotion(s, j)
              \/ CASConflict(s) \/ ApplyPromotion(s)
           /\ UNCHANGED taskSHA \/ EndPromotion(s) \/ ApplyPromotion(s)
           /\ UNCHANGED git \/ Construct(s) \/ CAS(s) \/ CASFails(s)
  <1> USE DEF document, evidence, work, activity, task, outside, processes,
              schedVars, others
  <1>1. CASE \/ ResolveRef(s) \/ ResolveRefFails(s) \/ Refused(s)
             \/ Materialize(s) \/ StorageFails(s)
             \/ PromoteBusy(s) \/ PromoteStart(s) \/ EvidenceChanged(s)
             \/ ConstructFails(s) \/ PreparePromotionFails(s)
             \/ CASRejected(s) \/ CASUnexplained(s)
             \/ FailedStep(s) \/ PauseOnSignal(s) \/ EndStep(s)
    <2>1. UNCHANGED <<evidence, attempt, journal, task, git, others>>
      BY <1>1 DEF ResolveRef, ResolveRefFails, Refused, Materialize,
         StorageFails, PromoteBusy, PromoteStart, EvidenceChanged,
         ConstructFails, PreparePromotionFails, CASRejected, CASUnexplained,
         FailedStep, PauseOnSignal, EndStep
    <2> QED BY <2>1
  <1>2. CASE \E k \in Attempts : PrepareAttempt(s, k)
    <2>1. UNCHANGED <<evidence, journal, task, git, others>>
      BY <1>2 DEF PrepareAttempt
    <2> QED BY <1>2, <2>1
  <1>3. ASSUME NEW how \in Endings, NEW result \in Verdicts,
               NEW a \in Artifacts \cup {None}, Complete(s, how, result, a)
        PROVE  UNCHANGED <<run, latestCI, journal, task, git, others>>
    BY <1>3, CompleteFrame
  <1>4. CASE (\E r \in CIRuns : PrepareCI(s, r)) \/ OpenLogs(s)
             \/ MarkCIRunning(s)
    <2>1. UNCHANGED <<owner, review, attempt, journal, task, git, others>>
      BY <1>4 DEF PrepareCI, OpenLogs, MarkCIRunning
    <2> QED BY <1>4, <2>1
  <1>5. ASSUME NEW outcome \in Outcomes, NEW code \in CIErrors,
               FinishCI(s, outcome, code)
        PROVE  UNCHANGED <<owner, review, attempt, journal, task, git, others>>
    BY <1>5, FinishCIFrame
  <1>6. CASE (\E j \in Journals : PreparePromotion(s, j)) \/ CASConflict(s)
    <2>1. UNCHANGED <<evidence, attempt, task, git, others>>
      BY <1>6 DEF PreparePromotion, CASConflict
    <2> QED BY <1>6, <2>1
  <1>7. CASE Construct(s) \/ CAS(s) \/ CASFails(s)
    <2>1. UNCHANGED <<evidence, attempt, journal, task, others>>
      BY <1>7 DEF Construct, CAS, CASFails
    <2> QED BY <1>7, <2>1
  <1>8. CASE EndPromotion(s)
    <2>1. UNCHANGED <<evidence, attempt, journal, taskStatus, cancelled, git,
                      others>>
      BY <1>8, EndPromotionFrame
    <2> QED BY <1>8, <2>1
  <1>9. CASE ApplyPromotion(s)
    <2>1. UNCHANGED <<evidence, attempt, taskStatus, cancelled, git, others>>
      BY <1>9, ApplyFrame
    <2> QED BY <1>9, <2>1
  <1> QED BY <1>1, <1>2, <1>3, <1>4, <1>5, <1>6, <1>7, <1>8, <1>9
          DEF Activity

-----------------------------------------------------------------------------
(* Exclusive, by who takes the step.                                       *)

\* A step that touches neither slot, gate nor what the processes are doing.
LEMMA BystanderExclusive ==
    ASSUME Exclusive, UNCHANGED <<activity, gate, pc, step, ctl, rec>>
    PROVE  Exclusive'
  BY DEF Exclusive, Recovering, activity

\* A command takes the free gate; it drops the activity only of an idle slot.
LEMMA GateTakenExclusive ==
    ASSUME Exclusive, gate = "free", gate' = "control",
           slot.task => UNCHANGED pending,
           UNCHANGED <<slot, pc, step, rec>>
    PROVE  Exclusive'
  BY SchedNames DEF Exclusive, Recovering

\* A command gives the gate back.
LEMMA GateReturnedExclusive ==
    ASSUME Exclusive, ctl # NoControl, ctl' = NoControl,
           slot.task => UNCHANGED pending,
           UNCHANGED <<slot, pc, step, rec>>
    PROVE  Exclusive'
  BY SchedNames DEF Exclusive, Recovering

\* A scheduler's step: it only touches a slot that is idle or its own and a
\* gate that is free or its own, and goes on executing only with both.
LEMMA SchedulerExclusive ==
    ASSUME Exclusive, NEW s \in Scheds,
           UNCHANGED <<ctl, rec>>,
           \A t \in Scheds \ {s} : pc'[t] = pc[t] /\ step'[t] = step[t],
           slot.owner \in {s, "none"} \/ UNCHANGED activity,
           gate \in {s, "free"} \/ UNCHANGED gate,
           pc'[s] \in Executing => /\ slot' = [owner |-> s, task |-> TRUE]
                                   /\ pending' = step'[s],
           pc'[s] \in Gated => gate' = s
    PROVE  Exclusive'
  <1>1. ASSUME NEW t \in Scheds
        PROVE  /\ pc'[t] \in Executing =>
                     slot' = [owner |-> t, task |-> TRUE] /\ pending' = step'[t]
               /\ pc'[t] \in Gated => gate' = t
    <2>1. CASE t = s
      BY <2>1
    <2>2. CASE t # s
      BY <2>2, SchedNames DEF Exclusive, activity
    <2> QED BY <2>1, <2>2
  <1>2. Recovering' => slot'.owner = "recovery" /\ gate' = "recovery"
    BY SchedNames DEF Exclusive, Recovering, activity
  <1>3. ctl' # NoControl => gate' = "control"
    BY SchedNames DEF Exclusive
  <1> QED BY <1>1, <1>2, <1>3 DEF Exclusive

\* Recovery has slot and gate, so nobody executes and no command waits.
LEMMA RecoveringAlone ==
    ASSUME Exclusive, Recovering
    PROVE  /\ \A s \in Scheds : pc[s] \notin Executing /\ pc[s] \notin Gated
           /\ ctl = NoControl
  BY SchedNames DEF Exclusive
\* So it may do to both what it likes.
LEMMA RecoveryExclusive ==
    ASSUME Exclusive, Recovering, UNCHANGED <<pc, step, ctl>>,
           Recovering' => slot'.owner = "recovery" /\ gate' = "recovery"
    PROVE  Exclusive'
  BY RecoveringAlone DEF Exclusive

-----------------------------------------------------------------------------
(* Exclusive, action by action.                                            *)

\* Commands that wait take the free gate, the others touch neither lock.
LEMMA OperatorExclusive ==
    ASSUME Typed, Exclusive, Operator
    PROVE  Exclusive'
  <1> USE DEF outside, processes, schedVars, others, locks
  <1>1. CASE \E c \in Changes :
                \/ ReleaseOption(c) \/ ChangePromote(c) \/ ChangeResume(c)
                \/ \E stage \in {"CI", "REVIEW", "MUTATION"} :
                      ChangeRetry(c, stage)
    <2>1. UNCHANGED <<activity, outside>>
      BY <1>1, Zenon DEF ReleaseOption, ChangePromote, ChangeResume,
                         ChangeRetry, OnlyChange
    <2> QED BY <2>1, BystanderExclusive
  <1>2. CASE \/ \E a \in Artifacts, r \in CIRuns : QueueCI(a, r)
             \/ \E k \in Attempts : Interrupt(k)
             \/ \E b \in Scopes : ResolveBlocker(b)
             \/ CommandFails
    <2>1. UNCHANGED <<activity, outside>>
      BY <1>2 DEF QueueCI, Interrupt, ResolveBlocker, CommandFails
    <2> QED BY <2>1, BystanderExclusive
  <1>3. CASE \E new \in Commits : ExternalMove(new)
    BY <1>3, BystanderExclusive DEF ExternalMove, document
  <1>4. CASE \E s \in Scheds : Interrupted(s)
    BY <1>4, BystanderExclusive DEF Interrupted, document
  <1>5. CASE RecoverStart
    BY <1>5 DEF RecoverStart, Exclusive, Recovering, document, activity,
                Typed, TypeOK, OthersOK
  <1>6. CASE \E c \in Changes, state \in {"PAUSED", "ABORTED"} :
                ChangePause(c, state)
    BY <1>6, GateTakenExclusive DEF ChangePause, GateFree, activity
  <1>7. CASE \/ requestCancellation("suspend")
             \/ requestCancellation("close")
    BY <1>7, GateTakenExclusive DEF requestCancellation
  <1>8. CASE ResumeTask
    BY <1>8, GateTakenExclusive DEF ResumeTask, document, activity
  <1>9. CASE ControlGivesUp
    BY <1>9, GateReturnedExclusive DEF ControlGivesUp, document, activity
  <1> QED BY <1>1, <1>2, <1>3, <1>4, <1>5, <1>6, <1>7, <1>8, <1>9
          DEF Operator

\* A waiting command keeps its gate or gives it back; the last transaction of
\* suspend and close, which drops the selected step, finds the slot idle.
LEMMA ControlExclusive ==
    ASSUME Exclusive, CancelSeen, Control
    PROVE  Exclusive'
  <1>1. CASE CancellationSettles
    BY <1>1 DEF CancellationSettles, Exclusive, Recovering, NoControl,
                document, activity, locks, schedVars
  <1>2. CASE \/ ChangeSettled \/ finishLifecycle \/ LifecycleRefused
             \/ finishResume
    <2>1. ctl # NoControl /\ ctl' = NoControl
      BY <1>2 DEF ChangeSettled, finishLifecycle, LifecycleRefused,
                  finishResume, NoControl
    <2>2. /\ slot.task => UNCHANGED pending
          /\ UNCHANGED <<slot, pc, step, rec>>
      BY <1>2 DEF ChangeSettled, finishLifecycle, LifecycleRefused,
                  finishResume, CancelSeen, document, activity, schedVars
    <2> QED BY <2>1, <2>2, GateReturnedExclusive
  <1> QED BY <1>1, <1>2 DEF Control

\* A scheduler that ends its step or leaves only touches a slot of its own.
LEMMA LeavesOthersSlot ==
    ASSUME NEW s,
           \/ FailedStep(s) \/ EndStep(s)
           \/ Crash(s) \/ SchedStop(s) \/ IdleFails(s)
    PROVE  slot.owner = s \/ UNCHANGED <<change, activity>>
  <1>1. \A chs : Release(chs, s) =>
           slot.owner = s \/ (change' = chs /\ UNCHANGED activity)
    BY DEF Release
  <1>2. KeepsSlot(s) => slot.owner = s \/ UNCHANGED <<change, activity>>
    BY DEF KeepsSlot, activity
  <1>3. FailedStep(s) => slot.owner = s \/ UNCHANGED <<change, activity>>
    BY <1>1 DEF FailedStep, TryRelease
  <1>4. EndStep(s) => slot.owner = s \/ UNCHANGED <<change, activity>>
    BY <1>1, <1>2 DEF EndStep
  <1> QED BY <1>1, <1>2, <1>3, <1>4 DEF Crash, SchedStop, IdleFails

\* A scheduler between two activities, or killed.
LEMMA ScheduleExclusive ==
    ASSUME Typed, Exclusive, NEW s \in Scheds,
           SchedStart(s) \/ Crash(s) \/ Schedule(s)
    PROVE  Exclusive'
  <1> USE DEF Typed, TypeOK, SchedulersOK
  <1>1. CASE SchedStart(s)
    <2>1. /\ UNCHANGED <<activity, gate, step, ctl, rec>>
          /\ UNCHANGED pc \/ pc' = [pc EXCEPT ![s] = "idle"]
      BY <1>1 DEF SchedStart, Goto, document, others
    <2> QED BY <2>1, SchedulerExclusive, BystanderExclusive
            DEF Executing, Gated
  <1>2. CASE Crash(s)
    <2>1. /\ UNCHANGED <<ctl, rec>> /\ Stopped(s) /\ UnlockGate(s)
          /\ slot.owner = s \/ UNCHANGED activity
      BY <1>2, LeavesOthersSlot DEF Crash
    <2> QED BY <2>1, SchedulerExclusive
            DEF Stopped, UnlockGate, Executing, Gated
  <1>3. CASE SchedStop(s) \/ IdleFails(s)
    <2>1. /\ UNCHANGED <<ctl, rec, gate>> /\ Stopped(s)
          /\ slot.owner = s \/ UNCHANGED activity
      BY <1>3, LeavesOthersSlot DEF SchedStop, IdleFails, others
    <2> QED BY <2>1, SchedulerExclusive DEF Stopped, Executing, Gated
  <1>4. CASE NextRequest(s)
    <2>1. PICK p : Select(s, p)
      BY <1>4 DEF NextRequest
    <2>2. UNCHANGED <<ctl, rec, gate>> /\ slot.owner = "none"
      BY <1>4 DEF NextRequest, NextEnabled, others, locks
    <2> QED BY <2>1, <2>2, SchedulerExclusive
            DEF Select, Goto, Executing, Gated
  <1>5. CASE NextChange(s)
    <2>1. /\ UNCHANGED <<activity, step, pc>> \/ \E p : Select(s, p)
      BY <1>5, Zenon DEF NextChange
    <2>2. UNCHANGED <<ctl, rec, gate>> /\ slot.owner = "none"
      BY <1>5, Zenon DEF NextChange, NextEnabled, others, locks
    <2>3. CASE UNCHANGED <<activity, step, pc>>
      BY <2>2, <2>3, BystanderExclusive
    <2>4. CASE \E p : Select(s, p)
      BY <2>2, <2>4, SchedulerExclusive DEF Select, Goto, Executing, Gated
    <2> QED BY <2>1, <2>3, <2>4
  <1> QED BY <1>1, <1>2, <1>3, <1>4, <1>5 DEF Schedule

\* The activity of s goes on, with the slot and, if it promotes, the gate.
LEMMA GoesOnExclusive ==
    ASSUME Typed, Exclusive, NEW s \in Scheds, NEW label,
           pc[s] \in Executing, Goto(s, label),
           UNCHANGED <<activity, step, ctl, rec>>,
           UNCHANGED gate \/ (gate = "free" /\ gate' = s),
           label \in Gated => gate' = s
    PROVE  Exclusive'
  BY SchedulerExclusive
  DEF Typed, TypeOK, SchedulersOK, Goto, Exclusive, activity
\* The activity of s ends, or what follows it does.
LEMMA EndsExclusive ==
    ASSUME Typed, Exclusive, NEW s \in Scheds, NEW label,
           label \notin Executing, pc' = [pc EXCEPT ![s] = label],
           pc[s] \in Executing \/ slot.owner = s \/ UNCHANGED activity,
           UNCHANGED gate \/ UnlockGate(s),
           UNCHANGED <<step, ctl, rec>>
    PROVE  Exclusive'
  <1>1. label \notin Gated
    BY DEF Gated, Executing
  <1>2. slot.owner = s \/ UNCHANGED activity
    BY DEF Exclusive
  <1> QED BY <1>1, <1>2, SchedulerExclusive
          DEF Typed, TypeOK, SchedulersOK, UnlockGate
\* Neither success nor failure leaves s executing.
LEMMA Ends ==
    ASSUME NEW s \in Scheds,
           Returns(s) \/ \E code : Fails(s, code)
    PROVE  \E label : /\ label \notin Executing
                      /\ pc' = [pc EXCEPT ![s] = label]
  BY DEF Returns, Fails, Executing

\* Promotion takes the gate before it constructs and frees it at its end.
LEMMA PromotionExclusive ==
    ASSUME Typed, Exclusive, NEW s \in Scheds,
           \/ PromoteBusy(s) \/ PromoteStart(s) \/ EvidenceChanged(s)
           \/ Construct(s) \/ ConstructFails(s)
           \/ \E j \in Journals : PreparePromotion(s, j)
           \/ PreparePromotionFails(s)
           \/ CAS(s) \/ CASFails(s) \/ CASRejected(s) \/ CASConflict(s)
           \/ CASUnexplained(s) \/ ApplyPromotion(s)
    PROVE  Exclusive'
  <1> USE DEF document, others, locks
  <1>1. CASE \/ PromoteBusy(s) \/ ConstructFails(s) \/ CASFails(s)
             \/ PreparePromotionFails(s) \/ CASUnexplained(s)
    <2>1. /\ \E code : Fails(s, code)
          /\ UNCHANGED <<activity, step, ctl, rec>>
          /\ UNCHANGED gate \/ UnlockGate(s)
      BY <1>1 DEF PromoteBusy, ConstructFails, CASFails,
                  PreparePromotionFails, CASUnexplained
    <2> QED BY <2>1, Ends, EndsExclusive
  <1>2. CASE PromoteStart(s)
    <2>1. /\ pc[s] = "promote" /\ UNCHANGED <<activity, step, ctl, rec>>
          /\ \/ UNCHANGED gate /\ \E code : Fails(s, code)
             \/ gate = "free" /\ gate' = s /\ \E label : Goto(s, label)
      BY <1>2 DEF PromoteStart
    <2>2. CASE UNCHANGED gate /\ \E code : Fails(s, code)
      BY <2>1, <2>2, Ends, EndsExclusive
    <2>3. CASE gate = "free" /\ gate' = s /\ \E label : Goto(s, label)
      BY <2>1, <2>3, GoesOnExclusive DEF Executing
    <2> QED BY <2>1, <2>2, <2>3
  <1>3. CASE EvidenceChanged(s)
    <2>1. /\ Returns(s) \/ \E code : Fails(s, code)
          /\ UNCHANGED <<activity, step, ctl, rec>> /\ UnlockGate(s)
      BY <1>3 DEF EvidenceChanged
    <2> QED BY <2>1, Ends, EndsExclusive
  <1>4. CASE \/ Construct(s) \/ \E j \in Journals : PreparePromotion(s, j)
             \/ CAS(s) \/ CASRejected(s) \/ CASConflict(s)
    <2>1. /\ pc[s] \in Gated /\ \E label : Goto(s, label)
          /\ UNCHANGED <<activity, step, ctl, rec, gate>>
      BY <1>4 DEF Construct, PreparePromotion, CAS, CASRejected,
                  CASConflict, Gated
    <2>2. pc[s] \in Executing /\ gate = s
      BY <2>1 DEF Exclusive, Gated, Executing
    <2> QED BY <2>1, <2>2, GoesOnExclusive
  <1>5. CASE ApplyPromotion(s)
    <2>1. /\ Returns(s) \/ \E code : Fails(s, code)
          /\ UNCHANGED <<step, ctl, rec>> /\ UnlockGate(s)
          /\ pc[s] \in Executing
      BY <1>5, Zenon DEF ApplyPromotion, Executing
    <2> QED BY <2>1, Ends, EndsExclusive
  <1> QED BY <1>1, <1>2, <1>3, <1>4, <1>5

\* Attempts run in the slot, without the gate.
LEMMA AttemptExclusive ==
    ASSUME Typed, Exclusive, NEW s \in Scheds,
           \/ ResolveRef(s) \/ ResolveRefFails(s) \/ EndPromotion(s)
           \/ Refused(s) \/ \E k \in Attempts : PrepareAttempt(s, k)
           \/ Materialize(s) \/ StorageFails(s)
           \/ \E how \in Endings, result \in Verdicts,
                 a \in Artifacts \cup {None} : Complete(s, how, result, a)
    PROVE  Exclusive'
  <1> USE DEF document, others, locks
  <1>1. CASE \/ ResolveRef(s) \/ Materialize(s)
             \/ \E k \in Attempts : PrepareAttempt(s, k)
    <2>1. /\ pc[s] \in Executing
          /\ \E label : label \notin Gated /\ Goto(s, label)
          /\ UNCHANGED <<activity, step, ctl, rec, gate>>
      BY <1>1 DEF ResolveRef, Materialize, PrepareAttempt, Executing, Gated
    <2> QED BY <2>1, GoesOnExclusive
  <1>2. CASE ResolveRefFails(s) \/ Refused(s) \/ StorageFails(s)
    <2>1. /\ \E code : Fails(s, code)
          /\ UNCHANGED <<activity, step, ctl, rec>>
          /\ UNCHANGED gate \/ UnlockGate(s)
      BY <1>2 DEF ResolveRefFails, Refused, StorageFails
    <2> QED BY <2>1, Ends, EndsExclusive
  <1>3. CASE EndPromotion(s)
    <2>1. /\ Returns(s) \/ \E code : Fails(s, code)
          /\ UNCHANGED <<step, ctl, rec>> /\ UnlockGate(s)
          /\ pc[s] \in Executing
      BY <1>3, Zenon DEF EndPromotion, Executing
    <2> QED BY <2>1, Ends, EndsExclusive
  <1>4. ASSUME NEW how \in Endings, NEW result \in Verdicts,
               NEW a \in Artifacts \cup {None}, Complete(s, how, result, a)
        PROVE  Exclusive'
    <2>1. /\ Returns(s) \/ \E code : Fails(s, code)
          /\ UNCHANGED <<step, ctl, rec, gate>>
      BY <1>4, Zenon DEF Complete
    <2>2. pc[s] \in Executing
      BY <1>4, Zenon DEF Complete, Executing
    <2> QED BY <2>1, <2>2, Ends, EndsExclusive
  <1> QED BY <1>1, <1>2, <1>3, <1>4

\* So do CI runs.
LEMMA CIExclusive ==
    ASSUME Typed, Exclusive, NEW s \in Scheds,
           \/ \E r \in CIRuns : PrepareCI(s, r)
           \/ OpenLogs(s) \/ MarkCIRunning(s)
           \/ \E outcome \in Outcomes, code \in CIErrors :
                 FinishCI(s, outcome, code)
    PROVE  Exclusive'
  <1> USE DEF document, others, locks
  <1>1. CASE \E r \in CIRuns : PrepareCI(s, r)
    <2>1. /\ pc[s] \in Executing
          /\ \E label : label \notin Gated /\ Goto(s, label)
          /\ UNCHANGED <<activity, step, ctl, rec, gate>>
      BY <1>1 DEF PrepareCI, Executing, Gated
    <2> QED BY <2>1, GoesOnExclusive
  <1>2. CASE OpenLogs(s)
    BY <1>2, BystanderExclusive
    DEF OpenLogs, outside, processes, schedVars
  <1>3. CASE MarkCIRunning(s)
    <2>1. /\ \/ \E code : Fails(s, code)
             \/ \E label : label \notin Gated /\ Goto(s, label)
          /\ UNCHANGED <<activity, step, ctl, rec, gate>>
          /\ pc[s] \in Executing
      BY <1>3 DEF MarkCIRunning, Gated, Executing
    <2>2. CASE \E code : Fails(s, code)
      BY <2>1, <2>2, Ends, EndsExclusive
    <2>3. CASE \E label : label \notin Gated /\ Goto(s, label)
      BY <2>1, <2>3, GoesOnExclusive
    <2> QED BY <2>1, <2>2, <2>3
  <1>4. ASSUME NEW outcome \in Outcomes, NEW code \in CIErrors,
               FinishCI(s, outcome, code)
        PROVE  Exclusive'
    <2>1. /\ Returns(s) \/ Fails(s, code)
          /\ UNCHANGED <<step, ctl, rec, gate>>
      BY <1>4, Zenon DEF FinishCI
    <2>2. pc[s] \in Executing
      BY <1>4, Zenon DEF FinishCI, Executing
    <2> QED BY <2>1, <2>2, Ends, EndsExclusive
  <1> QED BY <1>1, <1>2, <1>3, <1>4

\* The end of a step only gives back a slot that is still its own.
LEMMA EndOfStepExclusive ==
    ASSUME Typed, Exclusive, NEW s \in Scheds,
           FailedStep(s) \/ PauseOnSignal(s) \/ EndStep(s)
    PROVE  Exclusive'
  <1> USE DEF document, others, locks
  <1>1. CASE FailedStep(s) \/ PauseOnSignal(s)
    <2>1. /\ \E label : label \notin Executing /\ Goto(s, label)
          /\ UNCHANGED <<step, ctl, rec, gate>>
          /\ slot.owner = s \/ UNCHANGED activity
      BY <1>1, LeavesOthersSlot DEF FailedStep, PauseOnSignal, Executing
    <2> QED BY <2>1, EndsExclusive DEF Goto
  <1>2. CASE EndStep(s)
    <2>1. /\ UNCHANGED <<ctl, rec, gate>>
          /\ slot.owner = s \/ UNCHANGED activity
          /\ step' = [step EXCEPT ![s] = NoStep]
          /\ \E label \in {"idle", "off"} : pc' = [pc EXCEPT ![s] = label]
      BY <1>2, LeavesOthersSlot DEF EndStep, GoesOn, Stopped
    <2> QED BY <2>1, SchedulerExclusive
            DEF Typed, TypeOK, SchedulersOK, Executing, Gated
  <1> QED BY <1>1, <1>2

\* Recovery takes gate and slot together, and only from a dead owner.
LEMMA RecoverExclusive ==
    ASSUME Typed, Exclusive, Recovery \/ RecoverFails \/ RecoverCrash
    PROVE  Exclusive'
  <1> USE DEF Recovering, schedVars, document, activity
  <1>0. UNCHANGED <<pc, step, ctl>>
    BY DEF Recovery, RecoverRefused, RecoverSteal, RecoverTerminate,
       RecoverAttempt, RecoverLeases, RecoverResolve, RecoverJournal,
       RecoverUnlock, RecoverDone, RecoverFails, RecoverCrash, outside,
       processes, others
  <1>1. CASE RecoverRefused
    BY <1>1, <1>0 DEF RecoverRefused, Exclusive, locks, NoRecovery
  <1>2. CASE RecoverSteal
    BY <1>2, <1>0, SchedNames
    DEF RecoverSteal, SlotStealable, Exclusive, Executing, Gated
  <1>3. CASE \/ RecoverTerminate \/ RecoverUnlock \/ RecoverLeases
             \/ \E k \in Attempts, a \in Artifacts \cup {None} :
                   RecoverAttempt(k, a)
             \/ \E j \in Journals : RecoverResolve(j)
    <2>1. Recovering /\ UNCHANGED <<slot, gate>>
      BY <1>3, Zenon DEF RecoverTerminate, RecoverUnlock, RecoverLeases,
                  RecoverAttempt, RecoverResolve, outside, locks
    <2> QED BY <2>1, <1>0, RecoveryExclusive DEF Exclusive
  <1>4. CASE RecoverJournal
    <2>1. Recovering
      BY <1>4, Zenon DEF RecoverJournal
    <2>2. UNCHANGED <<slot, gate>> \/ rec' = NoRecovery
      BY <1>4, Zenon DEF RecoverJournal, RecoverBails
    <2> QED BY <2>1, <2>2, <1>0, RecoveryExclusive DEF Exclusive, NoRecovery
  <1>5. CASE RecoverDone \/ RecoverFails \/ RecoverCrash
    <2>1. Recovering /\ rec' = NoRecovery
      BY <1>5 DEF RecoverDone, RecoverFails, RecoverCrash, RecoverBails
    <2> QED BY <2>1, <1>0, RecoveryExclusive DEF NoRecovery
  <1> QED BY <1>1, <1>2, <1>3, <1>4, <1>5 DEF Recovery

-----------------------------------------------------------------------------
(* What cancel has seen stays.                                              *)

\* What Next selects may run, and where its execution begins.
LEMMA Selected ==
    ASSUME Typed, NEW s \in Scheds, NextRequest(s) \/ NextChange(s)
    PROVE  \/ UNCHANGED <<slot, pc>>
           \/ \E r \in requests :
                 /\ step'[s] = RequestStep(r) /\ pc'[s] = "ciPrepare"
                 /\ runnable(RequestStep(r))
           \/ \E c \in Changes :
                 /\ step'[s] = ChangeStep(c) /\ runnable(ChangeStep(c))
                 /\ pc'[s] = IF ChangeStep(c).op = "ci" THEN "ciPrepare"
                                                       ELSE "resolve"
  <1>0. pc \in [Scheds -> Labels] /\ step \in [Scheds -> StepRecord]
    BY DEF Typed, TypeOK, SchedulersOK
  <1>1. CASE NextRequest(s)
    <2>1. PICK r \in requests :
             runnable(RequestStep(r)) /\ Select(s, RequestStep(r))
      BY <1>1 DEF NextRequest
    <2>2. step'[s] = RequestStep(r)
      BY <1>0, <2>1 DEF Select
    <2>3. pc'[s] = "ciPrepare"
      BY <1>0, <2>1 DEF Select, Goto, RequestStep
    <2> QED BY <2>1, <2>2, <2>3
  <1>2. CASE NextChange(s)
    <2>1. \/ UNCHANGED <<activity, step, pc>>
          \/ \E c \in Changes :
                runnable(ChangeStep(c)) /\ Select(s, ChangeStep(c))
      BY <1>2, Zenon DEF NextChange
    <2>2. ASSUME NEW c \in Changes, runnable(ChangeStep(c)),
                 Select(s, ChangeStep(c))
          PROVE  /\ step'[s] = ChangeStep(c)
                 /\ pc'[s] = IF ChangeStep(c).op = "ci" THEN "ciPrepare"
                                                       ELSE "resolve"
      BY <1>0, <2>2 DEF Select, Goto
    <2> QED BY <2>1, <2>2 DEF activity
  <1> QED BY <1>1, <1>2

\* The slot is given to an activity of the Task under the same condition.
LEMMA SlotGiven ==
    ASSUME Typed, [Next]_vars, slot'.task, ~slot.task
    PROVE  taskStatus = "ACTIVE" /\ ~cancelled
  <1>0. slot \in SlotRecord /\ pc \in [Scheds -> Labels]
    BY DEF Typed, TypeOK, DocumentOK, SchedulersOK
  <1>1. ASSUME UNCHANGED slot PROVE FALSE
    BY <1>1
  <1>2. ASSUME slot' = IdleSlot PROVE FALSE
    BY <1>2 DEF IdleSlot
  <1>3. ASSUME NEW who, slot' = [slot EXCEPT !.owner = who] PROVE FALSE
    BY <1>0, <1>3 DEF SlotRecord
  <1>4. ASSUME NEW chs, NEW who, release(chs) \/ Release(chs, who)
        PROVE  FALSE
    BY <1>1, <1>2, <1>4 DEF release, Release, activity
  <1>5. ASSUME NEW s \in Scheds, KeepsSlot(s) PROVE FALSE
    BY <1>1, <1>3, <1>5 DEF KeepsSlot
  <1>6. ASSUME NEW s \in Scheds, Activity(s) PROVE FALSE
    <2>1. ASSUME NEW how, NEW result, NEW a, Complete(s, how, result, a)
          PROVE  FALSE
      <3>1. (\E chs : release(chs)) \/ slot' = IdleSlot
        BY <2>1, Zenon DEF Complete, finishActivity
      <3> QED BY <1>2, <1>4, <3>1
    <2>2. ASSUME NEW outcome, NEW code, FinishCI(s, outcome, code)
          PROVE  FALSE
      <3>1. slot' = IdleSlot
        BY <2>2, Zenon DEF FinishCI, finishActivity
      <3> QED BY <1>2, <3>1
    <2>3. ASSUME EndPromotion(s) \/ ApplyPromotion(s) PROVE FALSE
      <3>1. slot' = IdleSlot \/ UNCHANGED slot
        BY <2>3, Zenon DEF EndPromotion, ApplyPromotion, finishActivity,
           activity
      <3> QED BY <1>1, <1>2, <3>1
    <2>4. ASSUME FailedStep(s) \/ EndStep(s) PROVE FALSE
      <3>1. Release(change, s) \/ KeepsSlot(s) \/ UNCHANGED slot
        BY <2>4 DEF FailedStep, EndStep, TryRelease, activity
      <3> QED BY <1>1, <1>4, <1>5, <3>1
    <2>5. CASE \/ ResolveRef(s) \/ ResolveRefFails(s) \/ Refused(s)
               \/ \E k \in Attempts : PrepareAttempt(s, k)
               \/ Materialize(s) \/ StorageFails(s)
               \/ \E x \in CIRuns : PrepareCI(s, x)
               \/ OpenLogs(s) \/ MarkCIRunning(s)
               \/ PromoteBusy(s) \/ PromoteStart(s) \/ EvidenceChanged(s)
               \/ Construct(s) \/ ConstructFails(s)
               \/ \E j \in Journals : PreparePromotion(s, j)
               \/ PreparePromotionFails(s)
               \/ CAS(s) \/ CASFails(s) \/ CASRejected(s) \/ CASConflict(s)
               \/ CASUnexplained(s) \/ PauseOnSignal(s)
      <3>1. UNCHANGED slot
        BY <2>5 DEF ResolveRef, ResolveRefFails, Refused, PrepareAttempt,
           Materialize, StorageFails, PrepareCI, OpenLogs, MarkCIRunning,
           PromoteBusy, PromoteStart, EvidenceChanged, Construct,
           ConstructFails, PreparePromotion, PreparePromotionFails, CAS,
           CASFails, CASRejected, CASConflict, CASUnexplained,
           PauseOnSignal, document, activity
      <3> QED BY <1>1, <3>1
    <2> QED BY <1>6, <2>1, <2>2, <2>3, <2>4, <2>5 DEF Activity
  <1>7. ASSUME NEW s \in Scheds, SchedStart(s) \/ Crash(s) \/ Schedule(s)
        PROVE  taskStatus = "ACTIVE" /\ ~cancelled
    <2>1. CASE SchedStart(s)
      BY <1>1, <2>1 DEF SchedStart, document, activity
    <2>2. CASE Crash(s) \/ IdleFails(s) \/ SchedStop(s)
      <3>1. KeepsSlot(s) \/ Release(change, s)
        BY <2>2 DEF Crash, IdleFails, SchedStop
      <3> QED BY <1>4, <1>5, <3>1
    <2>3. CASE NextRequest(s) \/ NextChange(s)
      BY <1>1, <2>3, Selected DEF runnable
    <2> QED BY <1>7, <2>1, <2>2, <2>3 DEF Schedule
  <1>8. ASSUME Recovery \/ RecoverFails \/ RecoverCrash PROVE FALSE
    <2>1. ASSUME NEW k, NEW a, RecoverAttempt(k, a) PROVE FALSE
      <3>1. UNCHANGED slot
        BY <2>1, Zenon DEF RecoverAttempt
      <3> QED BY <1>1, <3>1
    <2>2. ASSUME RecoverBails PROVE FALSE
      BY <1>3, <1>4, <2>2 DEF RecoverBails
    <2>3. ASSUME RecoverJournal PROVE FALSE
      <3>1. RecoverBails \/ UNCHANGED slot
        BY <2>3, Zenon DEF RecoverJournal
      <3> QED BY <1>1, <2>2, <3>1
    <2>4. ASSUME RecoverFails PROVE FALSE
      BY <2>2, <2>4 DEF RecoverFails
    <2>5. ASSUME RecoverSteal \/ RecoverDone \/ RecoverCrash PROVE FALSE
      BY <1>2, <1>3, <2>5 DEF RecoverSteal, RecoverDone, RecoverCrash
    <2>6. CASE \/ RecoverRefused \/ RecoverTerminate \/ RecoverLeases
               \/ \E j \in Journals : RecoverResolve(j)
               \/ RecoverUnlock
      BY <1>1, <2>6 DEF RecoverRefused, RecoverTerminate, RecoverLeases,
         RecoverResolve, RecoverUnlock, document, activity
    <2> QED BY <1>8, <2>1, <2>3, <2>4, <2>5, <2>6 DEF Recovery
  <1>9. ASSUME Operator \/ Control \/ UNCHANGED vars PROVE FALSE
    BY <1>1, <1>9, OperatorFrame, ControlFrame DEF vars, document, activity
  <1> QED BY <1>6, <1>7, <1>8, <1>9 DEF Next

\* Commands begin without a mark, and only they have one.
LEMMA OperatorSeen ==
    ASSUME Typed, CancelSeen, Operator
    PROVE  CancelSeen'
  <1>0. UNCHANGED slot
    BY OperatorFrame
  <1>1. CASE \/ \E c \in Changes :
                   \/ ReleaseOption(c) \/ ChangePromote(c) \/ ChangeResume(c)
                   \/ \E stage \in {"CI", "REVIEW", "MUTATION"} :
                         ChangeRetry(c, stage)
             \/ \E a \in Artifacts, r \in CIRuns : QueueCI(a, r)
             \/ \E k \in Attempts : Interrupt(k)
             \/ \E b \in Scopes : ResolveBlocker(b)
             \/ CommandFails \/ \E new \in Commits : ExternalMove(new)
             \/ \E s \in Scheds : Interrupted(s)
             \/ RecoverStart
    <2>1. UNCHANGED <<ctl, cancelled>>
      BY <1>1, Zenon
      DEF ReleaseOption, ChangePromote, ChangeResume, ChangeRetry, OnlyChange,
          QueueCI, Interrupt, ResolveBlocker, CommandFails, ExternalMove,
          Interrupted, RecoverStart, document, task, outside, processes,
          others
    <2> QED BY <1>0, <2>1 DEF CancelSeen
  <1>2. CASE \/ \E c \in Changes, state \in {"PAUSED", "ABORTED"} :
                   ChangePause(c, state)
             \/ ResumeTask \/ ControlGivesUp
    <2>1. PICK op, c, v : ctl' = [op |-> op, change |-> c, sha |-> v,
                                  settled |-> FALSE]
                          /\ op \in {"pause", "resume", "none"}
      <3>1. CASE \E c \in Changes, state \in {"PAUSED", "ABORTED"} :
                    ChangePause(c, state)
        BY <3>1 DEF ChangePause, NoControl
      <3>2. CASE ResumeTask
        BY <3>2 DEF ResumeTask, NoControl
      <3>3. CASE ControlGivesUp
        BY <3>3 DEF ControlGivesUp, NoControl
      <3> QED BY <1>2, <3>1, <3>2, <3>3
    <2> QED BY <2>1 DEF CancelSeen
  <1>3. ASSUME NEW op \in {"suspend", "close"}, requestCancellation(op)
        PROVE  CancelSeen'
    BY <1>3 DEF requestCancellation, CancelSeen, NoControl
  <1> QED BY <1>1, <1>2, <1>3 DEF Operator
\* The mark is made when the slot is not the Task's, and goes with the command.
LEMMA ControlSeen ==
    ASSUME CancelSeen, Control
    PROVE  CancelSeen'
  <1>1. CASE CancellationSettles
    BY <1>1 DEF CancellationSettles, CancelSeen, TaskQuiescent, document,
                activity, task
  <1>2. CASE ~CancellationSettles
    <2>1. ctl' = NoControl
      BY <1>2 DEF Control, ChangeSettled, finishLifecycle, LifecycleRefused,
                  finishResume
    <2> QED BY <2>1 DEF CancelSeen, NoControl
  <1> QED BY <1>1, <1>2
\* No scheduler gives the slot to a cancelled Task, and a recovery that drops
\* cancellations holds the gate.
LEMMA NextSeen ==
    Typed /\ Exclusive /\ CancelSeen /\ [Next]_vars => CancelSeen'
  <1> SUFFICES ASSUME Typed, Exclusive, CancelSeen, [Next]_vars PROVE CancelSeen'
    OBVIOUS
  <1>1. ASSUME UNCHANGED <<ctl, cancelled>> PROVE CancelSeen'
    <2>1. slot'.task => slot.task \/ ~cancelled
      BY SlotGiven
    <2> QED BY <1>1, <2>1 DEF CancelSeen
  <1>2. CASE \E s \in Scheds : SchedStart(s) \/ Crash(s) \/ Schedule(s)
    BY <1>1, <1>2, ScheduleFrame DEF task
  <1>3. CASE \E s \in Scheds : Activity(s)
    BY <1>1, <1>3, ActivityFrame
  <1>4. CASE Recovery \/ RecoverFails \/ RecoverCrash
    <2>1. CASE RecoverRefused
      BY <1>1, <2>1 DEF RecoverRefused, document, task
    <2>2. CASE ~RecoverRefused
      <3>1. Recovering \/ gate = "free"
        BY <1>4, <2>2, Zenon
        DEF Recovery, RecoverSteal, RecoverTerminate, RecoverAttempt,
            RecoverLeases, RecoverResolve, RecoverJournal, RecoverUnlock,
            RecoverDone, RecoverFails, RecoverCrash, Recovering
      <3>2. ctl = NoControl
        BY <3>1 DEF Exclusive
      <3>3. ctl' = NoControl
        BY <1>4, <3>2, RecoveryFrame
      <3> QED BY <3>3 DEF CancelSeen, NoControl
    <2> QED BY <2>1, <2>2
  <1>5. CASE UNCHANGED vars
    BY <1>1, <1>5 DEF vars, document, task, outside, processes, others
  <1> QED BY <1>2, <1>3, <1>4, <1>5, OperatorSeen, ControlSeen DEF Next

-----------------------------------------------------------------------------
(* Exclusive is inductive, given the types and CancelSeen.                    *)

\* Together: a step of whoever it may be.
LEMMA NextExclusive ==
    Typed /\ Exclusive /\ CancelSeen /\ [Next]_vars => Exclusive'
  <1> SUFFICES ASSUME Typed, Exclusive, CancelSeen, [Next]_vars PROVE Exclusive'
    OBVIOUS
  <1>1. ASSUME NEW s \in Scheds, Activity(s) PROVE Exclusive'
    BY <1>1, PromotionExclusive, AttemptExclusive, CIExclusive,
       EndOfStepExclusive
    DEF Activity
  <1>2. CASE UNCHANGED vars
    BY <1>2, BystanderExclusive
    DEF vars, document, outside, processes, schedVars, others, locks
  <1> QED BY <1>1, <1>2, OperatorExclusive, ControlExclusive,
             ScheduleExclusive, RecoverExclusive
          DEF Next

\* However schedulers, commands, crashes and recoveries overlap, at most one
\* activity runs: it owns the slot, and a promotion, a waiting command and a
\* recovery exclude one another through the Task gate.
THEOREM ExclusiveInvariant == Spec => []Exclusive
  <1>1. Init => Exclusive /\ CancelSeen
    BY DEF Init, Exclusive, Recovering, NoRecovery, Executing, Gated,
           CancelSeen, NoControl
  <1>2. Typed /\ Exclusive /\ CancelSeen /\ [Next]_vars => (Exclusive /\ CancelSeen)'
    BY NextExclusive, NextSeen
  <1> QED BY <1>1, <1>2, TypedInvariant, PTL DEF Spec

-----------------------------------------------------------------------------
(* PromotionAuthorised.  While a scheduler is at the CAS it has slot and   *)
(* gate, so nobody else can touch its Change but to pause it.              *)

\* The step a promotion was given still names the Artifact of its Change.
Matching == {"resolve", "promote", "construct", "journal"}
StepMatches ==
    \A s \in Scheds : pc[s] \in Matching =>
        step[s].target = change[step[s].change].artifact

\* What the conclusion of PromotionAuthorised reads of a Change.
SameChange(c) ==
    /\ change'[c].stage = change[c].stage
    /\ change'[c].base = change[c].base
    /\ change'[c].artifact = change[c].artifact
    /\ change'[c].ci = change[c].ci
    /\ change'[c].review = change[c].review
    /\ Terminal(c)' => Terminal(c)
Undisturbed ==
    /\ \A c \in Changes : SameChange(c)
    /\ UNCHANGED <<owner, latestCI, review, journal, cancelled>>
    /\ \A r \in CIRuns : run[r].status # "NONE" => run'[r] = run[r]

\* An approval stands as long as nobody writes what it is read from.
LEMMA ApprovalKept ==
    ASSUME NEW c, UNCHANGED <<owner, latestCI, review>>, SameChange(c),
           run'[change[c].ci] = run[change[c].ci],
           Approved(c, change[c], review[change[c].artifact])
    PROVE  Approved(c, change[c], review[change[c].artifact])'
  <1> DEFINE o == change[c]
             n == change'[c]
             rv == review[change[c].artifact]
  <1>1. n.artifact = o.artifact /\ n.ci = o.ci /\ n.review = o.review
    BY DEF SameChange
  <1>2. /\ o.artifact # None /\ owner[o.artifact] = c
        /\ o.ci # None /\ latestCI[o.artifact] = o.ci
        /\ run[o.ci].artifact = o.artifact /\ run[o.ci].status = "PASS"
        /\ rv.attempt # None /\ rv.attempt = o.review
        /\ rv.ci = o.ci /\ rv.verdict = "APPROVE"
    BY DEF Approved
  <1>3. /\ n.artifact # None /\ owner'[n.artifact] = c
        /\ n.ci # None /\ latestCI'[n.artifact] = n.ci
    BY <1>1, <1>2
  <1>4. run'[n.ci].artifact = n.artifact /\ run'[n.ci].status = "PASS"
    BY <1>1, <1>2
  <1>5. review'[n.artifact] = rv
    BY <1>1
  <1>6. /\ review'[n.artifact].attempt # None
        /\ review'[n.artifact].attempt = n.review
        /\ review'[n.artifact].ci = n.ci
        /\ review'[n.artifact].verdict = "APPROVE"
    BY <1>1, <1>2, <1>5
  <1> QED BY <1>3, <1>4, <1>6 DEF Approved

\* What is authorised stays so as long as nothing disturbs it.
LEMMA UndisturbedAuthorised ==
    ASSUME Typed, PromotionAuthorised, Undisturbed, NEW s \in Scheds,
           pc[s] = "cas", step'[s] = step[s], act'[s] = act[s]
    PROVE  Authorised(s)'
  <1>1. step[s].change \in Changes
    BY DEF Typed, Shape, LocalsOK, Local, Executing
  <1>2. PICK c \in Changes : c = step[s].change /\ c = step'[s].change
    BY <1>1
  <1>3. Authorised(s)
    BY DEF PromotionAuthorised
  <1>4. SameChange(c)
    BY DEF Undisturbed
  <1>5. run'[change[c].ci] = run[change[c].ci]
    <2>1. change[c].ci # None /\ run[change[c].ci].status = "PASS"
      BY <1>2, <1>3 DEF Authorised, Approved
    <2>2. change[c] \in ChangeRecord
      BY DEF Typed, TypeOK, DocumentOK
    <2>3. change[c].ci \in CIRuns
      BY <2>1, <2>2 DEF ChangeRecord, None
    <2>4. \A r \in CIRuns : run[r].status # "NONE" => run'[r] = run[r]
      BY DEF Undisturbed
    <2> QED BY <2>1, <2>3, <2>4
  <1>6. UNCHANGED <<owner, latestCI, review, journal, cancelled>>
    BY DEF Undisturbed
  <1>7. Approved(c, change[c], review[change[c].artifact])
    BY <1>2, <1>3 DEF Authorised
  <1>8. Approved(c, change[c], review[change[c].artifact])'
    BY <1>4, <1>5, <1>6, <1>7, ApprovalKept
  <1>9. /\ change[c].stage = "PROMOTION" /\ ~Terminal(c) =>
              change'[c].stage = "PROMOTION" /\ ~Terminal(c)'
        /\ change'[c].artifact = change[c].artifact
        /\ change'[c].base = change[c].base
    BY <1>4 DEF SameChange
  <1> QED BY <1>2, <1>3, <1>6, <1>8, <1>9 DEF Authorised

\* Whoever is at the CAS is alone: no command waits, no recovery is under
\* way and no other scheduler executes.
LEMMA AloneAtCAS ==
    ASSUME Exclusive, NEW s \in Scheds, pc[s] = "cas"
    PROVE  /\ slot.owner = s /\ gate = s /\ gate # "free" /\ ctl = NoControl
           /\ slot.owner # "none" /\ ~Recovering
           /\ \A t \in Scheds \ {s} : slot.owner # t /\ pc[t] \notin Executing
  BY SchedNames DEF Exclusive, Executing, Gated

\* The simple case: the document does not change.
LEMMA SameDocument ==
    ASSUME UNCHANGED <<change, evidence, journal, cancelled>>
    PROVE  Undisturbed
  BY DEF Undisturbed, SameChange, Terminal, evidence

\* Every command that could disturb the promotion needs the gate; a queued
\* CI request only uses a fresh run.
LEMMA OperatorAtCAS ==
    ASSUME Typed, Exclusive, NEW s \in Scheds, pc[s] = "cas", Operator
    PROVE  Undisturbed /\ UNCHANGED <<step, act>>
  <1>0. gate # "free" /\ ctl = NoControl
    BY AloneAtCAS
  <1>1. CASE \E a \in Artifacts, r \in CIRuns : QueueCI(a, r)
    <2>1. PICK a \in Artifacts, r \in CIRuns : QueueCI(a, r)
      BY <1>1
    <2>2. run[r].status = "NONE"
      BY <2>1 DEF QueueCI, Fresh, UnusedRuns
    <2>3. \A q \in CIRuns : run[q].status # "NONE" => run'[q] = run[q]
      BY <2>1, <2>2 DEF QueueCI, Typed, TypeOK, DocumentOK
    <2>4. UNCHANGED <<change, owner, latestCI, review, journal, cancelled,
                      step, act>>
      BY <2>1 DEF QueueCI, task, outside, processes, schedVars
    <2> QED BY <2>3, <2>4 DEF Undisturbed, SameChange, Terminal
  <1>2. CASE \/ \E k \in Attempts : Interrupt(k)
             \/ \E b \in Scopes : ResolveBlocker(b)
             \/ CommandFails
             \/ \E new \in Commits : ExternalMove(new)
             \/ \E t \in Scheds : Interrupted(t)
             \/ RecoverStart
    <2>1. UNCHANGED <<change, evidence, journal, cancelled, step, act>>
      BY <1>2 DEF Interrupt, ResolveBlocker, CommandFails, ExternalMove,
                  Interrupted, RecoverStart, document, task, outside,
                  processes, schedVars
    <2> QED BY <2>1, SameDocument
  <1> QED BY <1>0, <1>1, <1>2
          DEF Operator, ReleaseOption, ChangePromote, ChangeResume,
              ChangeRetry, ChangePause, requestCancellation, ResumeTask,
              ControlGivesUp, GateFree

\* Where a scheduler is when it takes a step of its activity.
LEMMA ActivityAt ==
    ASSUME NEW s \in Scheds, Activity(s)
    PROVE  \/ pc[s] \in Executing \ {"cas"}
           \/ pc[s] = "cas" /\ (CAS(s) \/ CASFails(s) \/ CASRejected(s))
           \/ /\ pc[s] \in {"failed", "unwind", "release"}
              /\ FailedStep(s) \/ PauseOnSignal(s) \/ EndStep(s)
  <1>1. ASSUME \/ ResolveRef(s) \/ ResolveRefFails(s) \/ Refused(s)
               \/ \E k \in Attempts : PrepareAttempt(s, k)
               \/ Materialize(s) \/ StorageFails(s) \/ OpenLogs(s)
               \/ \E r \in CIRuns : PrepareCI(s, r)
               \/ MarkCIRunning(s) \/ PromoteBusy(s) \/ PromoteStart(s)
               \/ EvidenceChanged(s) \/ Construct(s) \/ ConstructFails(s)
               \/ \E j \in Journals : PreparePromotion(s, j)
               \/ PreparePromotionFails(s) \/ CASConflict(s)
               \/ CASUnexplained(s)
        PROVE  pc[s] \in Executing \ {"cas"}
    BY <1>1 DEF Executing, ResolveRef, ResolveRefFails, Refused,
       PrepareAttempt, Materialize, StorageFails, OpenLogs, PrepareCI,
       MarkCIRunning, PromoteBusy, PromoteStart, EvidenceChanged, Construct,
       ConstructFails, PreparePromotion, PreparePromotionFails, CASConflict,
       CASUnexplained
  <1>2. ASSUME \/ EndPromotion(s) \/ ApplyPromotion(s)
               \/ \E how \in Endings, result \in Verdicts,
                     a \in Artifacts \cup {None} : Complete(s, how, result, a)
               \/ \E outcome \in Outcomes, code \in CIErrors :
                     FinishCI(s, outcome, code)
        PROVE  pc[s] \in Executing \ {"cas"}
    <2>1. EndPromotion(s) => pc[s] \in {"drifted", "conflicted"}
      BY Zenon DEF EndPromotion
    <2>2. ApplyPromotion(s) => pc[s] = "apply"
      BY Zenon DEF ApplyPromotion
    <2>3. ASSUME NEW how, NEW result, NEW a, Complete(s, how, result, a)
          PROVE  pc[s] \in {"context", "working", "starved"}
      BY <2>3, Zenon DEF Complete
    <2>4. ASSUME NEW outcome, NEW code, FinishCI(s, outcome, code)
          PROVE  pc[s] \in {"ciSetup", "ciRun"}
      BY <2>4, Zenon DEF FinishCI
    <2> QED BY <1>2, <2>1, <2>2, <2>3, <2>4 DEF Executing
  <1>3. CAS(s) \/ CASFails(s) \/ CASRejected(s) => pc[s] = "cas"
    BY DEF CAS, CASFails, CASRejected
  <1>4. FailedStep(s) \/ PauseOnSignal(s) \/ EndStep(s) =>
           pc[s] \in {"failed", "unwind", "release"}
    BY DEF FailedStep, PauseOnSignal, EndStep, Unwound
  <1> QED BY <1>1, <1>2, <1>3, <1>4 DEF Activity

\* A scheduler without the slot cannot disturb the one at the CAS: it can
\* only leave its own last Change PAUSED.
LEMMA OthersAtCAS ==
    ASSUME Typed, Exclusive, NEW s \in Scheds, pc[s] = "cas",
           NEW t \in Scheds, t # s,
           SchedStart(t) \/ Crash(t) \/ Schedule(t) \/ Activity(t)
    PROVE  Undisturbed /\ step'[s] = step[s] /\ act'[s] = act[s]
  <1>0. slot.owner # t /\ slot.owner # "none" /\ pc[t] \notin Executing
    BY AloneAtCAS
  <1>1. CASE SchedStart(t)
    <2>1. UNCHANGED <<change, evidence, journal, cancelled, step, act>>
      BY <1>1 DEF SchedStart, document, task
    <2> QED BY <2>1, SameDocument
  <1>2. CASE \/ Crash(t) \/ SchedStop(t) \/ IdleFails(t)
             \/ FailedStep(t) \/ EndStep(t)
    <2>1. UNCHANGED change
      BY <1>0, <1>2, LeavesOthersSlot
    <2>2. UNCHANGED <<evidence, journal, cancelled>>
      BY <1>2 DEF Crash, SchedStop, IdleFails, FailedStep, EndStep, task
    <2>3. step'[s] = step[s] /\ act'[s] = act[s]
      BY <1>2 DEF Crash, SchedStop, IdleFails, FailedStep, EndStep, Stopped,
         GoesOn, Typed, TypeOK, SchedulersOK
    <2> QED BY <2>1, <2>2, <2>3, SameDocument
  <1>3. CASE PauseOnSignal(t)
    <2> DEFINE c == step[t].change
    <2>1. UNCHANGED <<evidence, journal, cancelled, step, act>>
      BY <1>3 DEF PauseOnSignal, task
    <2>2. CASE UNCHANGED change
      BY <2>1, <2>2, SameDocument
    <2>3. CASE change' = [change EXCEPT ![c] =
                             Set(change[c], change[c].stage, "PAUSED")]
      <3>1. ASSUME NEW d \in Changes PROVE SameChange(d)
        <4>1. change[d] \in ChangeRecord
          BY DEF Typed, TypeOK, DocumentOK
        <4>2. change'[d] = change[d]
              \/ change'[d] = Set(change[d], change[d].stage, "PAUSED")
          BY <2>3 DEF Typed, TypeOK, DocumentOK
        <4> QED BY <4>1, <4>2 DEF SameChange, Set, ChangeRecord, Terminal
      <3> QED BY <2>1, <3>1 DEF Undisturbed, evidence
    <2> QED BY <1>3, <2>2, <2>3 DEF PauseOnSignal, AfterSignal
  <1>4. ~NextRequest(t) /\ ~NextChange(t)
    BY <1>0, Zenon DEF NextRequest, NextChange, NextEnabled
  <1>5. Activity(t) => FailedStep(t) \/ PauseOnSignal(t) \/ EndStep(t)
    BY <1>0, ActivityAt DEF Executing
  <1> QED BY <1>1, <1>2, <1>3, <1>4, <1>5 DEF Schedule

\* The scheduler at the CAS itself goes elsewhere with its next step.
LEMMA LeavesCAS ==
    ASSUME Typed, NEW s \in Scheds, pc[s] = "cas",
           SchedStart(s) \/ Crash(s) \/ Schedule(s) \/ Activity(s)
    PROVE  pc'[s] # "cas"
  <1> USE DEF Typed, TypeOK, SchedulersOK
  <1>1. ~SchedStart(s) /\ ~Schedule(s)
    BY DEF SchedStart, Schedule, SchedStop, IdleFails, NextRequest,
           NextChange, NextEnabled
  <1>2. CASE Crash(s)
    BY <1>2 DEF Crash, Stopped
  <1>3. CASE Activity(s)
    <2>1. CAS(s) \/ CASFails(s) \/ CASRejected(s)
      BY <1>3, ActivityAt
    <2> QED BY <2>1 DEF CAS, CASFails, CASRejected, Goto, Fails
  <1> QED BY <1>1, <1>2, <1>3

\* Recovery finds the gate taken.
LEMMA RecoveryAtCAS ==
    ASSUME Exclusive, NEW s \in Scheds, pc[s] = "cas",
           Recovery \/ RecoverFails \/ RecoverCrash
    PROVE  Undisturbed /\ UNCHANGED <<step, act>>
  <1>1. ~Recovering /\ gate # "free"
    BY AloneAtCAS
  <1>2. RecoverRefused
    BY <1>1 DEF Recovery, Recovering, RecoverFails, RecoverCrash,
       RecoverSteal, RecoverTerminate, RecoverAttempt, RecoverLeases,
       RecoverResolve, RecoverJournal, RecoverUnlock, RecoverDone
  <1>3. UNCHANGED <<change, evidence, journal, cancelled, step, act>>
    BY <1>2 DEF RecoverRefused, document, task, schedVars
  <1> QED BY <1>3, SameDocument

\* Together: whatever happens while s stays at the CAS disturbs nothing.
LEMMA StaysAtCAS ==
    ASSUME Typed, Exclusive, [Next]_vars, NEW s \in Scheds, pc[s] = "cas",
           pc'[s] = "cas"
    PROVE  Undisturbed /\ step'[s] = step[s] /\ act'[s] = act[s]
  <1>1. CASE Control
    BY <1>1, AloneAtCAS DEF Control, ChangeSettled, CancellationSettles, finishLifecycle,
       LifecycleRefused, finishResume, NoControl
  <1>2. CASE UNCHANGED vars
    BY <1>2, SameDocument
    DEF vars, document, task, outside, processes, schedVars
  <1>3. ASSUME NEW t \in Scheds,
               SchedStart(t) \/ Crash(t) \/ Schedule(t) \/ Activity(t)
        PROVE  Undisturbed /\ step'[s] = step[s] /\ act'[s] = act[s]
    BY <1>3, OthersAtCAS, LeavesCAS
  <1> QED BY <1>1, <1>2, <1>3, OperatorAtCAS, RecoveryAtCAS DEF Next

-----------------------------------------------------------------------------
(* StepMatches: only a finished mutation and recovery replace the Artifact *)
(* of a Change, and neither runs beside a promotion.                       *)

KeepsArtifacts ==
    \A c \in Changes : change'[c].artifact = change[c].artifact

\* Set does not touch the Artifact.
LEMMA SetKeeps ==
    ASSUME NEW ch \in ChangeRecord, NEW stage, NEW state
    PROVE  Set(ch, stage, state).artifact = ch.artifact
  BY DEF Set, ChangeRecord
\* Replacing one Change by one with the same Artifact.
LEMMA UpdateKeeps ==
    ASSUME Typed, NEW c, NEW ch, change' = [change EXCEPT ![c] = ch],
           c \in Changes => ch.artifact = change[c].artifact
    PROVE  KeepsArtifacts
  BY DEF KeepsArtifacts, Typed, TypeOK, DocumentOK
\* Pausing every Change.
LEMMA PausedAllKeeps ==
    ASSUME Typed, change' = PausedAll
    PROVE  KeepsArtifacts
  BY SetKeeps DEF KeepsArtifacts, PausedAll, Typed, TypeOK, DocumentOK

\* No command replaces an Artifact.
LEMMA OperatorKeeps ==
    ASSUME Typed, Operator
    PROVE  KeepsArtifacts
  <1>0. change \in [Changes -> ChangeRecord]
    BY DEF Typed, TypeOK, DocumentOK
  <1>1. ASSUME NEW c \in Changes, ReleaseOption(c) PROVE KeepsArtifacts
    <2> DEFINE ch == Set(change[c], "MUTATION", "QUEUED")
    <2>1. ch \in ChangeRecord /\ ch.artifact = change[c].artifact
      BY <1>0, SetType, SetKeeps DEF Stages, States
    <2>2. [ch EXCEPT !.base = taskSHA].artifact = change[c].artifact
      <3> HIDE DEF ch
      <3> QED BY <2>1 DEF ChangeRecord
    <2>3. change' = [change EXCEPT ![c] = [ch EXCEPT !.base = taskSHA]]
      BY <1>1 DEF ReleaseOption
    <2> HIDE DEF ch
    <2> QED BY <2>2, <2>3, UpdateKeeps
  <1>2. ASSUME NEW c \in Changes, ChangePromote(c) PROVE KeepsArtifacts
    <2>1. Set(change[c], "PROMOTION", "QUEUED").artifact
             = change[c].artifact
      BY <1>0, SetKeeps
    <2>2. change' = [change EXCEPT ![c] =
                        Set(change[c], "PROMOTION", "QUEUED")]
      BY <1>2 DEF ChangePromote
    <2> QED BY <2>1, <2>2, UpdateKeeps
  <1>3. ASSUME NEW c \in Changes, ChangeResume(c) PROVE KeepsArtifacts
    <2> DEFINE ch == Set(change[c], change[c].stage, "QUEUED")
    <2>1. ch \in ChangeRecord /\ ch.artifact = change[c].artifact
      BY <1>0, KeepStage, SetKeeps DEF States
    <2>2. [ch EXCEPT !.resetAt = RunsOf(c)].artifact = change[c].artifact
      <3> HIDE DEF ch
      <3> QED BY <2>1 DEF ChangeRecord
    <2>3. change' = [change EXCEPT ![c] =
                        [ch EXCEPT !.resetAt = RunsOf(c)]]
      BY <1>3 DEF ChangeResume
    <2> HIDE DEF ch
    <2> QED BY <2>2, <2>3, UpdateKeeps
  <1>4. ASSUME NEW c \in Changes, NEW stage \in {"CI", "REVIEW", "MUTATION"},
               ChangeRetry(c, stage)
        PROVE  KeepsArtifacts
    <2> DEFINE ch == Set(change[c], stage, "QUEUED")
               r == IF stage = "REVIEW" THEN latestCI[change[c].artifact]
                                        ELSE change[c].ci
    <2>1. ch \in ChangeRecord /\ ch.artifact = change[c].artifact
      BY <1>0, SetType, SetKeeps DEF Stages, States
    <2>2. [ch EXCEPT !.ci = r, !.review = None,
                     !.resetAt = RunsOf(c)].artifact = change[c].artifact
      <3> HIDE DEF ch, r
      <3> QED BY <2>1 DEF ChangeRecord
    <2>3. change' = [change EXCEPT ![c] =
             [ch EXCEPT !.ci = r, !.review = None, !.resetAt = RunsOf(c)]]
      BY <1>4 DEF ChangeRetry
    <2> HIDE DEF ch, r
    <2> QED BY <2>2, <2>3, UpdateKeeps
  <1>5. ASSUME NEW c \in Changes, NEW state, ChangePause(c, state)
        PROVE  KeepsArtifacts
    <2>1. Set(change[c], change[c].stage, state).artifact
             = change[c].artifact
      BY <1>0, SetKeeps
    <2>2. change' = [change EXCEPT ![c] =
                        Set(change[c], change[c].stage, state)]
      BY <1>5 DEF ChangePause
    <2> QED BY <2>1, <2>2, UpdateKeeps
  <1>6. ASSUME NEW op, requestCancellation(op) PROVE KeepsArtifacts
    BY <1>6, PausedAllKeeps DEF requestCancellation
  <1>7. CASE UNCHANGED change
    BY <1>7 DEF KeepsArtifacts
  <1> QED BY <1>1, <1>2, <1>3, <1>4, <1>5, <1>6, <1>7
          DEF Operator, QueueCI, Interrupt, ResolveBlocker, ResumeTask,
              ControlGivesUp, CommandFails, ExternalMove, Interrupted,
              RecoverStart, document

\* Neither does the end of one.
LEMMA ControlKeeps ==
    ASSUME Typed, Control
    PROVE  KeepsArtifacts
  <1>1. CASE finishResume
    BY <1>1, SetKeeps DEF finishResume, KeepsArtifacts, Typed, TypeOK,
                          DocumentOK
  <1>2. CASE UNCHANGED change
    BY <1>2 DEF KeepsArtifacts
  <1> QED BY <1>1, <1>2, PausedAllKeeps
          DEF Control, ChangeSettled, CancellationSettles, LifecycleRefused, finishLifecycle,
              document

\* While s is in the first half of a promotion, nobody replaces an Artifact.
LEMMA MatchingKeeps ==
    ASSUME Typed, Exclusive, [Next]_vars, NEW s \in Scheds,
           pc[s] \in Matching
    PROVE  KeepsArtifacts
  <1>0. /\ slot.owner = s /\ slot.owner # "none" /\ ~Recovering
        /\ \A t \in Scheds \ {s} : slot.owner # t /\ pc[t] \notin Executing
    BY SchedNames DEF Exclusive, Executing, Matching
  <1>1. CASE UNCHANGED change
    BY <1>1 DEF KeepsArtifacts
  <1>2. ASSUME NEW t \in Scheds, Activity(t) PROVE KeepsArtifacts
    <2>1. CASE t = s
      <3>1. pc[s] \in {"resolve", "promote", "construct", "journal"}
        BY DEF Matching
      <3>2. /\ ~EndPromotion(s) /\ ~ApplyPromotion(s)
            /\ \A how, result, a : ~Complete(s, how, result, a)
            /\ \A outcome, code : ~FinishCI(s, outcome, code)
        <4>1. ~EndPromotion(s)
          BY <3>1, Zenon DEF EndPromotion
        <4>2. ~ApplyPromotion(s)
          BY <3>1, Zenon DEF ApplyPromotion
        <4>3. ASSUME NEW how, NEW result, NEW a, Complete(s, how, result, a)
              PROVE  FALSE
          BY <3>1, <4>3, Zenon DEF Complete
        <4>4. ASSUME NEW outcome, NEW code, FinishCI(s, outcome, code)
              PROVE  FALSE
          BY <3>1, <4>4, Zenon DEF FinishCI
        <4> QED BY <4>1, <4>2, <4>3, <4>4
      <3>3. UNCHANGED change
        BY <1>2, <2>1, <3>1, <3>2 DEF Activity, ResolveRef, ResolveRefFails,
           Refused, PrepareAttempt, Materialize, StorageFails, PrepareCI,
           OpenLogs, MarkCIRunning, PromoteBusy, PromoteStart,
           EvidenceChanged, Construct, ConstructFails, PreparePromotion,
           PreparePromotionFails, CAS, CASFails, CASRejected, CASConflict,
           CASUnexplained, FailedStep, PauseOnSignal, EndStep, Unwound,
           document
      <3> QED BY <1>1, <3>3
    <2>2. CASE t # s
      <3>1. FailedStep(t) \/ PauseOnSignal(t) \/ EndStep(t)
        BY <1>0, <1>2, <2>2, ActivityAt DEF Executing
      <3>2. CASE FailedStep(t) \/ EndStep(t)
        BY <1>0, <1>1, <2>2, <3>2, LeavesOthersSlot
      <3>3. CASE PauseOnSignal(t)
        <4> DEFINE c == step[t].change
                   ch == Set(change[c], change[c].stage, "PAUSED")
        <4>1. c \in Changes => ch.artifact = change[c].artifact
          BY SetKeeps DEF Typed, TypeOK, DocumentOK
        <4>2. UNCHANGED change \/ change' = [change EXCEPT ![c] = ch]
          BY <3>3 DEF PauseOnSignal, AfterSignal
        <4> QED BY <1>1, <4>1, <4>2, UpdateKeeps
      <3> QED BY <3>1, <3>2, <3>3
    <2> QED BY <2>1, <2>2
  <1>3. ASSUME NEW t \in Scheds, SchedStart(t) \/ Crash(t) \/ Schedule(t)
        PROVE  KeepsArtifacts
    <2>1. ~NextRequest(t) /\ ~NextChange(t)
      BY <1>0, Zenon DEF NextRequest, NextChange, NextEnabled
    <2>2. t = s => ~SchedStop(t) /\ ~IdleFails(t)
      BY DEF SchedStop, IdleFails, Matching
    <2>3. SchedStart(t) \/ Crash(t) => UNCHANGED change
      BY DEF SchedStart, Crash, KeepsSlot, document
    <2>4. t # s /\ (SchedStop(t) \/ IdleFails(t)) => UNCHANGED change
      BY <1>0, LeavesOthersSlot
    <2> QED BY <1>1, <1>3, <2>1, <2>2, <2>3, <2>4 DEF Schedule
  <1>4. Recovery \/ RecoverFails \/ RecoverCrash => UNCHANGED change
    BY <1>0, Zenon DEF Recovering, Recovery, RecoverRefused, RecoverSteal,
       RecoverTerminate, RecoverAttempt, RecoverLeases, RecoverResolve,
       RecoverJournal, RecoverUnlock, RecoverDone, RecoverFails,
       RecoverCrash, document
  <1> QED BY <1>1, <1>2, <1>3, <1>4, OperatorKeeps, ControlKeeps
          DEF Next, vars, document

\* A step of its activity moves one scheduler.  It enters the first half of a
\* promotion only from there, and the CAS only through PreparePromotion.
LEMMA ActivityMoves ==
    ASSUME Typed, NEW s \in Scheds, Activity(s)
    PROVE  /\ \E label : /\ pc' = [pc EXCEPT ![s] = label]
                         /\ label \in Matching => pc[s] \in Matching
                         /\ label = "cas" =>
                               \E j \in Journals : PreparePromotion(s, j)
           /\ UNCHANGED step \/ step' = [step EXCEPT ![s] = NoStep]
           /\ pc'[s] \in Matching => UNCHANGED step
  <1> USE DEF Matching, Goto
  <1>0. pc \in [Scheds -> Labels]
    BY DEF Typed, TypeOK, SchedulersOK
  <1>1. ASSUME Returns(s) \/ \E code : Fails(s, code), UNCHANGED step
        PROVE  /\ \E label \in {"unwind", "failed"} :
                     pc' = [pc EXCEPT ![s] = label]
               /\ UNCHANGED step
    BY <1>1 DEF Returns, Fails
  <1>2. CASE \/ ResolveRefFails(s) \/ Refused(s) \/ StorageFails(s)
             \/ PromoteBusy(s) \/ EvidenceChanged(s) \/ ConstructFails(s)
             \/ PreparePromotionFails(s) \/ CASFails(s) \/ CASUnexplained(s)
    <2>1. (Returns(s) \/ \E code : Fails(s, code)) /\ UNCHANGED step
      BY <1>2 DEF ResolveRefFails, Refused, StorageFails, PromoteBusy,
         EvidenceChanged, ConstructFails, PreparePromotionFails, CASFails,
         CASUnexplained
    <2> QED BY <1>0, <1>1, <2>1
  <1>3. CASE EndPromotion(s) \/ ApplyPromotion(s)
    <2>1. (Returns(s) \/ \E code : Fails(s, code)) /\ UNCHANGED step
      BY <1>3, Zenon DEF EndPromotion, ApplyPromotion
    <2> QED BY <1>0, <1>1, <2>1
  <1>4. ASSUME NEW how, NEW result, NEW a, Complete(s, how, result, a)
        PROVE  (Returns(s) \/ \E code : Fails(s, code)) /\ UNCHANGED step
    BY <1>4, Zenon DEF Complete
  <1>5. ASSUME NEW outcome, NEW code, FinishCI(s, outcome, code)
        PROVE  (Returns(s) \/ \E x : Fails(s, x)) /\ UNCHANGED step
    BY <1>5, Zenon DEF FinishCI
  <1>6. CASE ResolveRef(s) \/ PromoteStart(s) \/ Construct(s)
    BY <1>0, <1>6 DEF ResolveRef, PromoteStart, Construct, Fails
  <1>7. CASE \/ \E k \in Attempts : PrepareAttempt(s, k)
             \/ Materialize(s) \/ \E r \in CIRuns : PrepareCI(s, r)
             \/ MarkCIRunning(s) \/ CAS(s) \/ CASRejected(s)
             \/ CASConflict(s)
    <2> DEFINE Leaves == {"context", "working", "starved", "ciSetup", "ciRun",
                          "failed", "apply", "casCheck", "conflicted"}
    <2>1. ASSUME NEW label \in Leaves, pc' = [pc EXCEPT ![s] = label],
                 UNCHANGED step
          PROVE  /\ \E l : /\ pc' = [pc EXCEPT ![s] = l]
                           /\ l \in Matching => pc[s] \in Matching
                           /\ l = "cas" =>
                                 \E j \in Journals : PreparePromotion(s, j)
                 /\ UNCHANGED step \/ step' = [step EXCEPT ![s] = NoStep]
                 /\ pc'[s] \in Matching => UNCHANGED step
      <3>1. label \notin Matching /\ label # "cas"
        OBVIOUS
      <3> QED BY <2>1, <3>1
    <2>2. CASE \E k \in Attempts : PrepareAttempt(s, k)
      <3>1. pc' = [pc EXCEPT ![s] = "context"] /\ UNCHANGED step
        BY <2>2 DEF PrepareAttempt
      <3> QED BY <2>1, <3>1
    <2>3. CASE Materialize(s)
      <3>1. /\ \/ pc' = [pc EXCEPT ![s] = "working"]
               \/ pc' = [pc EXCEPT ![s] = "starved"]
            /\ UNCHANGED step
        BY <2>3 DEF Materialize
      <3> QED BY <2>1, <3>1
    <2>4. CASE \E r \in CIRuns : PrepareCI(s, r)
      <3>1. pc' = [pc EXCEPT ![s] = "ciSetup"] /\ UNCHANGED step
        BY <2>4 DEF PrepareCI
      <3> QED BY <2>1, <3>1
    <2>5. CASE MarkCIRunning(s)
      <3>1. UNCHANGED step /\ pc[s] = "ciSetup"
        BY <2>5 DEF MarkCIRunning
      <3>2. \/ pc' = [pc EXCEPT ![s] = "ciRun"]
            \/ pc' = [pc EXCEPT ![s] = IF @ \in {"resolve", "drifted"}
                                       THEN "unwind" ELSE "failed"]
        BY <2>5 DEF MarkCIRunning, Fails
      <3>3. \/ pc' = [pc EXCEPT ![s] = "ciRun"]
            \/ pc' = [pc EXCEPT ![s] = "failed"]
        BY <3>1, <3>2
      <3> QED BY <2>1, <3>1, <3>3
    <2>6. CASE CAS(s)
      <3>1. pc' = [pc EXCEPT ![s] = "apply"] /\ UNCHANGED step
        BY <2>6 DEF CAS
      <3> QED BY <2>1, <3>1
    <2>7. CASE CASRejected(s)
      <3>1. pc' = [pc EXCEPT ![s] = "casCheck"] /\ UNCHANGED step
        BY <2>7 DEF CASRejected
      <3> QED BY <2>1, <3>1
    <2>8. CASE CASConflict(s)
      <3>1. pc' = [pc EXCEPT ![s] = "conflicted"] /\ UNCHANGED step
        BY <2>8 DEF CASConflict
      <3> QED BY <2>1, <3>1
    <2> QED BY <1>7, <2>2, <2>3, <2>4, <2>5, <2>6, <2>7, <2>8
  <1>8. CASE OpenLogs(s)
    <2>1. UNCHANGED <<pc, step>> /\ pc[s] = "ciSetup"
      BY <1>8 DEF OpenLogs, outside, processes, schedVars
    <2> QED BY <1>0, <2>1
  <1>9. CASE \E j \in Journals : PreparePromotion(s, j)
    BY <1>0, <1>9 DEF PreparePromotion
  <1>10. CASE FailedStep(s) \/ PauseOnSignal(s) \/ EndStep(s)
    BY <1>0, <1>10 DEF FailedStep, PauseOnSignal, EndStep, GoesOn, Stopped
  <1>11. CASE \E how \in Endings, result \in Verdicts,
                 a \in Artifacts \cup {None} : Complete(s, how, result, a)
    <2>1. (Returns(s) \/ \E code : Fails(s, code)) /\ UNCHANGED step
      BY <1>4, <1>11
    <2> QED BY <1>0, <1>1, <2>1
  <1>12. CASE \E outcome \in Outcomes, code \in CIErrors :
                 FinishCI(s, outcome, code)
    <2>1. (Returns(s) \/ \E code : Fails(s, code)) /\ UNCHANGED step
      BY <1>5, <1>12
    <2> QED BY <1>0, <1>1, <2>1
  <1> QED BY <1>2, <1>3, <1>6, <1>7, <1>8, <1>9, <1>10, <1>11, <1>12
          DEF Activity

\* Schedulers at rest enter a promotion only when Next hands them one.
LEMMA ScheduleMoves ==
    ASSUME Typed, NEW s \in Scheds,
           SchedStart(s) \/ Crash(s) \/ Schedule(s)
    PROVE  /\ \E label : /\ pc' = [pc EXCEPT ![s] = label]
                         /\ label \in Matching => NextChange(s)
                         /\ label # "cas" \/ UNCHANGED pc
           /\ \A t \in Scheds \ {s} : step'[t] = step[t]
  <1> USE DEF Matching, Goto, Typed, TypeOK, SchedulersOK
  <1>1. CASE SchedStart(s)
    BY <1>1 DEF SchedStart
  <1>2. CASE Crash(s) \/ SchedStop(s) \/ IdleFails(s)
    BY <1>2 DEF Crash, SchedStop, IdleFails, Stopped
  <1>3. CASE NextRequest(s)
    <2>1. PICK r \in requests : Select(s, RequestStep(r))
      BY <1>3 DEF NextRequest
    <2>2. /\ pc' = [pc EXCEPT ![s] = "ciPrepare"]
          /\ step' = [step EXCEPT ![s] = RequestStep(r)]
      BY <2>1 DEF Select, RequestStep
    <2>3. \A u \in Scheds \ {s} : step'[u] = step[u]
      BY <2>2
    <2>4. "ciPrepare" \notin Matching /\ "ciPrepare" # "cas"
      OBVIOUS
    <2> HIDE DEF Matching, Typed
    <2> QED BY <2>2, <2>3, <2>4, Zenon
  <1>4. CASE NextChange(s)
    <2>1. UNCHANGED <<activity, step, pc>> \/ \E p : Select(s, p)
      BY <1>4, Zenon DEF NextChange
    <2>2. CASE UNCHANGED <<activity, step, pc>>
      <3>1. pc[s] = "idle"
        BY <1>4, Zenon DEF NextChange, NextEnabled
      <3> QED BY <2>2, <3>1
    <2>3. CASE \E p : Select(s, p)
      <3>1. PICK p : Select(s, p)
        BY <2>3
      <3>2. PICK label \in {"ciPrepare", "resolve"} : Goto(s, label)
        BY <3>1 DEF Select
      <3>3. step' = [step EXCEPT ![s] = p]
        BY <3>1 DEF Select
      <3>4. \A u \in Scheds \ {s} : step'[u] = step[u]
        BY <3>3
      <3>5. pc' = [pc EXCEPT ![s] = label] /\ label # "cas"
        BY <3>2
      <3> HIDE DEF Matching, Typed
      <3> QED BY <1>4, <3>4, <3>5, Zenon
    <2> QED BY <2>1, <2>2, <2>3
  <1> QED BY <1>1, <1>2, <1>3, <1>4 DEF Schedule

\* Steps of anybody else leave pc and step alone.
LEMMA OthersStay ==
    ASSUME Operator \/ Control \/ Recovery \/ RecoverFails \/ RecoverCrash
           \/ UNCHANGED vars
    PROVE  UNCHANGED <<pc, step>>
  <1> USE DEF outside, processes, schedVars
  <1>1. CASE Operator
    BY <1>1 DEF Operator, ReleaseOption, ChangePromote, ChangeResume,
       ChangeRetry, OnlyChange, ChangePause, QueueCI, Interrupt,
       ResolveBlocker, requestCancellation, ResumeTask, ControlGivesUp,
       CommandFails, ExternalMove, Interrupted, RecoverStart
  <1>2. CASE Control
    BY <1>2 DEF Control, ChangeSettled, CancellationSettles, finishLifecycle, LifecycleRefused,
       finishResume
  <1>3. CASE Recovery \/ RecoverFails \/ RecoverCrash
    BY <1>3 DEF Recovery, RecoverRefused, RecoverSteal, RecoverTerminate,
       RecoverAttempt, RecoverLeases, RecoverResolve, RecoverJournal,
       RecoverUnlock, RecoverDone, RecoverFails, RecoverCrash
  <1>4. CASE UNCHANGED vars
    BY <1>4 DEF vars
  <1> QED BY <1>1, <1>2, <1>3, <1>4

\* Next hands out the step of the Change as it is.
LEMMA NextChangeMatches ==
    ASSUME Typed, NEW s \in Scheds, NextChange(s), pc'[s] \in Matching
    PROVE  step'[s].target = change'[step'[s].change].artifact
  <1>0. /\ change \in [Changes -> ChangeRecord]
        /\ step \in [Scheds -> StepRecord]
    BY DEF Typed, TypeOK, DocumentOK, SchedulersOK
  <1>1. \/ UNCHANGED <<activity, step, pc>>
        \/ \E c \in Changes : Select(s, ChangeStep(c))
    BY Zenon DEF NextChange
  <1>2. pc[s] = "idle"
    BY Zenon DEF NextChange, NextEnabled
  <1>3. PICK c \in Changes : Select(s, ChangeStep(c))
    BY <1>1, <1>2 DEF Matching
  <1>4. step'[s] = ChangeStep(c)
    BY <1>0, <1>3 DEF Select
  <1>5. change'[c].artifact = change[c].artifact
    <2>1. \/ change'[c] = [change[c] EXCEPT !.state = "RUNNING",
                                            !.started = TRUE]
          \/ change'[c] = [change[c] EXCEPT !.state = "STALE"]
          \/ change'[c] = [change[c] EXCEPT !.state = "BLOCKED"]
          \/ change'[c] = change[c]
      BY DEF NextChange
    <2> QED BY <1>0, <2>1 DEF ChangeRecord
  <1> QED BY <1>4, <1>5 DEF ChangeStep

\* StepMatches is inductive, given the types and Exclusive.
LEMMA NextStepMatches ==
    Typed /\ Exclusive /\ StepMatches /\ [Next]_vars => StepMatches'
  <1> SUFFICES ASSUME Typed, Exclusive, StepMatches, [Next]_vars,
                      NEW s \in Scheds, pc'[s] \in Matching
               PROVE  step'[s].target = change'[step'[s].change].artifact
    BY DEF StepMatches
  <1>0. pc \in [Scheds -> Labels] /\ step \in [Scheds -> StepRecord]
    BY DEF Typed, TypeOK, SchedulersOK
  <1>1. CASE pc[s] \in Matching /\ step'[s] = step[s]
    <2>1. step[s].change \in Changes
      BY <1>1 DEF Typed, Shape, LocalsOK, Local, Matching, Executing
    <2>2. change'[step[s].change].artifact = change[step[s].change].artifact
      BY <1>1, <2>1, MatchingKeeps DEF KeepsArtifacts
    <2> QED BY <1>1, <2>2 DEF StepMatches
  <1>2. ASSUME NEW t \in Scheds, Activity(t)
        PROVE  pc[s] \in Matching /\ step'[s] = step[s]
    BY <1>0, <1>2, ActivityMoves
  <1>3. ASSUME NEW t \in Scheds, SchedStart(t) \/ Crash(t) \/ Schedule(t)
        PROVE  NextChange(s) \/ (pc[s] \in Matching /\ step'[s] = step[s])
    BY <1>0, <1>3, ScheduleMoves
  <1> QED BY <1>1, <1>2, <1>3, OthersStay, NextChangeMatches DEF Next

\* Entering the CAS: PreparePromotion has just checked everything.
LEMMA EntersCAS ==
    ASSUME Typed, StepMatches, NEW s \in Scheds, NEW j \in Journals,
           PreparePromotion(s, j)
    PROVE  Authorised(s)'
  <1> DEFINE c == step[s].change
  <1>1. /\ journal \in [Journals -> JournalRecord]
        /\ act \in [Scheds -> Nat] /\ change \in [Changes -> ChangeRecord]
    BY DEF Typed, TypeOK, DocumentOK, SchedulersOK
  <1>2. c \in Changes /\ step[s].target = change[c].artifact
    BY DEF PreparePromotion, StepMatches, Matching, Typed, Shape, LocalsOK,
           Local, Executing
  <1>3. /\ ~cancelled /\ change[c].stage = "PROMOTION"
        /\ change[c].state = "RUNNING"
        /\ Approved(c, change[c], review[change[c].artifact])
    BY DEF PreparePromotion, Promotable, InPromotion, HasEvidence,
           PromotionEvidence
  <1>4. UNCHANGED <<change, owner, run, latestCI, review, cancelled, step>>
    BY DEF PreparePromotion, evidence, task
  <1>5. /\ act'[s] = j /\ journal'[j].state = "PREPARED"
        /\ journal'[j].artifact = change[c].artifact
        /\ journal'[j].old = change[c].base
    BY <1>1, <1>2 DEF PreparePromotion
  <1> QED BY <1>2, <1>3, <1>4, <1>5 DEF Authorised, Approved, Terminal

\* PromotionAuthorised is inductive, given all of these.
LEMMA NextAuthorised ==
    Typed /\ Exclusive /\ StepMatches /\ PromotionAuthorised /\ [Next]_vars
        => PromotionAuthorised'
  <1> SUFFICES ASSUME Typed, Exclusive, StepMatches, PromotionAuthorised,
                      [Next]_vars, NEW s \in Scheds, pc'[s] = "cas"
               PROVE  Authorised(s)'
    BY DEF PromotionAuthorised
  <1>0. pc \in [Scheds -> Labels]
    BY DEF Typed, TypeOK, SchedulersOK
  <1>1. CASE pc[s] = "cas"
    BY <1>1, StaysAtCAS, UndisturbedAuthorised
  <1>2. CASE pc[s] # "cas"
    <2>1. ASSUME NEW t \in Scheds, Activity(t)
          PROVE  \E j \in Journals : PreparePromotion(s, j)
      BY <1>0, <1>2, <2>1, ActivityMoves
    <2>2. ASSUME NEW t \in Scheds, SchedStart(t) \/ Crash(t) \/ Schedule(t)
          PROVE  FALSE
      BY <1>0, <1>2, <2>2, ScheduleMoves
    <2>3. \E j \in Journals : PreparePromotion(s, j)
      BY <1>2, <2>1, <2>2, OthersStay DEF Next
    <2> QED BY <2>3, EntersCAS
  <1> QED BY <1>1, <1>2

\* The ref is only ever moved for a Change whose promotion the operator
\* authorised and nobody withdrew, with the journal written and an approval
\* of the very Artifact on its latest, passing CI run.
THEOREM AuthorisedInvariant == Spec => []PromotionAuthorised
  <1> DEFINE Inv == /\ Exclusive /\ CancelSeen /\ StepMatches
                    /\ PromotionAuthorised
  <1>1. Init => Inv
    BY DEF Init, Exclusive, Recovering, NoRecovery, Executing, Gated,
           CancelSeen, NoControl, StepMatches, Matching, PromotionAuthorised
  <1>2. Typed /\ Inv /\ [Next]_vars => Inv'
    BY NextExclusive, NextSeen, NextStepMatches, NextAuthorised
  <1>3. Inv => PromotionAuthorised
    OBVIOUS
  <1> HIDE DEF Inv
  <1> QED BY <1>1, <1>2, <1>3, TypedInvariant, PTL DEF Spec

=============================================================================
